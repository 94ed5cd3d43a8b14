--------------------------- MODULE ShmcacheProofs ---------------------------
(***************************************************************************)
(* The lock of the shared memory cache, proved for any number of           *)
(* processes, whatever they call, whenever they die and whatever the       *)
(* operations do to the memory: the argument is about the mutex, the       *)
(* recorded pid, the lock on the file and the pid a waiter took for dead.  *)
(***************************************************************************)
EXTENDS Shmcache, TLAPS

Points == {"closed", "map", "initlock", "init", "attach", "open", "try", "locked", "cs",
           "leave", "detect", "recheck", "release", "dead"}

LockType ==
  /\ mutex \in {0} \cup Procs /\ pid \in {0} \cup Procs /\ flock \in {0} \cup Procs
  /\ pc \in [Procs -> Points] /\ last \in [Procs -> {0} \cup Procs]

(* The file lock admits one process at a time to the setup and recovery.   *)
FileLockHeld == \A p \in Procs : pc[p] \in {"init", "recheck", "release"} => flock = p

(* Nobody has the mutex, or asks for it, before the memory is set up.      *)
SetUpFirst ==
  /\ mutex # 0 => status = "normal"
  /\ \A p \in Procs : pc[p] \notin {"closed", "map", "initlock", "init", "dead"} => status = "normal"

(* A recorded pid is the owner's, which is in its critical section or died *)
(* there.                                                                  *)
PidIsOwner ==
  /\ pid # 0 => mutex = pid /\ pc[pid] \in {"cs", "dead"}
  /\ \A p \in Procs : pc[p] = "cs" => pid = p

(* What a waiter has found out about the owner stays true.                 *)
SuspectIsDead ==
  /\ \A p \in Procs : pc[p] \in {"detect", "recheck"} => last[p] # 0 /\ Dead(last[p])
  /\ \A p \in Procs : pc[p] = "release" => pid = 0

TornIsRecorded == torn => pid # 0 /\ Dead(pid)

LockInv == /\ LockType /\ FileLockHeld /\ SetUpFirst /\ PidIsOwner
           /\ SuspectIsDead /\ OneOwner /\ TornIsRecorded

USE PidAssumption

LEMMA LockInit == Init => LockInv
<1> SUFFICES ASSUME Init PROVE LockInv
  OBVIOUS
<1>1. /\ pc \in [Procs -> {"open", "closed"}]
      /\ \A p \in Procs : pc[p] = "open" => status = "normal"
  BY DEF Init
<1>2. mutex = 0 /\ pid = 0 /\ flock = 0 /\ torn = FALSE /\ last = [p \in Procs |-> 0]
  BY DEF Init
<1>3. QED
  BY <1>1, <1>2 DEF LockInv, LockType, Points, FileLockHeld, SetUpFirst, PidIsOwner, SuspectIsDead,
                    OneOwner, TornIsRecorded

(* Opening the cache.  Only the holder of the file lock resets the mutex,  *)
(* and only while nobody can have it.                                      *)
LEMMA OpenKeepsLock ==
  ASSUME LockInv, NEW p \in Procs,
         InitExists(p) \/ InitMap(p) \/ InitLock(p) \/ InitDo(p) \/ InitAttach(p) \/ Destroy(p)
  PROVE  LockInv'
<1>1. CASE InitExists(p) \/ InitAttach(p) \/ Destroy(p)
  BY <1>1 DEF LockInv, LockType, Points, FileLockHeld, SetUpFirst, PidIsOwner, SuspectIsDead, OneOwner,
              TornIsRecorded, Dead, InitExists, InitAttach, Destroy, Go, locks
<1>2. CASE InitMap(p)
  BY <1>2 DEF LockInv, LockType, Points, FileLockHeld, SetUpFirst, PidIsOwner, SuspectIsDead, OneOwner,
              TornIsRecorded, Dead, InitMap, Go, locks, local
<1>3. CASE InitLock(p)
  BY <1>3 DEF LockInv, LockType, Points, FileLockHeld, SetUpFirst, PidIsOwner, SuspectIsDead, OneOwner,
              TornIsRecorded, Dead, InitLock, Go, local
<1>4. CASE InitDo(p)
  BY <1>4 DEF LockInv, LockType, Points, FileLockHeld, SetUpFirst, PidIsOwner, SuspectIsDead, OneOwner,
              TornIsRecorded, Dead, InitDo, Go
<1>5. QED
  BY <1>1, <1>2, <1>3, <1>4

(* Taking and giving back the mutex.                                       *)
LEMMA OwnerKeepsLock ==
  ASSUME LockInv, NEW p \in Procs,
         Call(p) \/ TryLock(p) \/ RecordPid(p) \/ Operate(p) \/ Unlock(p)
  PROVE  LockInv'
<1>1. CASE Call(p)
  BY <1>1 DEF LockInv, LockType, Points, FileLockHeld, SetUpFirst, PidIsOwner, SuspectIsDead, OneOwner,
              TornIsRecorded, Dead, Call, Go, locks
<1>2. CASE TryLock(p)
  BY <1>2 DEF LockInv, LockType, Points, FileLockHeld, SetUpFirst, PidIsOwner, SuspectIsDead, OneOwner,
              TornIsRecorded, Dead, TryLock, Go, local
<1>3. CASE RecordPid(p)
  BY <1>3 DEF LockInv, LockType, Points, FileLockHeld, SetUpFirst, PidIsOwner, SuspectIsDead, OneOwner,
              TornIsRecorded, Dead, RecordPid, Go, local
<1>4. CASE Operate(p)
  BY <1>4 DEF LockInv, LockType, Points, FileLockHeld, SetUpFirst, PidIsOwner, SuspectIsDead, OneOwner,
              TornIsRecorded, Dead, Operate, Go
<1>5. CASE Unlock(p)
  BY <1>5 DEF LockInv, LockType, Points, FileLockHeld, SetUpFirst, PidIsOwner, SuspectIsDead, OneOwner,
              TornIsRecorded, Dead, Unlock, Go, local
<1>6. QED
  BY <1>1, <1>2, <1>3, <1>4, <1>5

(* shm_detect_deadlock: the second look at the pid, under the file lock,   *)
(* is what makes the suspect the present owner.                            *)
LEMMA RecoveryKeepsLock ==
  ASSUME LockInv, NEW p \in Procs,
         FoundDead(p) \/ DetectLock(p) \/ Recheck(p) \/ Release(p)
  PROVE  LockInv'
<1>1. CASE FoundDead(p)
  BY <1>1 DEF LockInv, LockType, Points, FileLockHeld, SetUpFirst, PidIsOwner, SuspectIsDead, OneOwner,
              TornIsRecorded, Dead, FoundDead, Go, locks
<1>2. CASE DetectLock(p)
  BY <1>2 DEF LockInv, LockType, Points, FileLockHeld, SetUpFirst, PidIsOwner, SuspectIsDead, OneOwner,
              TornIsRecorded, Dead, DetectLock, Go, local
<1>3. CASE Recheck(p)
  BY <1>3 DEF LockInv, LockType, Points, FileLockHeld, SetUpFirst, PidIsOwner, SuspectIsDead, OneOwner,
              TornIsRecorded, Dead, Recheck, Go, local
<1>4. CASE Release(p)
  BY <1>4 DEF LockInv, LockType, Points, FileLockHeld, SetUpFirst, PidIsOwner, SuspectIsDead, OneOwner,
              TornIsRecorded, Dead, Release, Go, local
<1>5. QED
  BY <1>1, <1>2, <1>3, <1>4

LEMMA CrashKeepsLock ==
  ASSUME LockInv, NEW p \in Procs, Crash(p)
  PROVE  LockInv'
<1>1. /\ pc[p] # "dead" /\ pc' = [pc EXCEPT ![p] = "dead"]
      /\ flock' = IF flock = p THEN 0 ELSE flock
      /\ torn' = (torn \/ pc[p] = "cs")
      /\ UNCHANGED <<status, mutex, pid, last>>
  BY DEF Crash, Go, local
<1>2. QED
  BY <1>1 DEF LockInv, LockType, Points, FileLockHeld, SetUpFirst, PidIsOwner, SuspectIsDead, OneOwner,
              TornIsRecorded, Dead

LEMMA LockNext == LockInv /\ [Next]_vars => LockInv'
<1> SUFFICES ASSUME LockInv, [Next]_vars PROVE LockInv'
  OBVIOUS
<1>1. CASE \E p \in Procs : Step(p) \/ Operate(p) \/ Call(p) \/ Destroy(p) \/ Crash(p)
  BY <1>1, OpenKeepsLock, OwnerKeepsLock, RecoveryKeepsLock, CrashKeepsLock DEF Step
<1>2. CASE Tick \/ Done \/ UNCHANGED vars
  <2>1. UNCHANGED <<status, mutex, pid, flock, torn, pc, last>>
    BY <1>2 DEF Tick, Done, vars, locks, local
  <2>2. QED
    BY <2>1 DEF LockInv, LockType, FileLockHeld, SetUpFirst, PidIsOwner, SuspectIsDead, OneOwner,
                TornIsRecorded, Dead
<1>3. QED
  BY <1>1, <1>2 DEF Next

LEMMA LockAlways == Spec => []LockInv
BY LockInit, LockNext, PTL DEF Spec

(* The mutex protects, for any number of processes: between shm_lock and   *)
(* shm_unlock a process is alone, and shm_detect_deadlock takes the mutex  *)
(* away only from an owner that has died, however many waiters suspect it  *)
(* at the same time and wherever they die themselves.                      *)
THEOREM MutexProtects == Spec => []OneOwner
<1>1. LockInv => OneOwner
  BY DEF LockInv
<1>2. QED
  BY LockAlways, <1>1, PTL

(* A table that its owner left half changed is cleared before anybody uses *)
(* it: the death of the owner inside the critical section leaves its pid   *)
(* recorded, and the mutex is not given back before shm_ht_clear.          *)
THEOREM TornTableIsCleared == Spec => []TornNotUsed
<1>1. LockInv => TornNotUsed
  BY DEF LockInv, LockType, PidIsOwner, OneOwner, TornIsRecorded, TornNotUsed, Dead
<1>2. QED
  BY LockAlways, <1>1, PTL

=============================================================================
