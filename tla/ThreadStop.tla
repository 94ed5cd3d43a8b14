------------------------------ MODULE ThreadStop ------------------------------
(***************************************************************************)
(* How an object that owns a thread is taken down.  A Station              *)
(* (wow_iec104_m_exit, wow_iec104_s_exit) clears thread.tflag and waits    *)
(* for the exec thread under one lock; an Early object (the listening      *)
(* socket of wow_tcp_close, whose accept thread ends when the socket is    *)
(* closed, and the timer of wow_timer_destroy) lets its thread go BEFORE   *)
(* it takes the lock.  In both the last thing the thread does is to signal *)
(* the condition under the lock, and the owner waits for it once, without  *)
(* a loop around pthread_cond_wait, and frees the object.                  *)
(***************************************************************************)
EXTENDS TLAPS

CONSTANTS Stations, Early,  \* the objects of the two kinds
          Spurious          \* those whose pthread_cond_wait may return without a signal

ASSUME KindsAssumption ==
  /\ Stations \cap Early = {}
  /\ Spurious \subseteq Stations \cup Early

Objects == Stations \cup Early

VARIABLES owner,   \* where the owning thread is
          worker,  \* where the object's thread is
          flag,    \* tflag / inited / the socket is open
          mutex,   \* who holds the lock
          memory   \* the object: "none", "allocated" or "freed"

vars == <<owner, worker, flag, mutex, memory>>

OwnerSteps == {"none", "ready", "running", "lock", "clear", "wait", "waiting", "woken",
               "unlock", "free", "done"}
WorkerSteps == {"none", "loop", "lock", "signal", "unlock", "returned"}

TypeOK ==
  /\ owner \in [Objects -> OwnerSteps]
  /\ worker \in [Objects -> WorkerSteps]
  /\ flag \in [Objects -> BOOLEAN]
  /\ mutex \in [Objects -> {"nobody", "owner", "worker"}]
  /\ memory \in [Objects -> {"none", "allocated", "freed"}]

Init ==
  /\ owner = [o \in Objects |-> "none"]
  /\ worker = [o \in Objects |-> "none"]
  /\ flag = [o \in Objects |-> FALSE]
  /\ mutex = [o \in Objects |-> "nobody"]
  /\ memory = [o \in Objects |-> "none"]

-----------------------------------------------------------------------------
(* The owner.                                                              *)

OwnerAt(o, from, to) == owner[o] = from /\ owner' = [owner EXCEPT ![o] = to]

(* wow_iec104_m_init, wow_iec104_s_init; wow_tcp_open, wow_timer_create.   *)
Create(o) ==
  /\ OwnerAt(o, "none", "ready")
  /\ memory' = [memory EXCEPT ![o] = "allocated"]
  /\ flag' = [flag EXCEPT ![o] = TRUE]
  /\ UNCHANGED <<worker, mutex>>

(* wow_iec104_m_start, wow_iec104_s_start, wow_tcp_accpet_cb.              *)
Start(o) ==
  /\ OwnerAt(o, "ready", "running")
  /\ worker' = [worker EXCEPT ![o] = "loop"]
  /\ UNCHANGED <<flag, mutex, memory>>

(* Variant: a station clears tflag before it takes the lock.               *)
ExitBeginEarly(o) ==
  /\ OwnerAt(o, "running", "lock")
  /\ flag' = [flag EXCEPT ![o] = FALSE]
  /\ UNCHANGED <<worker, mutex, memory>>

(* The exit of a started object; an Early one lets its thread go first.    *)
ExitBegin(o) ==
  /\ OwnerAt(o, "running", "lock")
  /\ flag' = IF o \in Early THEN [flag EXCEPT ![o] = FALSE] ELSE flag
  /\ UNCHANGED <<worker, mutex, memory>>

ExitLock(o) ==
  /\ OwnerAt(o, "lock", "clear")
  /\ mutex[o] = "nobody"
  /\ mutex' = [mutex EXCEPT ![o] = "owner"]
  /\ UNCHANGED <<worker, flag, memory>>

ExitClear(o) ==
  /\ OwnerAt(o, "clear", "wait")
  /\ flag' = [flag EXCEPT ![o] = FALSE]
  /\ UNCHANGED <<worker, mutex, memory>>

(* Variant: exit does not wait for the thread.                             *)
ExitWithoutWait(o) ==
  /\ OwnerAt(o, "wait", "unlock")
  /\ UNCHANGED <<worker, flag, mutex, memory>>

(* wow_mutex_cond_wait(lock, cond, -1): the lock is given up while waiting.*)
ExitWait(o) ==
  /\ OwnerAt(o, "wait", "waiting")
  /\ mutex' = [mutex EXCEPT ![o] = "nobody"]
  /\ UNCHANGED <<worker, flag, memory>>

SpuriousWakeup(o) ==
  /\ o \in Spurious
  /\ OwnerAt(o, "waiting", "woken")
  /\ UNCHANGED <<worker, flag, mutex, memory>>

ExitWoken(o) ==
  /\ OwnerAt(o, "woken", "unlock")
  /\ mutex[o] = "nobody"
  /\ mutex' = [mutex EXCEPT ![o] = "owner"]
  /\ UNCHANGED <<worker, flag, memory>>

ExitUnlock(o) ==
  /\ OwnerAt(o, "unlock", "free")
  /\ mutex' = [mutex EXCEPT ![o] = "nobody"]
  /\ UNCHANGED <<worker, flag, memory>>

ExitFree(o) ==
  /\ OwnerAt(o, "free", "done")
  /\ memory' = [memory EXCEPT ![o] = "freed"]
  /\ UNCHANGED <<worker, flag, mutex>>

-----------------------------------------------------------------------------
(* The object's thread.                                                    *)

WorkerAt(o, from, to) == worker[o] = from /\ worker' = [worker EXCEPT ![o] = to]

(* while(tflag): the body stays in "loop".                                 *)
LoopEnds(o) ==
  /\ WorkerAt(o, "loop", "lock")
  /\ ~flag[o]
  /\ UNCHANGED <<owner, flag, mutex, memory>>

WorkerLock(o) ==
  /\ WorkerAt(o, "lock", "signal")
  /\ mutex[o] = "nobody"
  /\ mutex' = [mutex EXCEPT ![o] = "worker"]
  /\ UNCHANGED <<owner, flag, memory>>

(* Variant: the thread ends without a signal.                              *)
WorkerSilent(o) ==
  /\ WorkerAt(o, "signal", "unlock")
  /\ UNCHANGED <<owner, flag, mutex, memory>>

(* A signal nobody waits for is lost.                                      *)
WorkerSignal(o) ==
  /\ WorkerAt(o, "signal", "unlock")
  /\ owner' = IF owner[o] = "waiting" THEN [owner EXCEPT ![o] = "woken"] ELSE owner
  /\ UNCHANGED <<flag, mutex, memory>>

WorkerUnlock(o) ==
  /\ WorkerAt(o, "unlock", "returned")
  /\ mutex' = [mutex EXCEPT ![o] = "nobody"]
  /\ UNCHANGED <<owner, flag, memory>>

-----------------------------------------------------------------------------
Exits(o) == \/ ExitLock(o) \/ ExitClear(o) \/ ExitWait(o)
            \/ ExitWoken(o) \/ ExitUnlock(o) \/ ExitFree(o)
Runs(o) == LoopEnds(o) \/ WorkerLock(o) \/ WorkerSignal(o) \/ WorkerUnlock(o)

Next == \E o \in Objects :
          Create(o) \/ Start(o) \/ ExitBegin(o) \/ Exits(o) \/ SpuriousWakeup(o) \/ Runs(o)

Spec == Init /\ [][Next]_vars

(* Both threads are scheduled; the application need not call exit.         *)
FairSpec == Spec /\ \A o \in Objects : WF_vars(Exits(o)) /\ WF_vars(Runs(o))

-----------------------------------------------------------------------------
(* While the object's thread can still touch the object, it is allocated:  *)
(* exit frees nothing under the thread it stops ("exit the thread safely"),*)
(* unless the wait, which has no loop around it, returned spuriously.      *)
NoUseAfterFree ==
  \A o \in Objects \ Spurious :
    worker[o] \notin {"none", "returned"} => memory[o] = "allocated"

(* The owner of a station never waits for a signal that was already given. *)
NoLostWakeup ==
  \A o \in Stations : owner[o] = "waiting" => worker[o] \in {"loop", "lock", "signal"}

(* Exit of a station returns: the object is freed once exit was called.    *)
ExitReturns == \A o \in Stations : (owner[o] = "lock") ~> (owner[o] = "done")

(* "wow_socket_close has already ended the thread": closing a listening    *)
(* socket returns.                                                         *)
CloseReturns == \A o \in Early : (owner[o] = "lock") ~> (owner[o] = "done")

-----------------------------------------------------------------------------
(* Proofs, for any sets of stations, early objects and spurious wakeups.   *)

(* The inductive invariant: where the owner and the object's thread can be *)
(* at the same time, and who holds the lock then.                          *)
HoldsLock(o) ==
  /\ mutex[o] = "owner" <=> owner[o] \in {"clear", "wait", "unlock"}
  /\ mutex[o] = "worker" <=> worker[o] \in {"signal", "unlock"}

(* The thread runs from Start on.                                          *)
Started(o) ==
  owner[o] \in {"none", "ready"} <=> worker[o] = "none"

(* Without a spurious wakeup the owner gets past the wait only after the    *)
(* signal, and past the lock only after the thread's last unlock.          *)
PastWait(o) ==
  o \notin Spurious =>
  /\ owner[o] = "woken" => worker[o] \in {"unlock", "returned"}
  /\ owner[o] \in {"unlock", "free", "done"} => worker[o] = "returned"

Memory(o) ==
  /\ owner[o] \notin {"none", "done"} => memory[o] = "allocated"

IInv ==
  /\ TypeOK
  /\ \A o \in Objects : HoldsLock(o) /\ Started(o) /\ PastWait(o) /\ Memory(o)

(* The initial states satisfy the inductive invariant.                     *)
LEMMA InitIInv == Init => IInv
  BY DEF Init, IInv, TypeOK, HoldsLock, Started, PastWait, Memory, OwnerSteps, WorkerSteps

(* Every step of the owner or of the thread preserves it.                  *)
LEMMA StepIInv ==
  ASSUME IInv, [Next]_vars
  PROVE  IInv'
<1> USE DEF IInv, TypeOK, HoldsLock, Started, PastWait, Memory, OwnerSteps, WorkerSteps
<1>1. CASE UNCHANGED vars
  BY <1>1 DEF vars
<1>2. ASSUME NEW o \in Objects, Create(o) PROVE IInv'
  BY <1>2 DEF Create, OwnerAt
<1>3. ASSUME NEW o \in Objects, Start(o) PROVE IInv'
  BY <1>3 DEF Start, OwnerAt
<1>4. ASSUME NEW o \in Objects, ExitBegin(o) PROVE IInv'
  BY <1>4 DEF ExitBegin, OwnerAt
<1>5. ASSUME NEW o \in Objects, ExitLock(o) PROVE IInv'
  BY <1>5 DEF ExitLock, OwnerAt
<1>6. ASSUME NEW o \in Objects, ExitClear(o) PROVE IInv'
  BY <1>6 DEF ExitClear, OwnerAt
<1>7. ASSUME NEW o \in Objects, ExitWait(o) PROVE IInv'
  BY <1>7 DEF ExitWait, OwnerAt
<1>8. ASSUME NEW o \in Objects, ExitWoken(o) PROVE IInv'
  BY <1>8 DEF ExitWoken, OwnerAt
<1>9. ASSUME NEW o \in Objects, ExitUnlock(o) PROVE IInv'
  BY <1>9 DEF ExitUnlock, OwnerAt
<1>10. ASSUME NEW o \in Objects, ExitFree(o) PROVE IInv'
  BY <1>10 DEF ExitFree, OwnerAt
<1>11. ASSUME NEW o \in Objects, LoopEnds(o) PROVE IInv'
  BY <1>11 DEF LoopEnds, WorkerAt
<1>12. ASSUME NEW o \in Objects, WorkerLock(o) PROVE IInv'
  BY <1>12 DEF WorkerLock, WorkerAt
<1>13. ASSUME NEW o \in Objects, WorkerSignal(o) PROVE IInv'
  BY <1>13 DEF WorkerSignal, WorkerAt
<1>14. ASSUME NEW o \in Objects, WorkerUnlock(o) PROVE IInv'
  BY <1>14 DEF WorkerUnlock, WorkerAt
<1>15. ASSUME NEW o \in Objects, SpuriousWakeup(o) PROVE IInv'
  BY <1>15 DEF SpuriousWakeup, OwnerAt
<1>16. QED
  BY <1>1, <1>2, <1>3, <1>4, <1>5, <1>6, <1>7, <1>8, <1>9, <1>10, <1>11, <1>12, <1>13,
     <1>14, <1>15
     DEF Next, Exits, Runs

(* wow_iec104_m_exit, wow_iec104_s_exit, wow_tcp_close and                 *)
(* wow_timer_destroy free nothing their thread can still touch, for every  *)
(* object whose pthread_cond_wait returns only after a signal.             *)
THEOREM ExitIsSafe == Spec => []NoUseAfterFree
<1>1. IInv => NoUseAfterFree
  BY DEF IInv, TypeOK, Started, PastWait, Memory, NoUseAfterFree, OwnerSteps, WorkerSteps
<1>2. IInv /\ [Next]_vars => IInv'
  BY StepIInv
<1>3. QED
  BY <1>1, <1>2, InitIInv, PTL DEF Spec

-----------------------------------------------------------------------------
(* The argument against lost wakeups: the thread of a station runs its     *)
(* loop until tflag is cleared, which happens under the lock it needs to   *)
(* signal, and the owner gives that lock up only by waiting.               *)
BeforeSignal(o) ==
  o \in Stations =>
    /\ owner[o] \in {"ready", "running", "lock", "clear"} =>
         flag[o] /\ worker[o] \in {"none", "loop"}
    /\ owner[o] = "wait" => worker[o] \in {"loop", "lock"}
    /\ owner[o] = "waiting" => worker[o] \in {"loop", "lock", "signal"}

WInv ==
  /\ TypeOK
  /\ \A o \in Objects : HoldsLock(o) /\ Started(o) /\ BeforeSignal(o)

(* The initial states satisfy the invariant of the wakeup argument.        *)
LEMMA InitWInv == Init => WInv
  BY DEF Init, WInv, TypeOK, HoldsLock, Started, BeforeSignal, OwnerSteps, WorkerSteps

(* Every step preserves it, spurious wakeups included.                     *)
LEMMA StepWInv ==
  ASSUME WInv, [Next]_vars
  PROVE  WInv'
<1> USE DEF WInv, TypeOK, HoldsLock, Started, BeforeSignal, OwnerSteps, WorkerSteps
<1>k. \A o \in Objects : o \in Stations => o \notin Early
  BY KindsAssumption
<1>1. CASE UNCHANGED vars
  BY <1>1 DEF vars
<1>2. ASSUME NEW o \in Objects, Create(o) PROVE WInv'
  BY <1>2 DEF Create, OwnerAt
<1>3. ASSUME NEW o \in Objects, Start(o) PROVE WInv'
  BY <1>3 DEF Start, OwnerAt
<1>4. ASSUME NEW o \in Objects, ExitBegin(o) PROVE WInv'
  BY <1>4, <1>k DEF ExitBegin, OwnerAt
<1>5. ASSUME NEW o \in Objects, ExitLock(o) PROVE WInv'
  BY <1>5 DEF ExitLock, OwnerAt
<1>6. ASSUME NEW o \in Objects, ExitClear(o) PROVE WInv'
  BY <1>6 DEF ExitClear, OwnerAt
<1>7. ASSUME NEW o \in Objects, ExitWait(o) PROVE WInv'
  BY <1>7 DEF ExitWait, OwnerAt
<1>8. ASSUME NEW o \in Objects, ExitWoken(o) PROVE WInv'
  BY <1>8 DEF ExitWoken, OwnerAt
<1>9. ASSUME NEW o \in Objects, ExitUnlock(o) PROVE WInv'
  BY <1>9 DEF ExitUnlock, OwnerAt
<1>10. ASSUME NEW o \in Objects, ExitFree(o) PROVE WInv'
  BY <1>10 DEF ExitFree, OwnerAt
<1>11. ASSUME NEW o \in Objects, LoopEnds(o) PROVE WInv'
  BY <1>11 DEF LoopEnds, WorkerAt
<1>12. ASSUME NEW o \in Objects, WorkerLock(o) PROVE WInv'
  BY <1>12 DEF WorkerLock, WorkerAt
<1>13. ASSUME NEW o \in Objects, WorkerSignal(o) PROVE WInv'
  BY <1>13 DEF WorkerSignal, WorkerAt
<1>14. ASSUME NEW o \in Objects, WorkerUnlock(o) PROVE WInv'
  BY <1>14 DEF WorkerUnlock, WorkerAt
<1>15. ASSUME NEW o \in Objects, SpuriousWakeup(o) PROVE WInv'
  BY <1>15 DEF SpuriousWakeup, OwnerAt
<1>16. QED
  BY <1>1, <1>2, <1>3, <1>4, <1>5, <1>6, <1>7, <1>8, <1>9, <1>10, <1>11, <1>12, <1>13,
     <1>14, <1>15
     DEF Next, Exits, Runs

(* The owner of a station never waits for a signal that was already given, *)
(* whether or not there are spurious wakeups.                              *)
THEOREM NoWakeupIsLost == Spec => []NoLostWakeup
<1>1. WInv => NoLostWakeup
  BY DEF WInv, BeforeSignal, NoLostWakeup, Objects
<1>2. QED
  BY <1>1, InitWInv, StepWInv, PTL DEF Spec

==============================================================================
