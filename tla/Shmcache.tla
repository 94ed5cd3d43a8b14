------------------------------ MODULE Shmcache ------------------------------
(* Processes that share the cache: opening it, the mutex with the pid of its *)
(* owner, the recovery of a mutex whose owner died, and the operations, each *)
(* one critical section around the operators of ShmTable.  A process may die *)
(* at any of the points where the shared memory is between two stores that   *)
(* belong together.                                                          *)
EXTENDS ShmTable

CONSTANTS
  Procs,       \* the processes, by pid
  Configs      \* the configurations a behaviour may run under, with its bounds: procs processes,
               \* keys keys, ops calls of the kinds calls, crashes deaths, a clock up to
               \* time; open: every process has opened the cache and past was called

(* No process has the pid 0, which stands for "none" in lock.pid.            *)
ASSUME PidAssumption == 0 \notin Procs

VARIABLES
  conf,      \* the configuration: [valid, once, ttl, minseg, ...]
  status,    \* "none": no segment file, "init": memory->status is INIT, "normal"
  mutex,     \* the process that holds the mutex, 0 when it is free
  pid,       \* memory->lock.pid
  flock,     \* the process that holds the lock on the file, 0 when it is free
  t,         \* the memory of ShmTable
  torn,      \* the owner died inside its critical section: t may be anything
  pc, op, opened, seen, last,  \* per process: where it is, what it does, the segments it mapped,
                               \* shm_exists' answer, the pid it took for dead
  now, ops, crashed

locks == <<mutex, pid, flock>>
local == <<op, opened, seen, last>>
bounds == <<conf, now, ops, crashed>>
vars == <<conf, status, mutex, pid, flock, t, torn, pc, op, opened, seen, last, now, ops, crashed>>

Idle == [do |-> "none"]
Operations ==
  {o \in {[do |-> "set", key |-> k, val |-> v, ttl |-> l] : k \in 1..conf.keys, v \in Vals, l \in conf.ttls} \cup
         {[do |-> "delete", key |-> k] : k \in 1..conf.keys} \cup
         {[do |-> "ttl", key |-> 1, ttl |-> 1], [do |-> "incr", key |-> 1], [do |-> "clear"]} : o.do \in conf.calls}

Go(p, at) == pc' = [pc EXCEPT ![p] = at]
Dead(q) == pc[q] = "dead"

-----------------------------------------------------------------------------
(* The operations: what each does to the memory w.t inside its critical      *)
(* section.                                                                  *)

Grow(w, c) == FoldLeft(LAMBDA x, i : IF x.ok /\ x.t.nseg < MaxSeg THEN shmopt_create_value_segment(x) ELSE x,
                       w, [i \in 1..(c.minseg - w.t.nseg) |-> i])

(* shmcache_incr: a key that is missing or expired starts from nothing.      *)
Incr(w, k, c, clock) ==
  LET g == shm_ht_get(w.t, k, clock)
      v == IF g.ret = "OK" THEN g.val + 1 ELSE 1
  IN IF v > NVals THEN w ELSE shm_ht_set(w, k, v, 0, c, clock)

Effect(w, o, c, clock) ==
  CASE o.do = "grow" -> Grow(w, c)
    [] o.do = "set" -> shm_ht_set(w, o.key, o.val, HT_CALC_EXPIRES(clock, o.ttl), c, clock)
    [] o.do = "incr" -> Incr(w, o.key, c, clock)
    [] o.do = "delete" /\ shm_ht_find(w.t, o.key) # NoAddr -> [w EXCEPT !.t = shm_ht_delete_ex(w.t, o.key).t]
    [] o.do = "ttl" /\ shm_ht_get(w.t, o.key, clock).ret = "OK" ->
         [w EXCEPT !.t = shm_ht_set_expires(w.t, o.key, HT_CALC_EXPIRES(clock, o.ttl))]
    [] o.do = "clear" -> [w EXCEPT !.t = shm_ht_clear(w.t)]
    [] OTHER -> w

(* What shmcache_do_lock_init sets up: the memory with its first segment.    *)
FirstSegment == shmopt_create_value_segment([t |-> NoTable, addr |-> NoAddr, ok |-> TRUE, opened |-> 0])

(* Where a behaviour starts: before the first process opens the cache, or    *)
(* when every process has and the calls of c.past have been made.            *)
Start(c) == FoldLeft(LAMBDA w, o : Effect([w EXCEPT !.addr = NoAddr], o, c, 1), FirstSegment, c.past)

Init ==
  /\ conf \in Configs
  /\ IF conf.open THEN status = "normal" /\ t = Start(conf).t /\ opened = [p \in Procs |-> t.nseg]
     ELSE status = "none" /\ t = NoTable /\ opened = [p \in Procs |-> 0]
  /\ mutex = 0 /\ pid = 0 /\ flock = 0 /\ torn = FALSE
  /\ pc = [p \in Procs |-> IF conf.open THEN "open" ELSE "closed"] /\ op = [p \in Procs |-> Idle]
  /\ seen = [p \in Procs |-> FALSE] /\ last = [p \in Procs |-> 0]
  /\ now = 1 /\ ops = 0 /\ crashed = 0

-----------------------------------------------------------------------------
(* shmcache_init.                                                            *)

(* shm_exists: is the hash table's segment there?                            *)
InitExists(p) ==
  /\ pc[p] = "closed" /\ p <= conf.procs
  /\ seen' = [seen EXCEPT ![p] = status # "none"] /\ Go(p, "map")
  /\ UNCHANGED <<status, locks, t, torn, op, opened, last, bounds>>

(* The segment is mapped, or created.  A segment that was there before must  *)
(* pass shmcache_check, else init fails with EINVAL.                         *)
InitMap(p) ==
  /\ pc[p] = "map"
  /\ status' = IF status = "none" THEN "init" ELSE status
  /\ Go(p, CASE seen[p] /\ status # "normal" -> "closed"
             [] status = "normal" -> "attach"
             [] OTHER -> "initlock")
  /\ UNCHANGED <<locks, t, torn, local, bounds>>

(* shmcache_do_lock_init takes the file lock ...                             *)
InitLock(p) ==
  /\ pc[p] = "initlock" /\ flock = 0
  /\ flock' = p /\ Go(p, "init")
  /\ UNCHANGED <<status, mutex, pid, t, torn, local, bounds>>

(* ... and sets the memory up unless another process has done so.            *)
InitDo(p) ==
  /\ pc[p] = "init" /\ flock' = 0 /\ Go(p, "attach")
  /\ IF status = "normal" THEN UNCHANGED <<status, mutex, pid, t, opened>>
     ELSE status' = "normal" /\ mutex' = 0 /\ pid' = 0 /\ t' = FirstSegment.t
          /\ opened' = [opened EXCEPT ![p] = FirstSegment.opened]
  /\ UNCHANGED <<torn, op, seen, last, bounds>>

(* The value segments are mapped; below min_memory more are created under    *)
(* the mutex.                                                                *)
InitAttach(p) ==
  /\ pc[p] = "attach"
  /\ opened' = [opened EXCEPT ![p] = t.nseg]
  /\ IF t.nseg < MaxSeg THEN Go(p, "try") /\ op' = [op EXCEPT ![p] = [do |-> "grow"]]
     ELSE Go(p, "open") /\ UNCHANGED op
  /\ UNCHANGED <<status, locks, t, torn, seen, last, bounds>>

(* shmcache_destroy.                                                         *)
Destroy(p) ==
  /\ pc[p] = "open" /\ Go(p, "closed") /\ opened' = [opened EXCEPT ![p] = 0]
  /\ "destroy" \in conf.calls /\ ops < conf.ops /\ ops' = ops + 1
  /\ UNCHANGED <<status, locks, t, torn, op, seen, last, conf, now, crashed>>

-----------------------------------------------------------------------------
(* The mutex.                                                                *)

Call(p) ==
  /\ pc[p] = "open" /\ p <= conf.procs /\ ops < conf.ops /\ ops' = ops + 1
  /\ \E o \in Operations : op' = [op EXCEPT ![p] = o]
  /\ Go(p, "try")
  /\ UNCHANGED <<status, locks, t, torn, opened, seen, last, conf, now, crashed>>

TryLock(p) ==
  /\ pc[p] = "try" /\ mutex = 0
  /\ mutex' = p /\ Go(p, "locked")
  /\ UNCHANGED <<status, pid, flock, t, torn, local, bounds>>

(* The owner records its pid only after it has the mutex.                    *)
RecordPid(p) ==
  /\ pc[p] = "locked" /\ pid' = p /\ Go(p, "cs")
  /\ UNCHANGED <<status, mutex, flock, t, torn, local, bounds>>

(* The waiter has polled long enough: the pid is read, and tested with kill. *)
FoundSelf(p) ==
  /\ pc[p] = "try" /\ mutex = p /\ pid = p
  /\ last' = [last EXCEPT ![p] = pid] /\ Go(p, "detect")
  /\ UNCHANGED <<status, locks, t, torn, op, opened, seen, bounds>>
FoundDead(p) ==
  /\ pc[p] = "try" /\ mutex # 0 /\ pid # 0 /\ Dead(pid)
  /\ last' = [last EXCEPT ![p] = pid] /\ Go(p, "detect")
  /\ UNCHANGED <<status, locks, t, torn, op, opened, seen, bounds>>

(* shm_detect_deadlock, under the file lock.                                 *)
DetectLock(p) ==
  /\ pc[p] = "detect" /\ flock = 0
  /\ flock' = p /\ Go(p, "recheck")
  /\ UNCHANGED <<status, mutex, pid, t, torn, local, bounds>>

NoRecheck(p) ==
  /\ pc[p] = "recheck"
  /\ pid' = 0 /\ t' = shm_ht_clear(t) /\ torn' = FALSE /\ Go(p, "release") /\ UNCHANGED flock
  /\ UNCHANGED <<status, mutex, local, bounds>>
NoClear(p) ==
  /\ pc[p] = "recheck"
  /\ IF pid = last[p] THEN pid' = 0 /\ Go(p, "release") /\ UNCHANGED flock
     ELSE flock' = 0 /\ Go(p, "try") /\ UNCHANGED pid
  /\ UNCHANGED <<status, mutex, t, torn, local, bounds>>
Recheck(p) ==
  /\ pc[p] = "recheck"
  /\ IF pid = last[p] THEN pid' = 0 /\ t' = shm_ht_clear(t) /\ torn' = FALSE /\ Go(p, "release") /\ UNCHANGED flock
     ELSE flock' = 0 /\ Go(p, "try") /\ UNCHANGED <<pid, t, torn>>
  /\ UNCHANGED <<status, mutex, local, bounds>>

Release(p) ==
  /\ pc[p] = "release" /\ mutex' = 0 /\ flock' = 0 /\ Go(p, "try")
  /\ UNCHANGED <<status, pid, t, torn, local, bounds>>

Work(p) == [t |-> t, addr |-> NoAddr, ok |-> TRUE, opened |-> opened[p]]

(* The critical section up to shm_unlock's first store, which forgets the pid.*)
Operate(p) ==
  /\ pc[p] = "cs"
  /\ \E w \in {Effect(Work(p), op[p], conf, now)} : t' = w.t /\ opened' = [opened EXCEPT ![p] = w.opened]
  /\ pid' = 0 /\ Go(p, "leave") /\ op' = [op EXCEPT ![p] = Idle]
  /\ UNCHANGED <<status, mutex, flock, torn, seen, last, bounds>>

Unlock(p) ==
  /\ pc[p] = "leave" /\ mutex' = 0 /\ Go(p, "open")
  /\ UNCHANGED <<status, pid, flock, t, torn, local, bounds>>

-----------------------------------------------------------------------------
(* A process dies.  The system gives its file lock back, never the mutex.    *)
(* Inside the critical section the memory is left between two states: what   *)
(* is certain is that segments are only added; one may be counted that has   *)
(* no stripings yet.                                                         *)
Crash(p) ==
  /\ pc[p] \notin {"dead", "closed"} /\ crashed < conf.crashes /\ crashed' = crashed + 1
  /\ Go(p, "dead") /\ flock' = IF flock = p THEN 0 ELSE flock
  /\ torn' = (torn \/ pc[p] = "cs")
  /\ IF pc[p] = "cs"
     THEN \E w \in {Effect(Work(p), op[p], conf, now)} :
                                 \/ t' = t \/ t' = w.t
                                 \/ w.t.nseg > t.nseg /\ t' = [t EXCEPT !.nseg = @ + 1]
     ELSE t' = t
  /\ UNCHANGED <<status, mutex, pid, local, conf, now, ops>>

Tick ==
  /\ now < conf.time /\ now' = now + 1
  /\ UNCHANGED <<conf, status, locks, t, torn, pc, local, ops, crashed>>

(* Nothing is left to do: every process is idle, dead, waits for a mutex     *)
(* nobody can give back or cannot open the cache.                            *)
Done == /\ \A p \in Procs : pc[p] \in {"closed", "open", "dead", "try"}
        /\ UNCHANGED vars

Step(p) ==
  InitExists(p) \/ InitMap(p) \/ InitLock(p) \/ InitDo(p) \/ InitAttach(p) \/ TryLock(p) \/ RecordPid(p)
  \/ FoundDead(p) \/ DetectLock(p) \/ Recheck(p) \/ Release(p) \/ Unlock(p)
Next == (\E p \in Procs : Step(p) \/ Operate(p) \/ Call(p) \/ Destroy(p) \/ Crash(p)) \/ Tick \/ Done

(* A process that is scheduled goes on and finishes its critical section or  *)
(* dies; it polls the mutex for ever, so when the mutex is free again and    *)
(* again one of its polls finds it free.                                     *)
Fairness == \A p \in Procs : WF_vars(Step(p)) /\ SF_vars(TryLock(p) \/ DetectLock(p)) /\ []<>(pc[p] # "cs")
Spec == Init /\ [][Next]_vars /\ Fairness

-----------------------------------------------------------------------------
TypeOK ==
  /\ status \in {"none", "init", "normal"} /\ mutex \in {0} \cup Procs /\ pid \in {0} \cup Procs
  /\ flock \in {0} \cup Procs /\ torn \in BOOLEAN
  /\ pc \in [Procs -> {"closed", "map", "initlock", "init", "attach", "open", "try", "locked", "cs", "leave",
                       "detect", "recheck", "release", "dead"}]
  /\ \A p \in Procs : opened[p] <= t.nseg /\ last[p] \in {0} \cup Procs

(* The mutex protects: whoever is between shm_lock and shm_unlock, or clears *)
(* the memory for a dead owner, is the only one who is.  shm_detect_deadlock *)
(* may give a mutex back only when its owner is gone.                        *)
OneOwner ==
  /\ \A p \in Procs : pc[p] \in {"locked", "cs", "leave"} => mutex = p
  /\ \A p \in Procs : pc[p] = "release" => mutex # 0 /\ Dead(mutex)

(* Whoever enters finds a sound table: chains, recycle list and counter of   *)
(* shm_hashtable.c agree, also after an owner died half way.  Live entries   *)
(* never overlap and a striping is reused only when it is empty: the         *)
(* accounting of shm_value_allocator.c and shm_striping_allocator.c.         *)
TableConsistent == TypeOK /\ (torn \/ (TableSound(t) /\ SpaceSound(t)))

(* A torn table is never used: nobody is in the critical section before it   *)
(* has been cleared.                                                         *)
TornNotUsed == torn => \A p \in Procs : pc[p] \notin {"locked", "cs", "leave"}

(* The mutex is held by a dead process that is not recorded: it died between *)
(* pthread_mutex_trylock and the store of its pid, or between the two stores *)
(* of shm_unlock, or while it was recovering the mutex.                      *)
Unrecorded == mutex # 0 /\ Dead(mutex) /\ pid = 0 /\ \A q \in Procs : pc[q] # "release"

(* A process waiting in shm_lock gets the mutex, also when its owner died,   *)
(* unless the death is not recorded.                                         *)
LockGranted == \A p \in Procs : pc[p] = "try" ~> (pc[p] # "try" /\ pc[p] # "detect") \/ Unrecorded

(* The cache implements the map it promises: through setting, recycling,     *)
(* rearranging, expiry, clearing and deaths, a key is given a value only by  *)
(* the store of the process in the critical section, the key and the value   *)
(* its own call names (shmcache_set, shmcache_incr).  An entry counts until  *)
(* it is removed: its expiry is not looked at.                               *)
View == [k \in Keys |-> IF torn THEN 0 ELSE shm_ht_get(t, k, 0).val]
Served == {op[p] : p \in {q \in Procs : pc[q] = "cs"}}
Abstract == INSTANCE MapCache WITH map <- View, asked <- Served
ImplementsMap == Abstract!Spec
=============================================================================
