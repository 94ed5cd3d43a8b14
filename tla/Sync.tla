-------------------------------- MODULE Sync --------------------------------
(***************************************************************************)
(* wow_lock.c, wow_singleton.c and wow_shm.c: locks, modules that are made *)
(* once, and memory shared by processes.  A call that would wait has no    *)
(* outcome in the states in which it waits.                                *)
(***************************************************************************)
EXTENDS Integers, Sequences, FiniteSets, SequencesExt

CONSTANT Procs

None(x) == [p \in Procs |-> x]
-----------------------------------------------------------------------------
(* The spin lock reads the word and swaps it only if it read 0. *)
AtomicNew == [lock |-> 0, pc |-> None("idle")]
AtomicSee(st, p) == IF st.pc[p] = "idle" /\ st.lock = 0 THEN {[st EXCEPT !.pc[p] = "saw"]} ELSE {}
AtomicSwap(st, p) ==
  IF st.pc[p] # "saw" THEN {}
  ELSE IF st.lock = 0 THEN {[st EXCEPT !.lock = 1, !.pc[p] = "in"]} ELSE {[st EXCEPT !.pc[p] = "idle"]}
wow_atomic_unlock(st, p) == IF st.pc[p] = "in" THEN {[st EXCEPT !.lock = 0, !.pc[p] = "idle"]} ELSE {}
Holders(st) == {p \in Procs : st.pc[p] = "in"}
-----------------------------------------------------------------------------
(* The semaphore of System V.  A handle names the set that existed when it *)
(* was made; undo is what the system gives back when a process ends.       *)
SemNone == [gen |-> 0, made |-> 0, val |-> 0, undo |-> None(0), h |-> None(0)]
\* SETVAL every time: also when another process is inside.
wow_sem_new(st, p) ==
  LET gen == IF st.gen = 0 THEN st.made + 1 ELSE st.gen IN
  [st EXCEPT !.gen = gen, !.made = gen, !.val = 1, !.undo = None(0), !.h[p] = gen]
Valid(st, p) == st.h[p] # 0 /\ st.h[p] = st.gen
wow_sem_lock(st, p) ==
  IF ~Valid(st, p) THEN {[st |-> st, ret |-> -1]}
  ELSE IF st.val > 0 THEN {[st |-> [st EXCEPT !.val = @ - 1, !.undo[p] = @ + 1], ret |-> 0]} ELSE {}
wow_sem_unlock(st, p) ==
  IF ~Valid(st, p) THEN [st |-> st, ret |-> -1]
  ELSE [st |-> [st EXCEPT !.val = @ + 1, !.undo[p] = @ - 1], ret |-> 0]
wow_sem_free(st, p) == [st EXCEPT !.gen = IF Valid(st, p) THEN 0 ELSE @, !.h[p] = 0, !.undo = IF Valid(st, p) THEN None(0) ELSE @]
\* The process ends, in order or not.
SemUndo(st, p) == [st EXCEPT !.val = @ + (IF Valid(st, p) THEN st.undo[p] ELSE 0), !.undo[p] = 0, !.h[p] = 0]
-----------------------------------------------------------------------------
(* Record locks: one writer or any number of readers. *)
FileFree == [r |-> {}, w |-> {}]
wow_file_read_lock(st, p) == IF st.w \ {p} = {} THEN {[r |-> st.r \cup {p}, w |-> st.w \ {p}]} ELSE {}
wow_file_write_lock(st, p) == IF (st.w \cup st.r) \ {p} = {} THEN {[r |-> st.r \ {p}, w |-> {p}]} ELSE {}
wow_file_unlock(st, p) == [r |-> st.r \ {p}, w |-> st.w \ {p}]
\* The attributes that ask for error checking are made and not passed: a second lock of the owner waits for itself.
wow_mutex_lock(owner, p) == IF owner = 0 THEN {p} ELSE {}
wow_mutex_unlock(owner) == 0
-----------------------------------------------------------------------------
(* Singletons, numbered in the order in which they are initialised.  live  *)
(* counts the initialisations that no exit has undone.                     *)
Mods == 1 .. 2
SingleNew == [inst |-> [m \in Mods |-> 0], exit |-> [m \in Mods |-> FALSE], live |-> [m \in Mods |-> 0],
              pc |-> None(<<"idle", 0>>)]
SingletonUnlocked(st, t, m) == [st EXCEPT !.pc[t] = <<"init", m>>]
wow_singleton_instance(st, t, m) ==
  IF st.inst[m] = 0 THEN [st EXCEPT !.inst[m] = 1, !.pc[t] = <<"init", m>>] ELSE st
\* fInit has returned; the rest of the call follows.
InitReturns(st, t, ok) ==
  LET m == st.pc[t][2] IN
  IF ok THEN [st EXCEPT !.live[m] = @ + 1, !.pc[t] = <<"set", m>>] ELSE [st EXCEPT !.pc[t] = <<"idle", 0>>]
SetExit(st, t) == LET m == st.pc[t][2] IN [st EXCEPT !.inst[m] = 1, !.exit[m] = TRUE, !.pc[t] = <<"idle", 0>>]
\* wow_singleton_exit, in one step: it does not fall between the swap of a maker's
\* wow_singleton_instance and its second look at the flag, which is one step as well.
_wow_singleton_exit(st) ==
  [st EXCEPT !.live = [m \in Mods |-> IF st.exit[m] /\ st.inst[m] = 1 THEN st.live[m] - 1 ELSE st.live[m]],
             !.inst = [m \in Mods |-> 0], !.exit = [m \in Mods |-> FALSE]]
-----------------------------------------------------------------------------
(* Memory shared through a file: its length is set by every process that   *)
(* maps it, whether it makes the file or finds it.                         *)
ShmNone == [gen |-> 0, made |-> 0, size |-> [g \in 1 .. 3 |-> 0], map |-> None(<<0, 0>>)]
shm_map_file(st, p, size, create) ==
  LET gen == IF st.gen = 0 THEN st.made + 1 ELSE st.gen IN
  IF st.gen = 0 /\ ~create THEN [st |-> st, ret |-> -1]
  ELSE [st |-> [st EXCEPT !.gen = gen, !.made = IF gen > @ THEN gen ELSE @, !.size[gen] = size, !.map[p] = <<gen, size>>], ret |-> 0]
shm_unmap_file(st) == [st EXCEPT !.gen = 0]

-----------------------------------------------------------------------------
(***************************************************************************)
(* wow_timer.c: watchers in a list, by id; a thread of its own runs the    *)
(* event loop and calls what is due, without the lock that the calls take. *)
(* uid tells two watchers of one id apart; picked holds the watcher whose  *)
(* callback the loop is about to enter.                                    *)
(***************************************************************************)

wow_timer_create == [list |-> <<>>, next |-> 1, picked |-> 0]
match_timer_list(st, id) == SelectInSeq(st.list, LAMBDA w : w.id = id)
\* Stopping a watcher also takes it out of what is pending, but not out of the loop's hands.
Stop(st, k) == [st EXCEPT !.list[k].active = FALSE]

wow_timer_add(st, id, cb) ==
  LET k == match_timer_list(st, id) IN
  IF k = 0 THEN [st EXCEPT !.list = Append(@, [uid |-> st.next, id |-> id, cb |-> cb, active |-> FALSE]), !.next = @ + 1]
  ELSE [Stop(st, k) EXCEPT !.list[k].cb = cb]
wow_timer_start(st, id) ==
  LET k == match_timer_list(st, id) IN
  IF k = 0 THEN [st |-> st, ret |-> -1] ELSE [st |-> [st EXCEPT !.list[k].active = TRUE], ret |-> 0]
wow_timer_stop(st, id) ==
  LET k == match_timer_list(st, id) IN
  IF k = 0 THEN [st |-> st, ret |-> -1] ELSE [st |-> Stop(st, k), ret |-> 0]
wow_timer_remove(st, id) ==
  LET k == match_timer_list(st, id) IN IF k = 0 THEN st ELSE [st EXCEPT !.list = RemoveAt(@, k)]

\* ev_run takes a watcher that is due and calls it.
timer_loop_entry(st) == {[st EXCEPT !.picked = st.list[k].uid] : k \in {k \in DOMAIN st.list : st.list[k].active}}
InHand(st, id) == \E k \in DOMAIN st.list : st.list[k].id = id /\ st.list[k].uid = st.picked
\* The watcher is still there (its place), or has been freed (0).
timer_watcher_cb(st) == SelectInSeq(st.list, LAMBDA w : w.uid = st.picked)
-----------------------------------------------------------------------------
(* wow_mem_leak.c: a list of the blocks that are allocated.  An address is *)
(* a number; a block of size n at p holds p .. p + n - 1, and Slots are    *)
(* the addresses at which the allocator may place one.                     *)

Slots == {10, 20, 30}
MAXSIZE == 2

_wow_mleak_init == <<>>
create_block_info(list, ptr, size) == <<[ptr |-> ptr, size |-> size]>> \o list
get_block_info(list, ptr) == SelectInSeq(list, LAMBDA b : ptr >= b.ptr /\ ptr <= b.ptr + b.size - 1)
get_block_size(list, ptr) ==
  LET k == get_block_info(list, ptr) IN IF k # 0 /\ list[k].ptr = ptr THEN list[k].size ELSE -1
free_block_info(list, ptr) ==
  LET k == SelectInSeq(list, LAMBDA b : b.ptr = ptr) IN IF k = 0 THEN list ELSE RemoveAt(list, k)

wow_mleak_malloc(list, ptr, size) == create_block_info(list, ptr, size)
wow_mleak_free(list, ptr) == IF get_block_size(list, ptr) > 0 THEN free_block_info(list, ptr) ELSE list
\* new: where the allocator would place the new block.
wow_mleak_realloc(list, ptr, size, new) ==
  LET old == get_block_size(list, ptr) IN
  IF old <= 0 THEN [list |-> list, ret |-> ptr]
  ELSE IF size <= old THEN [list |-> list, ret |-> 0]
  ELSE [list |-> wow_mleak_free(wow_mleak_malloc(list, new, size), ptr), ret |-> new]
\* The list is freed and its head still points to it.
wow_mleak_print(list) == list = <<>>
=============================================================================
