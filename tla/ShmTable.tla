------------------------------ MODULE ShmTable ------------------------------
(* What the mutex of the shared memory cache protects: the hash table, the   *)
(* list of entries in the order they were set, the stripings the entries are *)
(* allocated from and the two pools of stripings.  Every operator is a C     *)
(* function that changes this memory; t is the memory, c the configuration,  *)
(* now the time in seconds.                                                  *)
(*                                                                           *)
(* An entry lives at <<striping, offset>>.  A bucket is the sequence of the  *)
(* entries its ht_next chain links, the recycle list the sequence its offsets*)
(* link, and a pool the sequence its ring holds from head to tail.  What     *)
(* freed memory still contains is left out.                                  *)
EXTENDS Integers, Sequences, FiniteSets, SequencesExt, FiniteSetsExt

CONSTANTS
  NKeys,        \* the keys are 1..NKeys; key k hashes to bucket k % Capacity
  Capacity,     \* buckets
  NVals,        \* the values are 1..NVals
  EntrySize,    \* EntrySize[v]: bytes of an entry that holds v, header included
  StripSize,    \* bytes of a striping
  StripPerSeg,  \* stripings of a value segment
  MaxSeg,       \* vm_info.segment.count.max
  MaxKeys,      \* max_key_count
  Discard,      \* va_policy.discard_memory_size
  MaxFail       \* va_policy.max_fail_times

Keys == 1..NKeys
Vals == 1..NVals
Bucket(k) == k % Capacity
NoAddr == <<0, 0>>

(* The memory after shmcache_do_lock_init and before its first segment.      *)
NoTable == [nseg |-> 0, al |-> <<>>, doing |-> <<>>, done |-> <<>>, count |-> 0,
            chain |-> [b \in 0..(Capacity - 1) |-> <<>>], list |-> <<>>, mem |-> <<>>]

FreshStriping(seg) == [seg |-> seg, free |-> 0, used |-> 0, fail |-> 0, last |-> 0, pool |-> "doing"]

HT_ENTRY_IS_VALID(e, now) == e.exp = 0 \/ e.exp >= now
HT_CALC_EXPIRES(now, ttl) == IF ttl = 0 THEN 0 ELSE now + ttl

(* The recycle list.                                                         *)
shm_list_add_tail(list, addr) == Append(list, addr)
shm_list_delete(list, addr) == SelectSeq(list, LAMBDA x : x # addr)

(* The entry of a key, by walking the chain of its bucket.                   *)
WalkAny(t, k) == DOMAIN t.chain[Bucket(k)]
Walk(t, k) == {i \in DOMAIN t.chain[Bucket(k)] : t.mem[t.chain[Bucket(k)][i]].key = k}
shm_ht_find(t, k) == IF Walk(t, k) = {} THEN NoAddr
                     ELSE t.chain[Bucket(k)][CHOOSE i \in Walk(t, k) : \A j \in Walk(t, k) : i <= j]

(* 0, ETIMEDOUT or ENOENT, and the value found.                              *)
shm_ht_get(t, k, now) ==
  LET a == shm_ht_find(t, k)
  IN IF a = NoAddr THEN [ret |-> "ENOENT", val |-> 0]
     ELSE [ret |-> IF HT_ENTRY_IS_VALID(t.mem[a], now) THEN "OK" ELSE "ETIMEDOUT", val |-> t.mem[a].val]

-----------------------------------------------------------------------------
(* Stripings and their pools.                                                *)

shm_striping_allocator_reset(s) == [s EXCEPT !.free = 0, !.used = 0, !.fail = 0, !.last = 0]

(* Removal at the iterator shifts what lies before it and then reads the slot*)
(* again: the offset it returns is the predecessor's unless the iterator was *)
(* at the head.                                                              *)
shm_object_pool_remove(q, i) == [q |-> RemoveAt(q, i), ret |-> q[IF i = 1 THEN 1 ELSE i - 1]]

IndexOf(q, a) == CHOOSE i \in DOMAIN q : q[i] = a

(* A full striping goes from the doing to the done pool: when the pool       *)
(* returned another offset it is in neither afterwards.                      *)
Retire(t, a) ==
  LET r == shm_object_pool_remove(t.doing, IndexOf(t.doing, a))
  IN IF r.ret = a
     THEN [t EXCEPT !.doing = r.q, !.done = Append(@, a), !.al[a].pool = "done"]
     ELSE [t EXCEPT !.doing = r.q]

(* One allocator of the doing pool: it serves the request or counts a        *)
(* failure.  A process that has not mapped the segment yet maps them all.    *)
StripingAlloc(w, a, size, now) ==
  LET s == w.t.al[a]
  IN CASE w.addr # NoAddr -> w
       [] w.addr = NoAddr /\ StripSize - s.free >= size ->
            [w EXCEPT !.addr = <<a, s.free>>,
                      !.t.al[a] = [s EXCEPT !.last = now, !.used = @ + size, !.free = @ + size],
                      !.opened = IF s.seg > @ THEN w.t.nseg ELSE @]
       [] OTHER ->
            LET t1 == [w.t EXCEPT !.al[a].fail = @ + 1]
            IN [w EXCEPT !.t = IF StripSize - s.free <= Discard \/ s.fail + 1 > MaxFail
                               THEN Retire(t1, a) ELSE t1]

shm_value_allocator_do_alloc(w, size, now) ==
  FoldLeft(LAMBDA x, a : StripingAlloc(x, a, size, now), [w EXCEPT !.addr = NoAddr], w.t.doing)

(* A striping whose last entry goes starts again; from the done pool it      *)
(* returns to the doing pool.                                                *)
shm_value_allocator_free(t, addr) ==
  LET a == addr[1]
      used == t.al[a].used - t.mem[addr].size
      t1 == [t EXCEPT !.al[a].used = used]
      t2 == [t EXCEPT !.al[a] = shm_striping_allocator_reset(@)]
  IN IF used > 0 THEN [t |-> t1, recycled |-> FALSE]
     ELSE IF t.al[a].pool = "done" /\ a \in ToSet(t.done)
     THEN [t |-> [t2 EXCEPT !.al[a].pool = "doing", !.doing = Append(@, a),
                            !.done = RemoveAt(@, IndexOf(@, a))], recycled |-> TRUE]
     ELSE [t |-> t2, recycled |-> TRUE]

-----------------------------------------------------------------------------
(* The hash table.                                                           *)

FreeNotListed(t, addr) ==
  LET f == shm_value_allocator_free([t EXCEPT !.count = @ - 1], addr)
  IN [f EXCEPT !.t.mem = [x \in DOMAIN @ \ {addr} |-> @[x]]]
shm_ht_free_entry(t, addr) ==
  LET f == shm_value_allocator_free([t EXCEPT !.count = @ - 1, !.list = shm_list_delete(@, addr)], addr)
  IN [f EXCEPT !.t.mem = [x \in DOMAIN @ \ {addr} |-> @[x]]]

shm_ht_delete_ex(t, k) ==
  LET addr == shm_ht_find(t, k)
  IN shm_ht_free_entry([t EXCEPT !.chain[Bucket(k)] = SelectSeq(@, LAMBDA x : x # addr)], addr)

shm_ht_set_expires(t, k, exp) == [t EXCEPT !.mem[shm_ht_find(t, k)].exp = exp]

(* Every striping created so far returns, empty, to the doing pool.          *)
shm_ht_clear(t) ==
  [NoTable EXCEPT !.nseg = t.nseg, !.doing = [i \in DOMAIN t.al |-> i],
                  !.al = [i \in DOMAIN t.al |-> [shm_striping_allocator_reset(t.al[i]) EXCEPT !.pool = "doing"]]]

(* Entries are scanned oldest first; expired ones go, and valid ones too when*)
(* the configuration allows it, until `once' are gone or, for once <= 0, a   *)
(* striping became empty.                                                    *)
RecycleOne(w, addr, c, once, now) ==
  LET Gone(d) == [t |-> d.t, n |-> w.n + 1, ok |-> IF once > 0 THEN w.n + 1 >= once ELSE d.recycled]
  IN IF w.ok \/ (HT_ENTRY_IS_VALID(w.t.mem[addr], now) /\ ~c.valid) THEN w
     ELSE Gone(shm_ht_delete_ex(w.t, w.t.mem[addr].key))

shm_value_allocator_recycle(t, c, once, now) ==
  FoldLeft(LAMBDA w, addr : RecycleOne(w, addr, c, once, now), [t |-> t, n |-> 0, ok |-> FALSE], t.list)

(* A new value segment, created by a process that has mapped all the others. *)
shmopt_create_value_segment(w) ==
  LET n == w.t.nseg + 1
      ids == [i \in 1..StripPerSeg |-> Len(w.t.al) + i]
  IN IF w.t.nseg >= MaxSeg \/ w.opened # w.t.nseg THEN [w EXCEPT !.ok = FALSE]
     ELSE [w EXCEPT !.ok = TRUE, !.opened = n, !.t.nseg = n, !.t.doing = @ \o ids,
                    !.t.al = @ \o [i \in 1..StripPerSeg |-> FreshStriping(n)]]

(* The end of shm_ht_set, once memory is found: the entry takes the place of *)
(* the old one in its chain, or the tail, and the tail of the recycle list.  *)
Store(t, addr, k, v, exp) ==
  LET ch == t.chain[Bucket(k)]
      Linked(old) ==
        IF old = NoAddr THEN [t EXCEPT !.chain[Bucket(k)] = Append(ch, addr)]
        ELSE [shm_ht_free_entry(t, old).t EXCEPT !.chain[Bucket(k)] = ReplaceAt(ch, IndexOf(ch, old), addr)]
  IN [Linked(shm_ht_find(t, k)) EXCEPT !.count = @ + 1, !.list = shm_list_add_tail(@, addr),
                !.mem = [x \in DOMAIN @ \cup {addr} |->
                           IF x = addr THEN [key |-> k, val |-> v, exp |-> exp, size |-> EntrySize[v]] ELSE @[x]]]

Used(t) == FoldLeft(LAMBDA n, s : n + s.used, 0, t.al)

(* Valid entries are copied out, the memory is cleared and they are set      *)
(* again; when one does not fit any more, nothing is left.                   *)
Refill(w, e, now) ==
  LET Placed(d) == IF d.addr = NoAddr THEN [w EXCEPT !.ok = FALSE]
                   ELSE [d EXCEPT !.t = Store(d.t, d.addr, e.key, e.val, e.exp)]
  IN IF w.ok THEN Placed(shm_value_allocator_do_alloc(w, e.size, now)) ELSE w

MaxEntry == EntrySize[NVals]
shm_value_allocator_try_rearrange(w, now) ==
  LET t == w.t
      keep == SelectSeq([i \in DOMAIN t.list |-> t.mem[t.list[i]]], LAMBDA e : HT_ENTRY_IS_VALID(e, now))
      Kept(r) == IF r.ok THEN r ELSE [r EXCEPT !.t = shm_ht_clear(r.t)]
  IN IF t.nseg * StripPerSeg * StripSize - Used(t) < MaxEntry + Len(t.al) * Discard + StripSize
     THEN [w EXCEPT !.ok = FALSE]
     ELSE Kept(FoldLeft(LAMBDA x, e : Refill(x, e, now), [w EXCEPT !.t = shm_ht_clear(t), !.ok = TRUE], keep))

(* Memory for an entry: from the doing pool, after recycling, from a new     *)
(* segment or after rearranging.                                             *)
MakeRoom(w, c, now) ==
  LET oldest == w.t.al[Head(w.t.done)].last
      recycle == \/ w.t.nseg >= MaxSeg
                 \/ w.t.done # <<>> /\ c.ttl > 0 /\ now - oldest >= c.ttl
      Recycled(r) == [w EXCEPT !.t = r.t, !.ok = r.ok]
      Else(w1) == IF w1.ok \/ c.valid THEN w1
                  ELSE IF w1.t.nseg < MaxSeg THEN shmopt_create_value_segment(w1)
                  ELSE shm_value_allocator_try_rearrange(w1, now)
  IN IF recycle THEN Else(Recycled(shm_value_allocator_recycle(w.t, c, -1, now)))
     ELSE shmopt_create_value_segment(w)

shm_value_allocator_alloc(w, size, c, now) ==
  LET Again(m) == IF m.ok THEN shm_value_allocator_do_alloc(m, size, now) ELSE m
      First(d) == IF d.addr # NoAddr THEN d ELSE Again(MakeRoom(d, c, now))
  IN First(shm_value_allocator_do_alloc(w, size, now))

(* w.ok afterwards: the function returned 0.                                 *)
shm_ht_set(w, k, v, exp, c, now) ==
  LET Recycled(r) == [w EXCEPT !.t = r.t, !.ok = r.ok]
      Stored(d) == IF d.addr = NoAddr THEN [d EXCEPT !.ok = FALSE]
                   ELSE [d EXCEPT !.ok = TRUE, !.t = Store(d.t, d.addr, k, v, exp)]
      Then(w1) == IF w1.ok THEN Stored(shm_value_allocator_alloc(w1, EntrySize[v], c, now)) ELSE w1
  IN Then(IF w.t.count >= MaxKeys THEN Recycled(shm_value_allocator_recycle(w.t, c, c.once, now))
          ELSE [w EXCEPT !.ok = TRUE])

-----------------------------------------------------------------------------
(* The memory is sound: every chain holds live entries of its own bucket, no *)
(* key twice; chains and recycle list hold the same entries; the counter     *)
(* counts them and respects the limit.                                       *)
TableSound(t) ==
  /\ \A b \in DOMAIN t.chain : \A i \in DOMAIN t.chain[b] : Bucket(t.mem[t.chain[b][i]].key) = b
  /\ IsInjective(t.list) /\ ToSet(t.list) = DOMAIN t.mem
  /\ UNION {ToSet(t.chain[b]) : b \in DOMAIN t.chain} = DOMAIN t.mem
  /\ \A x, y \in DOMAIN t.mem : t.mem[x].key = t.mem[y].key => x = y
  /\ t.count = Cardinality(DOMAIN t.mem) /\ t.count <= MaxKeys

(* Live entries are disjoint, lie below the free pointer of their striping,  *)
(* and a striping's used size is what they take: it starts again exactly     *)
(* when it is empty.                                                         *)
SpaceSound(t) ==
  \A a \in DOMAIN t.al :
    LET here == {x \in DOMAIN t.mem : x[1] = a}
    IN /\ \A x \in here : x[2] + t.mem[x].size <= t.al[a].free /\ t.al[a].free <= StripSize
       /\ \A x, y \in here : x[2] < y[2] => x[2] + t.mem[x].size <= y[2]
       /\ t.al[a].used = FoldSet(LAMBDA x, n : n + t.mem[x].size, 0, here)
       /\ t.al[a].used = 0 => t.al[a].free = 0
=============================================================================
