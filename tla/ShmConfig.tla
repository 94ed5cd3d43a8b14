------------------------------ MODULE ShmConfig ------------------------------
(***************************************************************************)
(* How the shared memory cache reads its configuration, computes its       *)
(* layout and checks the layout of a segment it finds, and how it pages    *)
(* through its keys.  Sizes are in bytes.                                  *)
(***************************************************************************)
LOCAL INSTANCE Integers
LOCAL INSTANCE Sequences
LOCAL INSTANCE SequencesExt

PageSize == 4096
MB == 1048576
InfoSize == 1024            \* sizeof(struct shm_memory_info)
AllocatorSize == 64         \* sizeof(struct shm_striping_allocator)
OffsetSize == 8             \* sizeof(int64_t)

\* Division of C: towards zero.
Div(a, b) == IF a < 0 THEN -((-a) \div b) ELSE a \div b
Align(x) == ((x + PageSize - 1) \div PageSize) * PageSize

wow_math_getMaxPrime(num) ==
  LET ps == {i \in 3 .. num : \A j \in 2 .. i - 2 : i % j # 0}
  IN  IF ps = {} THEN 1 ELSE CHOOSE i \in ps : \A k \in ps : k <= i

get_value_segment_count_size(config, mem) ==
  LET size == Align(config.segment_size)  n == Div(mem, size)
  IN  [size |-> size, max |-> IF n = 0 THEN 1 ELSE n]

\* One megabyte of striping for 128 of segment, in powers of two up to 8.
MbCount(size) ==
  LET n == size \div (128 * MB)
  IN  CASE n = 0 -> 1 [] n > 8 -> 8 [] n > 2 /\ n < 4 -> 2 [] n > 4 /\ n < 8 -> 4 [] OTHER -> n
\* Variant: the size of a value is not doubled.
StripingTight(config, mem) ==
  LET segment == get_value_segment_count_size(config, mem)
      want == IF MbCount(segment.size) * MB < config.max_value_size THEN config.max_value_size
              ELSE MbCount(segment.size) * MB
      size == IF Align(want) > segment.size THEN segment.size ELSE Align(want)
  IN  [segment |-> segment, striping |-> [size |-> size, max |-> segment.max * (segment.size \div size)]]
get_value_striping_count_size(config, mem) ==
  LET segment == get_value_segment_count_size(config, mem)
      want == IF MbCount(segment.size) * MB < config.max_value_size * 2 THEN config.max_value_size * 2
              ELSE MbCount(segment.size) * MB
      size == IF Align(want) > segment.size THEN segment.size ELSE Align(want)
  IN  [segment |-> segment, striping |-> [size |-> size, max |-> segment.max * (segment.size \div size)]]

\* Where the areas of the first segment start.  They are sized for the
\* number of stripings that all the memory would give; the number itself is
\* then computed again without what the first segment takes.
shmcache_get_ht_segment_size(config) ==
  LET first == get_value_striping_count_size(config, config.max_memory)
      buckets == InfoSize
      htq == buckets + OffsetSize * wow_math_getMaxPrime(config.max_key_count + 1)
      doing == htq + OffsetSize * (config.max_key_count + 1)
      done == doing + OffsetSize * (first.striping.max + 1)
      objects == done + OffsetSize * (first.striping.max + 1)
      total == objects + AllocatorSize * first.striping.max
  IN  [buckets |-> buckets, htq |-> htq, doing |-> doing, done |-> done, objects |-> objects,
       total |-> total, now |-> get_value_striping_count_size(config, config.max_memory - total)]

\* shmcache_check: a segment found is used only if it was laid out the same way.
shmcache_check_segement(shm, cfg) == shm.size = cfg.size /\ shm.max = cfg.max
shmcache_check(memory, config) ==
  /\ memory.max_key_count = config.max_key_count
  /\ LET now == shmcache_get_ht_segment_size(config).now
     IN  /\ shmcache_check_segement(memory.layout.segment, now.segment)
         /\ shmcache_check_segement(memory.layout.striping, now.striping)

-----------------------------------------------------------------------------
(* A size in the file: n is the number it starts with, rest the characters *)
(* after it ("k" stands for either case, " " for blanks and tabs).         *)
Unit == [k |-> 1024, m |-> MB, g |-> 1073741824]
Skip(s) == LET k == SelectInSeq(s, LAMBDA c : c # " ") IN IF k = 0 THEN <<>> ELSE SubSeq(s, k, Len(s))
EINVAL == [ok |-> FALSE, bytes |-> 0]
parse_bytes(n, rest) ==
  LET s == Skip(rest)
  IN  IF n < 0 THEN EINVAL
      ELSE IF s = <<>> THEN [ok |-> TRUE, bytes |-> n]
      ELSE IF s[1] \notin DOMAIN Unit THEN EINVAL
      ELSE LET t == Tail(s)
               u == IF t # <<>> /\ t[1] = "b" THEN Tail(t) ELSE t
           IN  IF Skip(u) = <<>> THEN [ok |-> TRUE, bytes |-> n * Unit[s[1]]] ELSE EINVAL

\* The items of the file in the order they are read: each is "good", "bad"
\* (an unknown word, a size that cannot be read, a number that is not
\* positive) or "none".
Items == <<"type", "filename", "max_memory", "min_memory", "segment_size", "max_key_count",
           "max_value_size", "hash_function", "discard_memory_size", "trylock_interval_us",
           "detect_deadlock_interval_ms", "recycle_key_once", "log_level">>
\* wow_ini_get_string leaves the pointer as it was when an item is absent,
\* and these pointers were never set: what follows is undefined.
Wild(item, state) ==
  state = "none" /\ item \in {"type", "filename", "max_memory", "min_memory", "segment_size",
                              "max_value_size", "discard_memory_size"}
\* What stops the reading at an item; a size for min_memory that cannot be
\* read is passed over.  An absent number leaves what the caller's structure
\* held, taken to be 0.
Stops(item, state) ==
  CASE item \in {"type", "filename", "hash_function", "max_memory", "segment_size", "max_value_size",
                 "discard_memory_size"} -> state = "bad"
    [] item \in {"max_key_count", "trylock_interval_us", "detect_deadlock_interval_ms"} -> state # "good"
    [] OTHER -> FALSE
\* The possible outcomes.  The result of the last read is the result of all.
shmcache_load_config(items) ==
  LET k == SelectInSeq(Items, LAMBDA i : Wild(i, items[i]) \/ Stops(i, items[i]))
  IN  IF k # 0 THEN IF Wild(Items[k], items[Items[k]]) THEN {"ok", "error", "crash"} ELSE {"error"}
      ELSE IF items["log_level"] = "none" THEN {"error"} ELSE {"ok"}
\* segment_size after the check against max_memory: no more than 255 segments.
SegmentSize(max_memory, segment_size) ==
  IF max_memory \div segment_size > 255 THEN max_memory \div 255 ELSE segment_size

-----------------------------------------------------------------------------
(* The keys of the table, in the order of its list: a key is a sequence    *)
(* and valid says that it has not expired.                                 *)
shm_ht_match_key(op, key, entry) ==
  /\ Len(entry) >= Len(key)
  /\ CASE op = "exact" -> entry = key
       [] op = "left" -> SubSeq(entry, 1, Len(key)) = key
       [] op = "right" -> SubSeq(entry, Len(entry) - Len(key) + 1, Len(entry)) = key
       [] op = "anywhere" -> \E k \in 0 .. Len(entry) - Len(key) : SubSeq(entry, k + 1, k + Len(key)) = key

\* count = 0: all of them.
shm_ht_to_array_ex(list, op, key, offset, count) ==
  LET matches(e) == e.valid /\ shm_ht_match_key(op, key, e.key)
      rows == IF count > 0 /\ count < Len(list) - offset THEN count ELSE Len(list) - offset
      skip == FoldLeft(LAMBDA a, e : IF a.i = offset THEN a
                                     ELSE [at |-> a.at + 1, i |-> IF matches(e) THEN a.i + 1 ELSE a.i],
                       [at |-> 0, i |-> 0], list)
  IN  IF rows <= 0 THEN <<>>
      ELSE FoldLeft(LAMBDA out, e : IF Len(out) < rows /\ matches(e) THEN Append(out, e) ELSE out,
                    <<>>, SubSeq(list, skip.at + 1, Len(list)))
=============================================================================
