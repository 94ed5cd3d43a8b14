----------------------------- MODULE Containers -----------------------------
(***************************************************************************)
(* The containers of the library, one at a time (unit), under every        *)
(* sequence of calls: obj is the object as the code lays it out in memory, *)
(* ref what a caller believes it to hold (a sequence, a set, a map), ret   *)
(* the pair of what the last call returned and what it should have         *)
(* returned.  hash is the hash function of the units that need one.        *)
(* After a call whose effect C leaves undefined the unit is "spent", and   *)
(* all that is left is to make a new object.  Module Services adds the     *)
(* units of the services to these.                                         *)
(***************************************************************************)
EXTENDS Integers, Sequences, SequencesExt, FiniteSetsExt, Functions

CONSTANTS MaxLen,                   \* bound on what a container holds
          MaxMaxn,                  \* bound on a count that only grows: see MapInsert
          DEFALUT_BYTE_ARRAY_SZIE, DICTMINSZ, HashSize, Grow

VARIABLES unit, obj, ref, ret, hash
vars == <<unit, obj, ref, ret, hash>>

L == INSTANCE Lists
BU == INSTANCE Buffers
HM == INSTANCE Hashes WITH NoKey <- 0, UNDEF <- 0

D == {1, 2}                 \* data, bytes, values
BitLen == 9                 \* one bit more than a byte
RingLen == 4
KvKeys == 1 .. 5
HmKeys == 1 .. 4
DiKeys == 1 .. 4
Texts == UNION {[1 .. n -> {"a", "b", ","}] : n \in 0 .. 5}
Strs == UNION {[1 .. n -> D] : n \in 0 .. 3}
Hashes == {[k \in 0 .. 4 |-> 7], [k \in 0 .. 4 |-> k], [k \in 0 .. 4 |-> k \div 2]}
\* Texts for the Bloom filter are 1 .. 3; the bits number 24, the mask is 31.
Blooms == {[x \in 1 .. 3 |-> <<7 * x, 24 + x, 62 + x, 5>>], [x \in 1 .. 3 |-> <<x, 2 * x, 30, 3 * x>>]}

EmptyMap == [k \in {} |-> 0]
Map(f, k, v) == [x \in DOMAIN f \cup {k} |-> IF x = k THEN v ELSE f[x]]
Without(f, k) == [x \in DOMAIN f \ {k} |-> f[x]]
Look(f, k, def) == IF k \in DOMAIN f THEN f[k] ELSE def

\* A new object of each unit and what it stands for.
Hashed(u, o, r, h) == unit = u /\ obj = o /\ ref = r /\ ret = <<0, 0>> /\ hash = h
New(u, o, r) == Hashed(u, o, r, <<>>)
ContainersInit ==
  \/ New("slist", L!wow_slist_create, <<>>)
  \/ \E t \in Texts : New("text", t, <<>>)
  \/ New("ring", BU!wow_ringbuf_create(RingLen), <<>>)
  \/ \E n \in 0 .. 3 : New("bytes", BU!wow_byte_array_new(n), <<>>)
  \/ New("kv", L!wow_kvlist_create, EmptyMap)
  \/ \E h \in Hashes : Hashed("map", HM!wow_hash_map_create, EmptyMap, h)
  \/ \E h \in Hashes : Hashed("set", HM!wow_hash_map_create, {}, h)
  \/ \E s \in Strs : New("str", HM!element_str_dupl(s), s)
  \/ New("bitmap", HM!wow_bitmap_new(BitLen), {})
  \/ \E h \in Blooms : Hashed("bloom", HM!wow_bloomfilter_init(3), {}, h)
  \/ \E h \in Hashes : Hashed("dict", HM!dictionary_new(0), EmptyMap, h)

Call(u, o, r, got, want) ==
  /\ unit = u /\ obj' = o /\ ref' = r /\ ret' = <<got, want>> /\ UNCHANGED <<unit, hash>>
Ask(u, got, want) == Call(u, obj, ref, got, want)
\* A call that leaves defined behaviour.
Spend == unit' = "spent" /\ obj' = <<>> /\ ref' = <<>> /\ ret' = <<0, 0>> /\ UNCHANGED hash

-----------------------------------------------------------------------------
(* Singly linked list *)
Idx == -1 .. MaxLen + 1
In(i) == i \in 0 .. Len(ref) - 1
Room == Len(ref) < MaxLen
Ins(s, i, d) == LET k == IF i < 0 THEN 0 ELSE IF i > Len(s) THEN Len(s) ELSE i IN InsertAt(s, k + 1, d)
Pos(d) == SelectInSeq(ref, LAMBDA x : x = d)
SL(op, r, want) == Call("slist", op.st, r, op.ret, want)

SlistInsert ==
  /\ unit = "slist" /\ Room
  /\ \E d \in D :
       \/ \E i \in Idx : SL(L!wow_slist_insert_by_index(obj, i, d), Ins(ref, i, d), 0)
       \/ SL(L!wow_slist_insert_head(obj, d), <<d>> \o ref, 0)
       \/ SL(L!wow_slist_insert_tail(obj, d), Append(ref, d), 0)
       \/ \E e \in D : SL(L!wow_slist_insert_by_match(obj, {e}, d),
                          IF Pos(e) = 0 THEN ref ELSE Ins(ref, Pos(e), d), IF Pos(e) = 0 THEN -1 ELSE 0)
SlistPeek ==
  /\ unit = "slist"
  /\ \/ Ask("slist", L!wow_slist_peek_head(obj), IF ref = <<>> THEN 0 ELSE Head(ref))
     \/ Ask("slist", L!wow_slist_peek_tail(obj), IF ref = <<>> THEN 0 ELSE Last(ref))
     \/ \E i \in Idx : Ask("slist", L!wow_slist_peek_by_index(obj, i), IF In(i) THEN ref[i + 1] ELSE 0)
     \/ \E d \in D : Ask("slist", L!wow_slist_peek_by_match(obj, {d}), IF Pos(d) = 0 THEN 0 ELSE d)
SlistRemove ==
  /\ unit = "slist"
  /\ LET at(i) == IF In(i) THEN RemoveAt(ref, i + 1) ELSE ref
         code(i) == IF In(i) THEN 0 ELSE L!PARAM IN
     \/ SL(L!wow_slist_remove_head(obj), at(0), code(0))
     \/ SL(L!wow_slist_remove_tail(obj), at(Len(ref) - 1), code(Len(ref) - 1))
     \/ \E i \in Idx : SL(L!wow_slist_remove_by_index(obj, i), at(i), code(i))
     \/ \E d \in D : SL(L!wow_slist_remove_by_match(obj, {d}), at(Pos(d) - 1), IF Pos(d) = 0 THEN -1 ELSE 0)
     \/ \E d \in D : SL(L!wow_slist_remove(obj, d), at(Pos(d) - 1), IF Pos(d) = 0 THEN -1 ELSE 0)
SlistReplace ==
  /\ unit = "slist"
  /\ \E d \in D :
       \/ SL(L!wow_slist_replace_head(obj, d), IF ref = <<>> THEN ref ELSE ReplaceAt(ref, 1, d), IF ref = <<>> THEN -1 ELSE 0)
       \/ SL(L!wow_slist_replace_tail(obj, d), IF ref = <<>> THEN ref ELSE ReplaceAt(ref, Len(ref), d), IF ref = <<>> THEN -1 ELSE 0)
       \/ \E i \in Idx : SL(L!wow_slist_replace_by_index(obj, i, d), IF In(i) THEN ReplaceAt(ref, i + 1, d) ELSE ref, IF In(i) THEN 0 ELSE L!PARAM)
       \/ \E e \in D : SL(L!wow_slist_replace_by_match(obj, {e}, d), [k \in DOMAIN ref |-> IF ref[k] = e THEN d ELSE ref[k]], 0)
SlistClear == unit = "slist" /\ SL(L!wow_slist_clear(obj), <<>>, 0)

(* List of strings: the fields of a text *)
Fields(t) == {f \in (1 .. Len(t)) \X (1 .. Len(t)) :
                /\ f[1] <= f[2] /\ \A i \in f[1] .. f[2] : t[i] # ","
                /\ f[1] = 1 \/ t[f[1] - 1] = ","
                /\ f[2] = Len(t) \/ t[f[2] + 1] = ","}
Split == unit = "text" /\ ref = <<>>
         /\ Call("text", obj, L!wow_slist_foreach(L!wow_stringlist_split(obj, {","})), 0, 0)
-----------------------------------------------------------------------------
(* Ring buffer *)
RingWrite ==
  /\ unit = "ring"
  /\ \E s \in Strs :
       LET w == BU!wow_ringbuf_write(obj, s)
           fits == s # <<>> /\ Len(ref) + Len(s) < RingLen IN
       Call("ring", w.st, IF fits THEN ref \o s ELSE ref, w.ret, IF fits THEN Len(s) ELSE -1)
RingRead ==
  /\ unit = "ring"
  /\ \E n \in 0 .. RingLen :
       LET r == BU!wow_ringbuf_read(obj, n)
           k == IF n < Len(ref) THEN n ELSE Len(ref) IN
       Call("ring", r.st, SubSeq(ref, k + 1, Len(ref)), r.ret, SubSeq(ref, 1, k))
RingClear == unit = "ring" /\ Call("ring", BU!wow_ringbuf_clear(obj), <<>>, 0, 0)
-----------------------------------------------------------------------------
(* Byte array *)
Bt(op, r, want) == IF op.st.broken THEN Spend ELSE Call("bytes", op.st, r, op.ret, want)
Code(ok) == IF ok THEN 0 ELSE -1
BytesAppend ==
  /\ unit = "bytes" /\ Room
  /\ \/ \E d \in D : Bt(BU!wow_byte_array_append_data(obj, d), Append(ref, d), 0)
     \/ \E s \in Strs : Bt(BU!wow_byte_array_append_ndata(obj, s), ref \o s, 0)
     \/ \E s \in Strs : LET b == BU!wow_byte_array_append_ndata(BU!wow_byte_array_new(1), s).st
                             ok == Len(s) < obj.capicity - Len(ref) IN
                         Bt(BU!wow_byte_array_append_array(obj, b), IF ok THEN ref \o s ELSE ref, Code(ok))
     \/ \E d \in D, i \in 0 .. MaxLen : Bt(BU!wow_byte_array_insert(obj, i, d), IF In(i) THEN InsertAt(ref, i + 1, d) ELSE ref, Code(In(i)))
\* The middle is moved by the length of what is not wanted: when that is
\* shorter than what is, the end of the middle is lost.
BytesCut ==
  /\ unit = "bytes"
  /\ \E n \in 0 .. MaxLen + 1 :
       LET ok == Len(ref) > n IN
       \/ Bt(BU!wow_byte_array_left(obj, n), IF ok THEN SubSeq(ref, 1, n) ELSE ref, Code(ok))
       \/ Bt(BU!wow_byte_array_right(obj, n), IF ok THEN SubSeq(ref, Len(ref) - n + 1, Len(ref)) ELSE ref, Code(ok))
       \/ \E i \in 0 .. MaxLen : IF i + n < Len(ref) /\ 2 * n > Len(ref) THEN Spend ELSE
            Bt(BU!wow_byte_array_mid(obj, i, n), IF In(i) THEN SubSeq(ref, i + 1, IF i + n < Len(ref) THEN i + n ELSE Len(ref)) ELSE ref, Code(In(i)))
\* A removal that leaves bytes on both sides of the gap loses those before it.
BytesRemove ==
  /\ unit = "bytes"
  /\ \E i, n \in 0 .. MaxLen :
       IF In(i) /\ i > 0 /\ i + n < Len(ref) THEN Spend
       ELSE Bt(BU!wow_byte_array_remove(obj, i, n),
               IF In(i) THEN SubSeq(ref, 1, i) \o SubSeq(ref, i + n + 1, Len(ref)) ELSE ref, Code(In(i)))
BytesEdit ==
  /\ unit = "bytes"
  /\ \/ \E i \in 0 .. MaxLen, d \in D : Bt(BU!wow_byte_array_set(obj, i, d), IF In(i) THEN ReplaceAt(ref, i + 1, d) ELSE ref, Code(In(i)))
     \/ \E d, e \in D : Bt(BU!wow_byte_array_replace(obj, d, e), [k \in DOMAIN ref |-> IF ref[k] = d THEN e ELSE ref[k]], 0)
     \/ Bt(BU!wow_byte_array_clear(obj), <<>>, 0)
BytesAsk ==
  /\ unit = "bytes"
  /\ \/ \E i \in 0 .. MaxLen : Ask("bytes", BU!wow_byte_array_get(obj, i), IF In(i) THEN ref[i + 1] ELSE -1)
     \/ \E d \in D : Ask("bytes", BU!wow_byte_array_find(obj, d), Pos(d) - 1)
-----------------------------------------------------------------------------
(* Keys and values in an AVL tree.  A set of a key that is there keeps the *)
(* caller's string, and a later deletion or update would free that string. *)
Kv(o, r, got, want) == Call("kv", o, r, got, want)
KvSet == unit = "kv" /\ ~ L!Dangling(obj)
         /\ \E k \in KvKeys, v \in D : Kv(L!wow_kvlist_set(obj, k, v), Map(ref, k, v), 0, 0)
KvDelete ==
  /\ unit = "kv" /\ ~ L!Dangling(obj)
  /\ \E k \in KvKeys : IF L!Frees_own(obj, k) THEN Kv(L!wow_kvlist_delete(obj, k), Without(ref, k), 0, 0) ELSE Spend
\* The new value is stored without its end: what a reader sees is undefined.
KvUpdate ==
  /\ unit = "kv" /\ ~ L!Dangling(obj)
  /\ \E k \in KvKeys, v \in D :
       \/ L!Frees_own(obj, k) /\ Kv(L!wow_kvlist_update(obj, k, v), IF k \in DOMAIN ref THEN Map(ref, k, v) ELSE ref, 0, 0)
       \/ k \in DOMAIN ref /\ Spend
KvAsk ==
  /\ unit = "kv" /\ ~ L!Dangling(obj)
  /\ \/ \E k \in KvKeys : Ask("kv", L!wow_kvlist_get(obj, k), Look(ref, k, 0))
     \/ Ask("kv", L!wow_kvlist_size(obj), Cardinality(DOMAIN ref))
-----------------------------------------------------------------------------
(* Hash map of 8-bit numbers, hash set, string elements *)
\* item_maxn is never lowered when a bucket is freed.
MapInsert ==
  /\ unit = "map" /\ obj.item_maxn < MaxMaxn
  /\ \E k \in {0} \cup HmKeys, v \in {0, 1, 255} :
       LET i == HM!wow_hash_map_insert(obj, hash, 8, 8, k, v)
           ok == k # 0 /\ v # 0 IN
       Call("map", i.st, IF ok THEN Map(ref, k, v) ELSE ref, i.ret, Code(ok))
MapRemove ==
  /\ unit = "map"
  /\ \/ \E k \in {0} \cup HmKeys : Call("map", HM!wow_hash_map_remove(obj, hash, 8, k), Without(ref, k), 0, 0)
     \/ Call("map", HM!wow_hash_map_clear(obj), EmptyMap, 0, 0)
MapAsk ==
  /\ unit = "map"
  /\ \/ \E k \in {0} \cup HmKeys : Ask("map", HM!wow_hash_map_get(obj, hash, 8, k), Look(ref, k, 0))
     \/ Ask("map", HM!wow_hash_map_size(obj), Cardinality(DOMAIN ref))
SetStep ==
  /\ unit = "set" /\ obj.item_maxn < MaxMaxn
  /\ \E k \in {0} \cup HmKeys :
       \/ LET i == HM!wow_hash_set_insert(obj, hash, 8, k) IN
          Call("set", i.st, IF k = 0 THEN ref ELSE ref \cup {k}, i.ret, Code(k # 0))
       \/ Call("set", HM!wow_hash_map_remove(obj, hash, 8, k), ref \ {k}, 0, 0)
       \/ Ask("set", HM!wow_hash_set_get(obj, hash, 8, k), Code(k \in ref))
StrRepl == unit = "str" /\ \E s \in Strs : Call("str", HM!element_str_repl(obj, s), s, 0, 0)
-----------------------------------------------------------------------------
(* Bitmap and Bloom filter *)
BitmapStep ==
  /\ unit = "bitmap"
  /\ \E i \in 0 .. BitLen :
       \/ LET b == HM!wow_bitmap_set_1(obj, i) IN Call("bitmap", b.st, ref \cup ({i} \ {BitLen}), b.ret, Code(i < BitLen))
       \/ LET b == HM!wow_bitmap_set_0(obj, i) IN Call("bitmap", b.st, ref \ {i}, b.ret, Code(i < BitLen))
\* Clearing an element may clear bits of others: only what is set again
\* afterwards, or shares no bit with it, is still known to be there.
BloomStep ==
  /\ unit = "bloom"
  /\ \E x \in DOMAIN hash :
       \/ LET s == HM!wow_bloomfilter_set_1(obj, hash[x]) IN Call("bloom", s.st, ref \cup {x}, s.ret, IF x \in ref THEN 1 ELSE s.ret)
       \/ Call("bloom", HM!wow_bloomfilter_set_0(obj, hash[x]).st,
               {y \in ref : HM!Places(obj, hash[y]) \cap HM!Places(obj, hash[x]) = {}}, 0, 0)
       \/ Call("bloom", HM!wow_bloomfilter_clear(obj), {}, 0, 0)
-----------------------------------------------------------------------------
(* Dictionary *)
DictSet ==
  /\ unit = "dict"
  /\ \E k \in {0} \cup DiKeys, v \in {0} \cup D :
       LET s == HM!dictionary_set(obj, hash, k, v) IN
       Call("dict", s.st, IF k = 0 THEN ref ELSE Map(ref, k, v), s.ret, Code(k # 0))
DictUnset == unit = "dict" /\ \E k \in {0} \cup DiKeys : Call("dict", HM!dictionary_unset(obj, hash, k), Without(ref, k), 0, 0)
DictGet == unit = "dict" /\ \E k \in DiKeys : Ask("dict", HM!dictionary_get(obj, hash, k, -1), Look(ref, k, -1))

\* The object is destroyed (its memory is not looked at again).
Destroy == unit \in {"kv", "spent"} /\ (unit = "kv" => L!Owned(obj)) /\ Spend

ContainersNext ==
  \/ SlistInsert \/ SlistPeek \/ SlistRemove \/ SlistReplace \/ SlistClear \/ Split
  \/ RingWrite \/ RingRead \/ RingClear
  \/ BytesAppend \/ BytesCut \/ BytesRemove \/ BytesEdit \/ BytesAsk
  \/ KvSet \/ KvDelete \/ KvUpdate \/ KvAsk
  \/ MapInsert \/ MapRemove \/ MapAsk \/ SetStep \/ StrRepl
  \/ BitmapStep \/ BloomStep \/ DictSet \/ DictUnset \/ DictGet \/ Destroy

-----------------------------------------------------------------------------
ContainerUnits == {"slist", "text", "ring", "bytes", "kv", "map", "set", "str", "bitmap", "bloom", "dict"}

\* What is stored stays within the bounds.
ContainersTypeOK ==
  /\ unit \in {"slist", "ring"} => Len(ref) <= MaxLen
  /\ unit = "bytes" => obj.size <= obj.capicity /\ DOMAIN obj.data = 0 .. obj.capicity - 1

\* What a call returned is what the caller of a container of this kind expects.
Answers == ret[1] = ret[2]

\* However a list was built, a walk from the head meets exactly the items the
\* calls put there, the tail is the last node of that walk (the next append
\* writes through it), the count is right and no node is lost or left behind.
SlistIsSequence ==
  unit = "slist" =>
    /\ L!wow_slist_foreach(obj) = ref /\ obj.entries = Len(ref) /\ Answers
    /\ obj.tail = (IF ref = <<>> THEN 0 ELSE Last(L!Chain(obj)))
    /\ DOMAIN obj.mem = Range(L!Chain(obj))

\* The split of a text gives its non-empty fields, in their order.
SplitIsFields ==
  unit = "text" /\ ref # <<>> =>
    LET fs == SetToSortSeq(Fields(obj), LAMBDA f, g : f[1] < g[1]) IN
    ref = [k \in DOMAIN fs |-> SubSeq(obj, fs[k][1], fs[k][2])]

\* The ring is a queue of bytes across every wrap of its two places: nothing
\* is overwritten before it is read, and a full ring never looks empty.
RingIsQueue ==
  unit = "ring" =>
    /\ BU!Bytes(obj) = ref /\ Answers
    /\ obj.start \in 0 .. RingLen - 1 /\ obj.end \in 0 .. RingLen - 1
    /\ BU!wow_ringbuf_getUsed(obj) + BU!wow_ringbuf_getFree(obj) = RingLen

\* The array holds the bytes the calls put there, through every growth and
\* every cut, and writes nowhere outside of what it allocated.
BytesAreSequence == unit = "bytes" => BU!wow_byte_array_data(obj) = ref /\ Answers

\* The tree stays a search tree of the keys set and not deleted, in order,
\* with true heights and balanced at every node, so a search stays short.
KvIsBalancedMap ==
  unit = "kv" =>
    LET all == L!wow_kvlist_foreach(obj) IN
    /\ {all[i][1] : i \in DOMAIN all} = DOMAIN ref /\ Answers
    /\ \A i \in DOMAIN all : ref[all[i][1]] = all[i][2] /\ (i > 1 => all[i - 1][1] < all[i][1])
    /\ \A n \in L!Nodes(obj) : L!avl_get_balance(n) \in {-1, 0, 1} /\ n = L!Sized(n)

\* The map answers every key with the value last set and counts its items,
\* whatever the hash function does: collisions, growth and removals inside a
\* bucket included.
MapIsMap ==
  unit = "map" =>
    /\ \A k \in HmKeys : HM!wow_hash_map_get(obj, hash, 8, k) = Look(ref, k, 0)
    /\ obj.item_size = Cardinality(DOMAIN ref) /\ Answers
    /\ Len(HM!wow_hash_map_foreach(obj)) = obj.item_size
    /\ \A b \in 0 .. HashSize - 1 : obj.hash_list[b].size = Len(obj.hash_list[b].items) /\ obj.hash_list[b].size <= obj.hash_list[b].maxn

\* The set says of exactly the members that they are in it.
SetIsSet == unit = "set" => Answers /\ \A k \in HmKeys : (HM!wow_hash_set_get(obj, hash, 8, k) = 0) = (k \in ref)

\* A text that replaces another, longer or shorter, is what a reader then
\* sees, within the memory the element owns.
StrReplaced == unit = "str" => HM!element_str_data(obj) = ref /\ Len(obj.mem) <= obj.room

\* The bits raised are the ones set and not cleared, and the longest run of
\* ones or zeros is reported with its length and its first place.
BitmapIsSet ==
  unit = "bitmap" =>
    /\ {i \in 0 .. BitLen - 1 : HM!wow_bitmap_get(obj, i) = 1} = ref /\ Answers
    /\ \A v \in {0, 1} :
         LET r == HM!bitmap_longest_consecutive(obj, v)
             Run(i, n) == i + n <= BitLen /\ \A j \in i .. i + n - 1 : (j \in ref) = (v = 1) IN
         /\ Run(r.start, r.len)
         /\ \A i \in 0 .. BitLen - 1 : ~ Run(i, r.len + 1) /\ (r.len > 0 /\ i < r.start => ~ Run(i, r.len))

\* The filter never denies an element that was set and, since, had none of its
\* bits cleared for another one; and an element set twice is reported so.
BloomNoFalseNegative == unit = "bloom" => Answers /\ \A x \in ref : HM!wow_bloomfilter_get(obj, hash[x]) = 1

\* The dictionary finds every key set and not unset with its value, colliding
\* hashes and slots freed in the middle included; n counts the slots in use,
\* so the search for a free slot ends.
DictIsMap ==
  unit = "dict" =>
    /\ HM!Keys(obj) = DOMAIN ref /\ Answers
    /\ \A k \in DiKeys : HM!dictionary_get(obj, hash, k, -1) = Look(ref, k, -1)
    /\ obj.n = Cardinality({i \in DOMAIN obj.slots : obj.slots[i].key # 0})
=============================================================================
