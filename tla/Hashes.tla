------------------------------- MODULE Hashes -------------------------------
(***************************************************************************)
(* The hash map of wow_hash_map.c, the hash set on top of it and the kinds *)
(* of elements it stores (src/element).  A bucket is a list of items with  *)
(* room for maxn of them; a bucket whose last item goes is freed.  Numbers *)
(* are passed in a pointer: an argument of 0 is a null pointer to the map, *)
(* and an element of w bits keeps the low w bits of what it is given.  The *)
(* hash function is a parameter: the map must work with any.               *)
(***************************************************************************)
EXTENDS Integers, Sequences, SequencesExt, FiniteSetsExt

CONSTANTS HashSize,   \* hash_size: 16 in the code
          Grow        \* item_grow: 8 in the code

NULL == 0
None == [size |-> 0, maxn |-> 0, items |-> <<>>]   \* a null list pointer

wow_hash_map_create == [hash_list |-> [b \in 0 .. HashSize - 1 |-> None], item_size |-> 0, item_maxn |-> 0]

\* element_uint8_copy, element_uint16_copy, element_uint32_copy
Stored(w, v) == v % (2 ^ w)
\* element_uint8_comp and its sisters compare the low bits of both sides.
Same(w, a, b) == Stored(w, a) = Stored(w, b)

Bucket(hash, k) == hash[k] % (HashSize - 1)

\* hash_map_item_find: the bucket of the key and its place there, 0 if absent.
hash_map_item_find(m, hash, w, k) ==
  LET b == Bucket(hash, k) IN
  [buck |-> b, item |-> SelectInSeq(m.hash_list[b].items, LAMBDA it : Same(w, k, it.key))]

hash_map_item_at(m, b, i) == m.hash_list[b].items[i].val

wow_hash_map_get(m, hash, w, k) ==
  LET f == hash_map_item_find(m, hash, w, k) IN
  IF k = NULL \/ f.item = 0 THEN NULL ELSE hash_map_item_at(m, f.buck, f.item)

\* The value of w bits of a key that is there is replaced, another key is put
\* behind the items of its bucket, which grows when it is full.
wow_hash_map_insert(m, hash, w, vw, k, v) ==
  LET f == hash_map_item_find(m, hash, w, k)
      list == m.hash_list[f.buck]
      full == list.size >= list.maxn
      item == [key |-> Stored(w, k), val |-> Stored(vw, v)] IN
  IF k = NULL \/ v = NULL THEN [st |-> m, ret |-> -1]
  ELSE IF f.item # 0
       THEN [st |-> [m EXCEPT !.hash_list[f.buck].items[f.item].val = Stored(vw, v)], ret |-> 0]
       ELSE [st |-> [m EXCEPT !.hash_list[f.buck] =
                        [size |-> list.size + 1, maxn |-> list.maxn + (IF full THEN Grow ELSE 0), items |-> Append(list.items, item)],
                     !.item_maxn = @ + (IF full THEN Grow ELSE 0), !.item_size = @ + 1],
             ret |-> 0]

hash_map_itor_remove(m, b, i) ==
  LET list == m.hash_list[b] IN
  [m EXCEPT !.hash_list[b] = IF list.size > 1 THEN [list EXCEPT !.size = @ - 1, !.items = RemoveAt(@, i)] ELSE None,
            !.item_size = @ - 1]

wow_hash_map_remove(m, hash, w, k) ==
  LET f == hash_map_item_find(m, hash, w, k) IN
  IF k = NULL \/ f.item = 0 THEN m ELSE hash_map_itor_remove(m, f.buck, f.item)

wow_hash_map_clear(m) == [wow_hash_map_create EXCEPT !.item_maxn = 0]
wow_hash_map_size(m) == m.item_size
\* The values in the order in which wow_hash_map_foreach hands them out.
wow_hash_map_foreach(m) ==
  FlattenSeq([b \in 1 .. HashSize |-> [i \in 1 .. m.hash_list[b - 1].size |-> m.hash_list[b - 1].items[i].val]])

wow_hash_set_insert(m, hash, w, k) == wow_hash_map_insert(m, hash, w, 8, k, 1)
wow_hash_set_get(m, hash, w, k) == IF wow_hash_map_get(m, hash, w, k) # NULL THEN 0 ELSE -1

-----------------------------------------------------------------------------
(* A string element owns a copy of its text.  element_str_repl writes the  *)
(* new text over the old one, in its place: room is what was allocated and *)
(* mem the bytes there, with 0 for the end of the text.                    *)
element_str_dupl(s) == [room |-> Len(s) + 1, mem |-> s \o <<0>>]
element_str_data(e) == SubSeq(e.mem, 1, SelectInSeq(e.mem, LAMBDA c : c = 0) - 1)

\* The walk stops at the end of either text; only what is missing is added.
element_str_repl(e, s) ==
  LET old == element_str_data(e)
      n == IF Len(old) < Len(s) THEN Len(old) ELSE Len(s) IN
  IF Len(s) > Len(old)
  THEN [room |-> Len(s) + 1, mem |-> SubSeq(s, 1, n) \o SubSeq(s, n + 1, Len(s)) \o <<0>>]
  ELSE [e EXCEPT !.mem = [i \in DOMAIN @ |-> IF i <= n THEN s[i] ELSE IF i = n + 1 THEN 0 ELSE @[i]]]

-----------------------------------------------------------------------------
(***************************************************************************)
(* The dictionary of the ini parser (dictionary.c): parallel arrays of     *)
(* size slots for keys, values and hashes, of which n are in use.  A slot  *)
(* without a key is free.  hash may send two keys to one value.            *)
(***************************************************************************)

CONSTANTS DICTMINSZ,   \* 128 in the code
          NoKey,       \* a NULL key
          UNDEF        \* a NULL value

Slot(k, v, h) == [key |-> k, val |-> v, hash |-> h]
Free == Slot(NoKey, UNDEF, 0)

dictionary_new(size) ==
  LET s == IF size < DICTMINSZ THEN DICTMINSZ ELSE size IN
  [n |-> 0, size |-> s, slots |-> [i \in 0 .. s - 1 |-> Free]]

\* The slots that hold the key: equal hashes are not enough.
SlotsOf(d, hash, k) == {i \in DOMAIN d.slots : d.slots[i].key # NoKey /\ d.slots[i].hash = hash[k] /\ d.slots[i].key = k}

dictionary_get(d, hash, k, def) ==
  LET is == SlotsOf(d, hash, k) IN IF is = {} THEN def ELSE d.slots[Min(is)].val

mem_double(d) ==
  [d EXCEPT !.size = 2 * @, !.slots = [i \in 0 .. 2 * d.size - 1 |-> IF i < d.size THEN @[i] ELSE Free]]

\* The first free slot from n on, around the end of the array.
RECURSIVE FreeFrom(_, _)
FreeFrom(d, i) == IF d.slots[i].key = NoKey THEN i ELSE FreeFrom(d, IF i + 1 = d.size THEN 0 ELSE i + 1)

dictionary_set(d, hash, k, v) ==
  LET is == IF d.n > 0 THEN SlotsOf(d, hash, k) ELSE {}
      e == IF d.n = d.size THEN mem_double(d) ELSE d IN
  IF k = NoKey THEN [st |-> d, ret |-> -1]
  ELSE IF is # {} THEN [st |-> [d EXCEPT !.slots[Min(is)].val = v], ret |-> 0]
  ELSE [st |-> [e EXCEPT !.slots[FreeFrom(e, e.n)] = Slot(k, v, hash[k]), !.n = @ + 1], ret |-> 0]

dictionary_unset(d, hash, k) ==
  LET is == SlotsOf(d, hash, k) IN
  IF k = NoKey \/ is = {} THEN d ELSE [d EXCEPT !.slots[Min(is)] = Free, !.n = @ - 1]

\* The keys in the order in which dictionary_dump lists them.
Keys(d) == {d.slots[i].key : i \in DOMAIN d.slots} \ {NoKey}

-----------------------------------------------------------------------------
(***************************************************************************)
(* The bitmap of wow_bitmap.c and the Bloom filter of wow_bloomfilter.c.   *)
(* Both keep their bits in bytes; a byte is the set of its raised bits.    *)
(***************************************************************************)

CHAR_BIT_SIZE == 8
SIZE_IS_BIG == -1

wow_bitmap_new(n) == [length |-> n, bit |-> [i \in 0 .. (n + CHAR_BIT_SIZE - 1) \div CHAR_BIT_SIZE - 1 |-> {}]]
wow_bitmap_set_1(b, i) ==
  IF i < b.length THEN [st |-> [b EXCEPT !.bit[i \div CHAR_BIT_SIZE] = @ \cup {i % CHAR_BIT_SIZE}], ret |-> 0]
  ELSE [st |-> b, ret |-> SIZE_IS_BIG]
wow_bitmap_set_0(b, i) ==
  IF i < b.length THEN [st |-> [b EXCEPT !.bit[i \div CHAR_BIT_SIZE] = @ \ {i % CHAR_BIT_SIZE}], ret |-> 0]
  ELSE [st |-> b, ret |-> SIZE_IS_BIG]
wow_bitmap_get(b, i) ==
  IF ~ (i < b.length) THEN SIZE_IS_BIG
  ELSE IF i % CHAR_BIT_SIZE \in b.bit[i \div CHAR_BIT_SIZE] THEN 1 ELSE 0

\* The scan from the first bit on, with the run it is in and the best so far.
RECURSIVE Scan(_, _, _, _)
Scan(b, v, i, s) ==
  IF i = b.length THEN [len |-> s.max, start |-> s.pos]
  ELSE IF wow_bitmap_get(b, i) # v THEN Scan(b, v, i + 1, [s EXCEPT !.cur = 0])
  ELSE LET cur == s.cur + 1
           from == IF s.cur = 0 THEN i ELSE s.from IN
       Scan(b, v, i + 1, IF cur > s.max THEN [cur |-> cur, from |-> from, max |-> cur, pos |-> from]
                         ELSE [s EXCEPT !.cur = cur, !.from = from])
bitmap_longest_consecutive(b, v) == Scan(b, v, 0, [cur |-> 0, from |-> -1, max |-> 0, pos |-> 0])

-----------------------------------------------------------------------------
(* The Bloom filter.  size bytes hold its bits; mask is the next power of  *)
(* two less one.  hashes[x] is the sequence of the values of the four hash *)
(* functions on the text x.                                                *)

RECURSIVE Align_pow2(_, _)
Align_pow2(n, p) == IF p >= n THEN p ELSE Align_pow2(n, 2 * p)

\* The size in bytes follows from the wanted probability and the number of
\* items by a formula in floating point: it is given here.
wow_bloomfilter_init(size) == [size |-> size, data |-> {}, mask |-> Align_pow2(size * 8, 1) - 1]
wow_bloomfilter_clear(f) == [f EXCEPT !.data = {}]
Index(f, h) == LET i == h % f.mask IN IF i >= f.size * 8 THEN i % (f.size * 8) ELSE i
Places(f, hs) == {Index(f, hs[i]) : i \in DOMAIN hs}
wow_bloomfilter_set_1(f, hs) ==
  [st |-> [f EXCEPT !.data = @ \cup Places(f, hs)], ret |-> IF Places(f, hs) \subseteq f.data THEN 1 ELSE 0]
wow_bloomfilter_set_0(f, hs) == [st |-> [f EXCEPT !.data = @ \ Places(f, hs)], ret |-> 0]
wow_bloomfilter_get(f, hs) == IF Places(f, hs) \subseteq f.data THEN 1 ELSE 0
=============================================================================
