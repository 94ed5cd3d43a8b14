------------------------------ MODULE Buffers -------------------------------
(***************************************************************************)
(* The ring of bytes of wow_ring_buff.c: length bytes of memory, the place *)
(* where the next byte is read (start) and the place where the next one is *)
(* written (end).  Equal places mean an empty ring, which is why a write   *)
(* must leave one byte free.                                               *)
(***************************************************************************)
EXTENDS Integers, Sequences, SequencesExt

wow_ringbuf_create(n) == [length |-> n, start |-> 0, end |-> 0, buffer |-> [i \in 0 .. n - 1 |-> 0]]

wow_ringbuf_getFree(r) == IF r.end >= r.start THEN r.length - (r.end - r.start) ELSE r.start - r.end
wow_ringbuf_getUsed(r) == IF r.end >= r.start THEN r.end - r.start ELSE r.length - (r.start - r.end)

\* memcpy of a run of bytes to the write place, which then moves behind them.
CopyIn(r, data) ==
  [r EXCEPT !.buffer = [i \in DOMAIN @ |-> IF i - r.end \in 0 .. Len(data) - 1 THEN data[i - r.end + 1] ELSE @[i]],
            !.end = (@ + Len(data)) % r.length]

wow_ringbuf_write(r, data) ==
  LET half == r.length - r.end IN
  IF data = <<>> \/ ~ (wow_ringbuf_getFree(r) > Len(data)) THEN [st |-> r, ret |-> -1]
  ELSE [st |-> IF half < Len(data)
               THEN CopyIn(CopyIn(r, SubSeq(data, 1, half)), SubSeq(data, half + 1, Len(data)))
               ELSE CopyIn(r, data),
        ret |-> Len(data)]

CopyOut(r, n) == [k \in 1 .. n |-> r.buffer[r.start + k - 1]]
Advance(r, n) == [r EXCEPT !.start = (@ + n) % r.length]

\* Reads at most n bytes; the answer is the bytes, its length the return value.
wow_ringbuf_read(r, n) ==
  LET rlen == IF n < wow_ringbuf_getUsed(r) THEN n ELSE wow_ringbuf_getUsed(r)
      half == r.length - r.start
      once == Advance(r, half)
      done == IF half < rlen THEN Advance(once, rlen - half) ELSE Advance(r, rlen)
      empty == done.start = done.end \/ wow_ringbuf_getUsed(done) = 0 IN
  IF n <= 0 THEN [st |-> r, ret |-> <<>>]
  ELSE [st |-> IF empty THEN [done EXCEPT !.start = 0, !.end = 0] ELSE done,
        ret |-> IF half < rlen THEN CopyOut(r, half) \o CopyOut(once, rlen - half) ELSE CopyOut(r, rlen)]

wow_ringbuf_clear(r) == [r EXCEPT !.start = 0, !.end = 0]

\* The bytes in the ring, in the order in which they will be read.
Bytes(r) == [k \in 1 .. wow_ringbuf_getUsed(r) |-> r.buffer[(r.start + k - 1) % r.length]]

-----------------------------------------------------------------------------
(***************************************************************************)
(* The growing array of bytes of wow_byte_array.c: its size, its capacity  *)
(* and the bytes of the allocation, numbered from 0.  A byte the code      *)
(* reads outside of the allocation is BEYOND; a write outside of it, or a  *)
(* byte that came from there, makes the array Broken.                      *)
(***************************************************************************)

CONSTANT DEFALUT_BYTE_ARRAY_SZIE   \* 1024 in the code

BEYOND == -1

wow_byte_array_new(n) ==
  LET cap == IF n = 0 THEN DEFALUT_BYTE_ARRAY_SZIE ELSE n IN
  [size |-> 0, capicity |-> cap, broken |-> FALSE, data |-> [i \in 0 .. cap - 1 |-> 0]]

At(a, i) == IF i \in DOMAIN a.data THEN a.data[i] ELSE BEYOND

\* memmove and memset on the allocation: n bytes written from place p on.
Write(a, p, n, f(_)) ==
  [a EXCEPT !.data = [i \in DOMAIN @ |-> IF i \in p .. p + n - 1 THEN f(i) ELSE @[i]],
            !.broken = @ \/ ~ (p .. p + n - 1 \subseteq DOMAIN a.data)]
Move(a, to, from, n) == Write(a, to, n, LAMBDA i : At(a, from + i - to))
Zero(a, p, n) == Write(a, p, n, LAMBDA i : 0)
Resized(a, n) == [a EXCEPT !.size = n]
Ret0(a) == [st |-> a, ret |-> 0]
Refused(a) == [st |-> a, ret |-> -1]

byte_array_resize(a, n) ==
  [a EXCEPT !.capicity = n, !.data = [i \in 0 .. n - 1 |-> IF i < a.capicity THEN At(a, i) ELSE 0]]

wow_byte_array_clear(a) == Ret0(Resized(Zero(a, 0, a.size), 0))

wow_byte_array_append_data(a, v) ==
  LET r == IF a.size >= a.capicity THEN byte_array_resize(a, a.size * 2) ELSE a IN
  Ret0(Resized(Write(r, r.size, 1, LAMBDA i : v), r.size + 1))

wow_byte_array_append_ndata(a, s) ==
  LET need == a.size + Len(s)
      r == IF need >= a.capicity THEN byte_array_resize(a, IF need > a.size * 2 THEN need ELSE a.size * 2) ELSE a IN
  Ret0(Resized(Write(r, r.size, Len(s), LAMBDA i : s[i - r.size + 1]), need))

\* Another array is added only when it fits with a byte to spare: no growth.
wow_byte_array_append_array(a, b) ==
  IF ~ (b.size < a.capicity - a.size) THEN Refused(a)
  ELSE Ret0(Resized(Write(a, a.size, b.size, LAMBDA i : b.data[i - a.size]), a.size + b.size))

wow_byte_array_insert(a, idx, v) ==
  LET r == IF a.size >= a.capicity THEN byte_array_resize(a, a.size * 2) ELSE a IN
  IF ~ (idx < a.size) THEN Refused(a)
  ELSE Ret0(Resized(Write(Move(r, idx + 1, idx, r.size - idx), idx, 1, LAMBDA i : v), r.size + 1))

wow_byte_array_left(a, n) ==
  IF ~ (a.size > n) THEN Refused(a) ELSE Ret0(Resized(Zero(a, n, a.size - n), n))
wow_byte_array_right(a, n) ==
  IF ~ (a.size > n) THEN Refused(a)
  ELSE Ret0(Resized(Zero(Move(a, 0, a.size - n, n), n, a.size - n), n))

wow_byte_array_mid(a, idx, n) ==
  IF ~ (idx < a.size) THEN Refused(a)
  ELSE IF a.size > n + idx
       THEN Ret0(Resized(Zero(Move(a, 0, idx, a.size - n), n, a.size - n), n))
       ELSE Ret0(Resized(Zero(Move(a, 0, idx, a.size - idx), n, a.size - idx), a.size - idx))

wow_byte_array_get(a, idx) == IF idx < a.size THEN a.data[idx] ELSE -1
wow_byte_array_set(a, idx, v) ==
  IF idx < a.size THEN Ret0(Write(a, idx, 1, LAMBDA i : v)) ELSE Refused(a)
wow_byte_array_find(a, v) ==
  LET is == {i \in 0 .. a.size - 1 : a.data[i] = v} IN
  IF is = {} THEN -1 ELSE CHOOSE i \in is : \A j \in is : i <= j
wow_byte_array_replace(a, old, new) ==
  Ret0(Write(a, 0, a.size, LAMBDA i : IF a.data[i] = old THEN new ELSE a.data[i]))

\* The bytes behind the gap are moved to the start of the array, whatever idx.
wow_byte_array_remove(a, idx, n) ==
  IF ~ (idx < a.size) THEN Refused(a)
  ELSE IF a.size > n + idx
       THEN Ret0(Resized(Zero(Move(a, 0, idx + n, a.size - n), a.size - n, n), a.size - n))
       ELSE Ret0(Resized(Zero(a, idx, a.size - idx), idx))

wow_byte_array_data(a) == [k \in 1 .. a.size |-> a.data[k - 1]]
=============================================================================
