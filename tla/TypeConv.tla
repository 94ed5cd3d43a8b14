------------------------------ MODULE TypeConv ------------------------------
(***************************************************************************)
(* The conversions of wow_type.c, with the byte order primitives of        *)
(* wow_byte.h, and of the protocol data of wow_proto_data.c.               *)
(*                                                                         *)
(* A word of k bytes is the sequence of its bytes, highest first, so that  *)
(* 64 bits and the bits of a float fit; order is "be" or "le" for the      *)
(* functions of that suffix and the order of the host for the others.  A   *)
(* text is a sequence of characters.  A function that turns its arguments  *)
(* away returns ret # 0 and leaves out empty.                              *)
(***************************************************************************)
LOCAL INSTANCE Integers
LOCAL INSTANCE Sequences
LOCAL INSTANCE SequencesExt

Ok(out) == [ret |-> 0, out |-> out]
Fail(code) == [ret |-> code, out |-> <<>>]

\* byte_set_u16_le .. byte_set_u64_be and byte_get_16_le_impl .. byte_get_64_be_impl
\* at place p (from 0).
byte_set(order, word) == IF order = "be" THEN word ELSE Reverse(word)
byte_get(order, k, d, p) ==
  LET b == SubSeq(d, p + 1, p + k) IN IF order = "be" THEN b ELSE Reverse(b)

\* byte_swap_u16, _u32 and _u64.
byte_swap(word) == Reverse(word)

\* The two orders of a float in four bytes: cdab reads the halves swapped,
\* but its counterpart writes them unswapped.
byte_get_float_abcd(p) == p
byte_get_float_cdab(p) == <<p[3], p[4], p[1], p[2]>>
byte_set_float_abcd(f) == f
byte_set_float_cdab(f) == f

Bit(n, j) == (n \div 2 ^ j) % 2
bytes_to_bits(bytes, nBitLen) ==
  [k \in 1 .. nBitLen |-> Bit(bytes[(k - 1) \div 8 + 1], (k - 1) % 8)]
bits_to_bytes(bits, nByteLen) ==
  [i \in 1 .. nByteLen |->
     FoldLeft(LAMBDA v, j : IF 8 * (i - 1) + j <= Len(bits) /\ bits[8 * (i - 1) + j] # 0
                            THEN v + 2 ^ (j - 1) ELSE v, 0, <<1, 2, 3, 4, 5, 6, 7, 8>>)]

-----------------------------------------------------------------------------
(* Arrays of words to bytes and back *)
ToBytes(k, order, words, nDlen) ==
  IF nDlen < k * Len(words) THEN Fail(-1)
  ELSE Ok(FlattenSeq([i \in DOMAIN words |-> byte_set(order, words[i])]))
FromBytes(k, order, d, nDlen) ==
  IF nDlen < Len(d) \div k THEN Fail(-1)
  ELSE Ok([i \in 1 .. Len(d) \div k |-> byte_get(order, k, d, k * (i - 1))])

short2char(order, words, nDlen) == ToBytes(2, order, words, nDlen)
char2short(order, d, nDlen) == FromBytes(2, order, d, nDlen)
int2char(order, words, nDlen) == ToBytes(4, order, words, nDlen)
char2int(order, d, nDlen) == FromBytes(4, order, d, nDlen)
long2char(order, words, nDlen) == ToBytes(8, order, words, nDlen)
\* Every element is read from the start of the data.
char2long(order, d, nDlen) ==
  IF nDlen < Len(d) \div 8 THEN Fail(-1)
  ELSE Ok([i \in 1 .. Len(d) \div 8 |-> byte_get(order, 8, d, 0)])
float2char(order, words, nDlen) == ToBytes(4, order, words, nDlen)
char2float(order, d, nDlen) == FromBytes(4, order, d, nDlen)

(* Registers: a word of four bytes as two of two.  A half is a pair of     *)
(* bytes; dst is what the destination held before.                         *)
Join(order, a, b) == IF order = "be" THEN a \o b ELSE b \o a
Halves(order, w) ==
  LET hi == SubSeq(w, 1, 2)  lo == SubSeq(w, 3, 4) IN IF order = "be" THEN <<hi, lo>> ELSE <<lo, hi>>
Stored(dst, i, w) == [k \in DOMAIN dst |-> IF k = i THEN w ELSE dst[k]]

uint32_to_uint16(order, words, nDlen) ==
  IF nDlen < 2 * Len(words) THEN Fail(-1)
  ELSE Ok(FlattenSeq([i \in DOMAIN words |-> Halves(order, words[i])]))
\* sDlen words are read, each stored into the first element.
uint16_to_uint32(order, regs, sDlen, dst, nDlen) ==
  IF nDlen < 2 * sDlen THEN Fail(-1)
  ELSE Ok(FoldLeft(LAMBDA o, i : Stored(o, 1, Join(order, regs[2 * i - 1], regs[2 * i])),
                   dst, [i \in 1 .. sDlen |-> i]))
\* Element i is taken from and stored to place 4 i: sizeof(float) on top of
\* the scaling of the pointer.
uint16_to_float(order, regs, sDlen, dst, nDlen) ==
  IF nDlen < 2 * sDlen THEN Fail(-1)
  ELSE Ok(FoldLeft(LAMBDA o, i : Stored(o, 4 * (i - 1) + 1, Join(order, regs[2 * i - 1], regs[2 * i])),
                   dst, [i \in 1 .. sDlen |-> i]))
float_to_uint16(order, words, sDlen, nDlen) ==
  IF nDlen < 2 * sDlen THEN Fail(-1)
  ELSE Ok(FlattenSeq([i \in 1 .. sDlen |-> Halves(order, words[4 * (i - 1) + 1])]))

-----------------------------------------------------------------------------
(* Numbers in texts.  A number of 16 n bits is the sequence of its n limbs *)
(* of 16 bits, lowest first.                                               *)
Digits == <<"0", "1", "2", "3", "4", "5", "6", "7", "8", "9", "a", "b", "c", "d", "e", "f">>
Upper == <<"0", "1", "2", "3", "4", "5", "6", "7", "8", "9", "A", "B", "C", "D", "E", "F">>
IsDigit(base, c) == \E i \in 1 .. base : c \in {Digits[i], Upper[i]}
Digit(c) == (CHOOSE i \in 1 .. 16 : c \in {Digits[i], Upper[i]}) - 1
From(s, k) == SubSeq(s, k, Len(s))
At(s, k) == IF k \in DOMAIN s THEN s[k] ELSE "end"
Skip(s, cs) == LET k == SelectInSeq(s, LAMBDA c : c \notin cs) IN IF k = 0 THEN <<>> ELSE From(s, k)

\* val * base + digit in n limbs, carries dropped at the top.
MulAdd(val, base, digit) ==
  FoldLeft(LAMBDA a, i : LET t == val[i] * base + a.c
                         IN  [v |-> Append(a.v, t % 65536), c |-> t \div 65536],
           [v |-> <<>>, c |-> digit], [i \in DOMAIN val |-> i]).v
\* ~val + 1.
Negate(val) == MulAdd([i \in DOMAIN val |-> 65535 - val[i]], 1, 1)

\* White space, a sign, a prefix of "0" and a letter, leading zeros; then
\* digits up to the first character that is none.
Parse(s, base, letters, limbs) ==
  LET t == Skip(s, {" "})
      u == IF At(t, 1) \in {"-", "+"} THEN Tail(t) ELSE t
      v == IF At(u, 1) = "0" /\ At(u, 2) \in letters THEN From(u, 3) ELSE u
      w == Skip(v, {"0"})
      n == SelectInSeq(w, LAMBDA c : ~IsDigit(base, c))
      ds == IF n = 0 THEN w ELSE SubSeq(w, 1, n - 1)
      val == FoldLeft(LAMBDA a, c : MulAdd(a, base, Digit(c)), [i \in 1 .. limbs |-> 0], ds)
  IN  IF At(t, 1) = "-" THEN Negate(val) ELSE val

\* _S2toU64 counts in 32 bits and widens the result.
S2toU64(s) == Parse(s, 2, {"b", "B"}, 2) \o <<0, 0>>
S10toU64(s) == Parse(s, 10, {}, 4)
S16toU64(s) == Parse(s, 16, {"x", "X"}, 4)
\* The 32 and 16 bit functions cut the result of the 64 bit ones off.
Cut(val, n) == SubSeq(val, 1, n)
StoU32(s, base) == Cut(CASE base = 2 -> S2toU64(s) [] base = 10 -> S10toU64(s) [] base = 16 -> S16toU64(s), 2)
StoU16(s, base) == Cut(CASE base = 2 -> S2toU64(s) [] base = 10 -> S10toU64(s) [] base = 16 -> S16toU64(s), 1)

str2u64(s) ==
  LET t == Skip(s, {" "})
      u == IF At(t, 1) \in {"-", "+"} THEN Tail(t) ELSE t
  IN  IF At(u, 1) = "0" /\ At(u, 2) \in {"x", "X"} THEN S16toU64(s)
      ELSE IF At(u, 1) = "0" /\ At(u, 2) \in {"b", "B"} THEN S2toU64(s) ELSE S10toU64(s)

\* str2double up to the floating point arithmetic: the sign, the integer
\* part and the decimals kept.  Zeros are held back until a digit follows
\* them, so trailing zeros are dropped.  room is what decimals holds; over
\* says that the zeros filled in ran past it.
str2double(s, room) ==
  LET t == Skip(s, {" "})
      u == Skip(IF At(t, 1) \in {"-", "+"} THEN Tail(t) ELSE t, {"0"})
      step(a, c) ==
        IF a.stop THEN a
        ELSE IF c = "." THEN IF a.dec THEN [a EXCEPT !.stop = TRUE] ELSE [a EXCEPT !.dec = TRUE]
        ELSE IF ~IsDigit(10, c) THEN [a EXCEPT !.stop = TRUE]
        ELSE IF ~a.dec THEN [a EXCEPT !.lhs = MulAdd(a.lhs, 10, Digit(c))]
        ELSE IF Len(a.d) >= room THEN a
        ELSE IF c = "0" THEN [a EXCEPT !.zeros = a.zeros + 1]
        ELSE [a EXCEPT !.d = a.d \o [i \in 1 .. a.zeros |-> 0] \o <<Digit(c)>>, !.zeros = 0]
      r == FoldLeft(step, [lhs |-> <<0, 0, 0, 0>>, d |-> <<>>, zeros |-> 0, dec |-> FALSE, stop |-> FALSE], u)
  IN  IF Len(r.d) > room THEN [ret |-> -1, over |-> TRUE, neg |-> FALSE, lhs |-> r.lhs, d |-> <<>>]
      ELSE [ret |-> 0, over |-> FALSE, neg |-> At(t, 1) = "-", lhs |-> r.lhs, d |-> r.d]

-----------------------------------------------------------------------------
(* Packed decimal digits.  A byte is a pair of nibbles; a character that   *)
(* is no decimal digit is any other number.                                *)
BCD2String(bcd, nStrLen) ==
  IF 2 * Len(bcd) > nStrLen THEN Fail(-2)
  ELSE LET ns == FlattenSeq(bcd)
           f == SelectInSeq(ns, LAMBDA n : n = 15)
           ds == IF f = 0 THEN ns ELSE SubSeq(ns, 1, f - 1)
       IN  IF \E i \in DOMAIN ds : ds[i] > 9 THEN Fail(-1) ELSE Ok(ds)
\* The low nibble of a last, single digit is 0.
String2BCD(str, nBcdLen) ==
  IF 2 * nBcdLen < Len(str) THEN Fail(-2)
  ELSE IF \E i \in DOMAIN str : str[i] \notin 0 .. 9 THEN Fail(-1)
  ELSE Ok([i \in 1 .. (Len(str) + 1) \div 2 |->
             <<str[2 * i - 1], IF 2 * i <= Len(str) THEN str[2 * i] ELSE 0>>])

-----------------------------------------------------------------------------
(* Values of the protocols *)
Names == [bool_t |-> "BOOL", sint8_t |-> "SINT_8", sint16_t |-> "SINT_16", sint32_t |-> "SINT_32",
          sint64_t |-> "SINT_64", uint8_t |-> "UINT_8", uint16_t |-> "UINT_16", uint32_t |-> "UINT_32",
          uint64_t |-> "UINT_64", float_t |-> "FLOAT", double_t |-> "DOUBLE", func_t |-> "FUNC"]
\* The hash of a name is compared, not the name.
wow_data_get_type(name) == IF name \in DOMAIN Names THEN Names[name] ELSE "MAX"

INVALID == 1        \* PARAM_INPUT_ARG_INVALID, returned without its sign
wow_data_get_len(type) ==
  CASE type \in {"BOOL", "UINT_8", "SINT_8"} -> 1
    [] type \in {"UINT_16", "SINT_16"} -> 2
    [] type \in {"UINT_32", "SINT_32", "FLOAT"} -> 4
    [] type \in {"UINT_64", "SINT_64", "DOUBLE"} -> 8
    [] OTHER -> INVALID

\* The union DevValue_U, for the types of one and two bytes: its two low
\* bytes, on a host of low byte first.
Signed(n, w) == IF n >= 2 ^ (w - 1) THEN n - 2 ^ w ELSE n
Narrow == {"BOOL", "UINT_8", "SINT_8", "UINT_16", "SINT_16"}
wow_data_str_to_val(type, n, val) ==
  CASE type \in {"BOOL", "UINT_8", "SINT_8"} -> Ok(<<n % 256, val[2]>>)
    [] type \in {"UINT_16", "SINT_16"} -> Ok(<<n % 256, (n \div 256) % 256>>)
    [] OTHER -> Fail(INVALID)

\* The text of a number that snprintf may write size - 1 characters of, as
\* the number read back from it.
Wide10(n) == IF n < 10 THEN 1 ELSE IF n < 100 THEN 2 ELSE IF n < 1000 THEN 3 ELSE IF n < 10000 THEN 4 ELSE 5
Wide(n) == IF n < 0 THEN 1 + Wide10(-n) ELSE Wide10(n)
Printed(n, size) ==
  LET cut == Wide(n) - (size - 1)
  IN  IF cut <= 0 THEN n ELSE IF n < 0 THEN -((-n) \div 10 ^ cut) ELSE n \div 10 ^ cut
\* The case of an 8-bit signed value runs on into that of a 16-bit one.
wow_data_val_to_str(type, val) ==
  LET u16 == val[1] + 256 * val[2]
  IN  CASE type \in {"BOOL", "UINT_8"} -> Ok(Printed(val[1], 3))
        [] type \in {"SINT_8", "UINT_16"} -> Ok(Printed(u16, 5))
        [] type = "SINT_16" -> Ok(Printed(Signed(u16, 16), 5))
        [] OTHER -> Fail(INVALID)

\* Bytes of a message to words and back, at place nPos of the array.
wow_data_byte_to_other_offset(type, d, dst, nPos) ==
  LET k == wow_data_get_len(type)
      words == FromBytes(k, "be", d, Len(d) \div k).out
  IN  IF type = "FUNC" THEN Fail(-INVALID)
      ELSE IF type \notin {"UINT_16", "UINT_32", "FLOAT"} THEN Fail(-3)
      ELSE Ok([i \in DOMAIN dst |-> IF i \in nPos + 1 .. nPos + Len(words) THEN words[i - nPos] ELSE dst[i]])
wow_data_byte_to_other(type, d, dst) == wow_data_byte_to_other_offset(type, d, dst, 0)
wow_data_other_to_byte_offset(type, words, nPos, nBulk) ==
  IF type = "FUNC" THEN Fail(-INVALID)
  ELSE IF type \notin {"UINT_16", "UINT_32", "FLOAT"} THEN Fail(-3)
  ELSE ToBytes(wow_data_get_len(type), "be", SubSeq(words, nPos + 1, nPos + nBulk),
               nBulk * wow_data_get_len(type))
wow_data_other_to_byte(type, words, nBulk) == wow_data_other_to_byte_offset(type, words, 0, nBulk)
=============================================================================
