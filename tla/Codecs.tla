------------------------------- MODULE Codecs -------------------------------
(***************************************************************************)
(* The conversions of the library under one roof, each compared with an    *)
(* independent definition of what it should compute: checksums, byte       *)
(* orders, numbers in texts, packed decimals, base64, hexadecimal, string  *)
(* helpers, the growing string, the calendar, the layout and configuration *)
(* of the shared memory cache, and the node lists of IEC 104 (the          *)
(* variables of Iec104Asdu).  unit says which is looked at, in is its      *)
(* input, out is <<>> before the call and <<result>> after it.             *)
(***************************************************************************)
EXTENDS Iec104Asdu, SequencesExt

CONSTANTS LastDay,              \* days since 1970 looked at
          DEFALUT_STRING_SZIE,  \* of a new growing string
          MaxText,              \* bound on the length of one
          ROOM                  \* decimals kept by str2double: 256 in the code

VARIABLES unit, in, out
unitVars == <<unit, in, out>>

E == INSTANCE Encode
T == INSTANCE TypeConv
S == INSTANCE Strings
D == INSTANCE Calendar
H == INSTANCE ShmConfig

-----------------------------------------------------------------------------
(* Inputs *)
Strings(set, m, n) == UNION {[1 .. k -> set] : k \in m .. n}
Orders == {"be", "le"}
Bytes == {0, 1, 128, 255}

CrcInputs == {[name |-> c, data |-> d] : c \in E!Crcs, d \in Strings({0, 1, 49, 128, 255}, 0, 3)}
\* The bursts no longer than the checksum, from bit at on, of three bytes.
BurstInputs == {[name |-> c, data |-> d, at |-> at] : c \in {"crc8", "rohc", "maxim8", "xmodem", "modbus"},
                                                      d \in {<<49, 50, 51>>, <<255, 0, 128>>}, at \in 0 .. 16}
Patterns == {p \cup {0} : p \in SUBSET (1 .. 7)}

Word(k, seed) == [b \in 1 .. k |-> (seed * 37 + b * 91) % 256]
WidthOf(k) == CASE k = "short" -> 2 [] k = "long" -> 8 [] OTHER -> 4
WordInputs ==
  {[k |-> k, order |-> o, words |-> [w \in 1 .. n |-> Word(WidthOf(k), w)], room |-> r] :
     k \in {"short", "int", "long", "float"}, o \in Orders, n \in 0 .. 3, r \in {0, 7, 24}}
RegInputs == {[order |-> o, words |-> [w \in 1 .. n |-> Word(4, w)]] : o \in Orders, n \in 1 .. 2}
BitInputs == {[bytes |-> b, n |-> n] : b \in Strings({1, 6, 255}, 2, 2), n \in 9 .. 16}

\* Texts of numbers by their parts, so that what they mean is known.
Hex(s) == [base |-> 16, prefix |-> <<"0", "x">>, digits |-> s]
Bin(s) == [base |-> 2, prefix |-> <<"0", "b">>, digits |-> s]
Rep(c, n) == [k \in 1 .. n |-> c]
Dec(s, v) == [base |-> 10, prefix |-> <<>>, digits |-> s, value |-> v]
Decimals ==
  {Dec(<<"0">>, <<0, 0, 0, 0>>), Dec(<<"0", "0", "7">>, <<7, 0, 0, 0>>),
   Dec(<<"6", "5", "5", "3", "6">>, <<0, 1, 0, 0>>),
   Dec(<<"4", "2", "9", "4", "9", "6", "7", "2", "9", "6">>, <<0, 0, 1, 0>>),
   Dec(<<"1", "8", "4", "4", "6", "7", "4", "4", "0", "7", "3", "7", "0", "9", "5", "5", "1", "6", "1", "7">>,
       <<1, 0, 0, 0>>)}
Others ==
  {Hex(<<"1", "f", "A">>), Hex(<<>>), Hex(<<"0", "9">>), Hex(Rep("f", 16)), Hex(<<"a">> \o Rep("1", 17)),
   Bin(<<"1", "0", "1">>), Bin(Rep("1", 32)), Bin(Rep("1", 33))}
NumberInputs ==
  {[blank |-> b, sign |-> s, num |-> n, rest |-> r] :
     b \in {<<>>, <<" ", " ">>}, s \in {<<>>, <<"-">>, <<"+">>}, n \in Decimals \cup Others,
     r \in {<<>>, <<"z">>, <<" ", "1">>}}
NumberText(x) == x.blank \o x.sign \o x.num.prefix \o x.num.digits \o x.rest
DoubleInputs == {[sign |-> s, frac |-> f, rest |-> r] : s \in {<<>>, <<"-">>},
                   f \in Strings({"0", "5"}, 0, 6), r \in {<<>>, <<".">>, <<"e">>}}
DoubleText(x) == x.sign \o <<"0", "1", "2", ".">> \o x.frac \o x.rest

BcdInputs == {[text |-> d, room |-> r] : d \in Strings({0, 9, 10}, 0, 5), r \in 0 .. 3}
ValueInputs ==
  {[type |-> t, n |-> n, high |-> h] : t \in T!Narrow, h \in {0, 85},
     n \in {-32768, -999, -129, -128, -100, -1, 0, 1, 9, 99, 100, 127, 255, 999, 9999, 32767, 65535}}
MessageInputs == {[type |-> T!wow_data_get_type(t), n |-> n, pos |-> p] : t \in {"uint16_t", "uint32_t", "float_t", "sint8_t", "func_t"},
                    n \in 0 .. 2, p \in 0 .. 1}
Base64Inputs == {[data |-> d, room |-> r] : d \in Strings({0, 1, 77, 255}, 0, 4), r \in {3, 4, 8}}
HexInputs == {[data |-> d, room |-> r] : d \in Strings({0, 10, 161, 255}, 0, 3), r \in {0, 4, 6}}

Abc == {"a", "b", ","}
SplitInputs == Strings(Abc, 0, 5)
ReplaceInputs == {[s |-> s, pat |-> p, rep |-> r] : s \in Strings({"a", "b"}, 0, 5),
                    p \in Strings({"a", "b"}, 0, 2), r \in Strings({"a", "c"}, 0, 3)}

SizeInputs == {[n |-> n, rest |-> r] : n \in {-1, 0, 3}, r \in Strings({" ", "k", "m", "b", "x"}, 0, 4)}
ConfigInputs ==       \* one or two items out of order
  {[k \in Range(H!Items) |-> IF k = a THEN sa ELSE IF k = b THEN sb ELSE "good"] :
     a \in Range(H!Items), b \in Range(H!Items), sa \in {"good", "bad", "none"}, sb \in {"bad", "none"}}
LayoutInputs ==
  {[max_memory |-> m * H!MB + 5000, segment_size |-> s, max_key_count |-> c, max_value_size |-> v] :
     m \in {0, 1, 16, 300, 1024}, s \in {4096, 5000, 8 * H!MB, 300 * H!MB},
     c \in {1, 100, 600}, v \in {100, 70000, 3 * H!MB}}
PageInputs ==
  {[list |-> l, op |-> op, key |-> <<"a">>, offset |-> o, count |-> c] :
     l \in Strings([key : {<<"a">>, <<"b", "a">>, <<"b">>}, valid : BOOLEAN], 0, 3),
     op \in {"exact", "left", "right", "anywhere"}, o \in 0 .. 3, c \in 0 .. 2}

Input(u, set) == unit = u /\ in \in set /\ out = <<>>
AsduIdle == /\ kind = (CHOOSE k \in Kinds : TRUE) /\ tagged = FALSE /\ addr = <<>>
            /\ i = 0 /\ sent = <<>> /\ got = <<>>

CodecsInit ==
  \/ Init /\ unit = "asdu" /\ in = <<>> /\ out = <<>>
  \/ /\ AsduIdle
     /\ \/ Input("burst", BurstInputs) \/ Input("crc", CrcInputs)
        \/ Input("words", WordInputs) \/ Input("regs", RegInputs)
        \/ Input("bits", BitInputs) \/ Input("number", NumberInputs) \/ Input("double", DoubleInputs)
        \/ Input("bcd", BcdInputs) \/ Input("value", ValueInputs) \/ Input("message", MessageInputs)
        \/ Input("base64", Base64Inputs) \/ Input("hex", HexInputs)
        \/ Input("split", SplitInputs) \/ Input("replace", ReplaceInputs)
        \/ Input("day", 0 .. LastDay) \/ Input("size", SizeInputs) \/ Input("config", ConfigInputs)
        \/ Input("layout", LayoutInputs) \/ Input("page", PageInputs)
        \/ unit = "string" /\ in = <<>> /\ out = <<S!wow_string_new>>

-----------------------------------------------------------------------------
(* The calls *)
Call(u, result) ==
  /\ unit = u /\ out = <<>> /\ out' = <<result>>
  /\ UNCHANGED <<unit, in, kind, tagged, addr, i, sent, got>>

Crc == Call("crc", E!CrcOf(in.name, in.data))
Burst == Call("burst", {p \in Patterns : E!CrcOf(in.name, E!Damage(in.name, in.data, in.at, p))
                                           = E!CrcOf(in.name, in.data)})

ToChar == CASE in.k = "short" -> T!short2char(in.order, in.words, in.room)
            [] in.k = "int" -> T!int2char(in.order, in.words, in.room)
            [] in.k = "long" -> T!long2char(in.order, in.words, in.room)
            [] in.k = "float" -> T!float2char(in.order, in.words, in.room)
FromChar(d) == CASE in.k = "short" -> T!char2short(in.order, d, Len(in.words))
                 [] in.k = "int" -> T!char2int(in.order, d, Len(in.words))
                 [] in.k = "long" -> T!char2long(in.order, d, Len(in.words))
                 [] in.k = "float" -> T!char2float(in.order, d, Len(in.words))
Words == Call("words", <<ToChar, FromChar(ToChar.out)>>)
Regs ==
  LET n == Len(in.words)
      regs == T!uint32_to_uint16(in.order, in.words, 2 * n).out
      blank == [w \in 1 .. 4 * n |-> <<0, 0, 0, 0>>]
  IN  Call("regs", [regs  |-> regs,
                    ints  |-> T!uint16_to_uint32(in.order, regs, n, blank, 2 * n).out,
                    reals |-> T!uint16_to_float(in.order, regs, n, blank, 2 * n).out,
                    back  |-> T!float_to_uint16(in.order, T!uint16_to_float(in.order, regs, n, blank, 2 * n).out,
                                                n, 2 * n).out,
                    floats |-> [w \in 1 .. n |-> LET f == T!byte_swap(in.words[w])
                                                IN  <<T!byte_get_float_abcd(T!byte_set_float_abcd(f)),
                                                      T!byte_get_float_cdab(T!byte_set_float_cdab(f))>>]])
Bits == LET bits == T!bytes_to_bits(in.bytes, in.n) IN Call("bits", <<bits, T!bits_to_bytes(bits, 2)>>)
Number == LET t == NumberText(in) IN
  Call("number", [u64 |-> T!str2u64(t), u32 |-> T!StoU32(t, in.num.base), u16 |-> T!StoU16(t, in.num.base)])
Double == Call("double", T!str2double(DoubleText(in), ROOM))
Bcd == LET b == T!String2BCD(in.text, in.room) IN Call("bcd", <<b, T!BCD2String(b.out, 2 * Len(b.out))>>)
Value == LET v == T!wow_data_str_to_val(in.type, in.n, <<0, in.high>>).out
         IN  Call("value", <<v, T!wow_data_val_to_str(in.type, v).out>>)
Message ==
  LET k == T!wow_data_get_len(in.type)
      words == [w \in 1 .. in.n |-> Word(k, w)]
      d == T!wow_data_other_to_byte(in.type, words, in.n)
      dst == [w \in 1 .. 4 |-> <<>>]
  IN  Call("message", <<d, IF d.ret # 0 THEN d ELSE IF in.pos = 0 THEN T!wow_data_byte_to_other(in.type, d.out, dst)
                          ELSE T!wow_data_byte_to_other_offset(in.type, d.out, dst, in.pos)>>)
Base64 == LET t == E!wow_base64_encode(in.data, in.room)
          IN  Call("base64", <<t, IF t.ret < 0 THEN t ELSE E!wow_base64_decode(t.out, Len(in.data))>>)
HexText == LET t == E!ByteArray2HexStr(in.data, in.room)
           IN  Call("hex", <<t, E!HexStr2ByteArray(t.out, Len(t.out) \div 2), E!wow_hex_print(in.data)>>)
Split == Call("split", S!wow_str_split(in, {","}))
Replace == Call("replace", [r |-> S!wow_str_replace(in.s, in.pat, in.rep),
                            prefix |-> S!wow_str_has_prefix(in.s, in.pat),
                            suffix |-> S!wow_str_has_suffix(in.s, in.pat),
                            both |-> S!wow_str_combine(in.s, <<in.pat, S!NULL, in.rep>>)])

Msec(day) == (day * 45007) % D!DayMsec        \* some time of that day
Day ==
  LET t == <<in, Msec(in)>>  rtc == D!wow_time_msec_to_rtc(t)  cp == D!wow_time_msec_to_cp56(t)
  IN  Call("day", [rtc |-> rtc, cp |-> cp, fromRtc |-> D!wow_time_rtc_to_msec(rtc),
                   fromCp |-> D!wow_time_cp56_to_msec(cp),
                   set |-> D!wow_time_set_cp56(D!wow_time_get_cp56(D!Date(in), Msec(in))),
                   info |-> D!wow_time_set_info(D!wow_time_get_info(D!Date(in), Msec(in)))])
Size == Call("size", H!parse_bytes(in.n, in.rest))
Config == Call("config", H!shmcache_load_config(in))
Layout ==
  LET config == [in EXCEPT !.segment_size = H!SegmentSize(in.max_memory, in.segment_size)]
      l == H!shmcache_get_ht_segment_size(config)
      memory == [max_key_count |-> config.max_key_count, layout |-> l.now]
  IN  Call("layout", [config |-> config, l |-> l,
                      joined |-> {c \in {config, [config EXCEPT !.max_value_size = 4 * @]} :
                                    H!shmcache_check(memory, c)}])
Page == Call("page", H!shm_ht_to_array_ex(in.list, in.op, in.key, in.offset, in.count))

\* The growing string: in is the text a caller believes it to hold.
Grow(st, text) == /\ unit = "string" /\ Len(text) <= MaxText /\ out' = <<st>> /\ in' = text
                  /\ UNCHANGED <<unit, kind, tagged, addr, i, sent, got>>
\* Where wow_string_mid does what it says: see there.
MidSound(cap, size, k, n) ==
  \/ n = 0 \/ k >= size
  \/ size > n + k /\ 2 * n <= size /\ k + size - n <= cap
  \/ size = n + k /\ 2 * n <= cap /\ 2 * n >= size
Mid(s, k, n) == IF n = 0 \/ k >= Len(s) THEN s
                ELSE SubSeq(s, k + 1, IF k + n > Len(s) THEN Len(s) ELSE k + n)
Text ==
  /\ unit = "string"
  /\ \/ \E t \in Strings({"a", "b"}, 0, 2) : Grow(S!wow_string_append_data(out[1], t), in \o t)
     \/ \E t \in {<<>>, <<"b">>, Rep("b", 7)} : Grow(S!wow_string_append_data(out[1], t), in \o t)
     \/ LET other == S!wow_string_append_data(S!wow_string_new, <<"b">>)
        IN  Grow(S!wow_string_append_string(out[1], other), in \o <<"b">>)
     \/ \E n \in 0 .. MaxText :
          \/ Grow(S!wow_string_left(out[1], n), Mid(in, 0, n))
          \/ Grow(S!wow_string_right(out[1], n), IF n = 0 \/ n > Len(in) THEN in ELSE Mid(in, Len(in) - n, n))
          \/ \E k \in 0 .. 2 : /\ MidSound(Len(out[1].data), out[1].size, k, n)
                               /\ Grow(S!wow_string_mid(out[1], k, n), Mid(in, k, n))

Lists == unit = "asdu" /\ Next /\ UNCHANGED unitVars
Returned == unit # "asdu" /\ out # <<>> /\ UNCHANGED <<unit, in, out, kind, tagged, addr, i, sent, got>>

CodecsNext ==
  \/ Crc \/ Burst \/ Words \/ Regs \/ Bits \/ Number \/ Double \/ Bcd \/ Value \/ Message
  \/ Base64 \/ HexText \/ Split \/ Replace \/ Day \/ Size \/ Config \/ Layout \/ Page
  \/ Text \/ Lists \/ Returned

CodecsSpec == CodecsInit /\ [][CodecsNext]_<<vars, unitVars>>

-----------------------------------------------------------------------------
(* What the results should be *)
After(u) == unit = u /\ out # <<>>
Result == out[1]

\* Every checksum of wow_crc.c is the remainder that the sheet above its
\* function describes, for any data: the bitwise loops, the turned
\* polynomials and the places where bytes enter agree.
CrcIsRemainder == After("crc") => Result = E!Textbook(in.name, in.data)

\* No burst of errors up to 8 bits long, wherever it lies across the bytes,
\* leaves a checksum of wow_crc.c unchanged.
CrcCatchesBursts == After("burst") => Result = {}

\* Words written to bytes in either order (wow_type.c, wow_byte.h) are read
\* back as they were, a destination too small is refused, and registers,
\* bits and messages come back too.  A second 64-bit word is read as the
\* first one; of several words made of registers only the last one of the
\* integers survives, and the reals lie four places apart; a float written
\* in the order cdab is read with its halves swapped.
WordsRoundTrip ==
  /\ After("words") =>
       LET n == Len(in.words)  k == WidthOf(in.k)
       IN  IF in.room < n * k THEN Result[1].ret < 0
           ELSE /\ Len(Result[1].out) = n * k
                /\ Result[2].out = IF in.k = "long" THEN [w \in 1 .. n |-> in.words[1]] ELSE in.words
                /\ in.order = "be" => \A w \in 1 .. n : SubSeq(Result[1].out, (w - 1) * k + 1, w * k) = in.words[w]
  /\ After("regs") =>
       /\ Result.ints[1] = Last(in.words)
       /\ \A w \in DOMAIN in.words : Result.reals[4 * w - 3] = in.words[w]
       /\ Result.back = Result.regs
       /\ \A w \in DOMAIN in.words : LET f == in.words[w] IN Result.floats[w] = <<<<f[4], f[3], f[2], f[1]>>, <<f[2], f[1], f[4], f[3]>>>>
  /\ After("bits") => LET whole == in.n \div 8 IN
       /\ SubSeq(Result[2], 1, whole) = SubSeq(in.bytes, 1, whole)
       /\ in.n % 8 # 0 => Result[2][whole + 1] = in.bytes[whole + 1] % (2 ^ (in.n % 8))
  /\ After("message") =>
       IF in.type \in {"SINT_8", "FUNC"} THEN Result[1].ret < 0 /\ Result[2].ret < 0
       ELSE \A w \in 1 .. 4 : Result[2].out[w] =
              IF w - in.pos \in 1 .. in.n THEN Word(T!wow_data_get_len(in.type), w - in.pos) ELSE <<>>

\* A text of digits has the value its parts mean, modulo the width: the
\* limbs of a hexadecimal or binary number hold its digits in groups.
Bit(num, j) ==        \* bit j of the number
  LET b == IF num.base = 16 THEN 4 ELSE 1
      at == Len(num.digits) - j \div b
  IN  IF at < 1 THEN 0 ELSE (T!Digit(num.digits[at]) \div 2 ^ (j % b)) % 2
LimbsOf(num) ==
  IF num.base = 10 THEN num.value
  ELSE [l \in 1 .. 4 |-> FoldLeft(LAMBDA v, j : v + Bit(num, 16 * (l - 1) + j - 1) * 2 ^ (j - 1), 0, [j \in 1 .. 16 |-> j])]
\* The limbs of -x: the lowest that is not 0 is counted down from 65536, those above from 65535.
Minus(x) == [l \in 1 .. 4 |-> IF \A j \in 1 .. l - 1 : x[j] = 0 THEN (65536 - x[l]) % 65536 ELSE 65535 - x[l]]
Meant(x) == IF x.sign = <<"-">> THEN Minus(LimbsOf(x.num)) ELSE LimbsOf(x.num)
Stripped(f) == LET d == {j \in DOMAIN f : f[j] # "0"} IN IF d = {} THEN <<>> ELSE SubSeq(f, 1, CHOOSE j \in d : \A m \in d : m <= j)

\* str2u64 and its kin read signs, prefixes, leading zeros and digits up to
\* the first other character; a binary text counts in 32 bits only.
\* str2double keeps the decimals without their trailing zeros, and turns a
\* text away only if it has more decimals than it can keep.
NumberRead ==
  /\ After("number") =>
       LET low == SubSeq(Meant(in), 1, 2)
       IN  /\ Result.u64 = IF in.num.base = 2 THEN low \o <<0, 0>> ELSE Meant(in)
           /\ Result.u32 = low /\ Result.u16 = SubSeq(low, 1, 1)
  /\ After("double") =>
       LET kept == [j \in DOMAIN Stripped(in.frac) |-> T!Digit(in.frac[j])]
       IN  /\ Result.over => Len(kept) > ROOM
           /\ Result.ret = 0 =>
                /\ Result.lhs = <<12, 0, 0, 0>> /\ Result.neg = (in.sign # <<>>)
                /\ IF Len(kept) <= ROOM THEN Result.d = kept ELSE IsPrefix(Result.d, kept)

\* Digits packed by String2BCD and unpacked by BCD2String come back, a 0
\* after a single last digit; a text with another character, or too long
\* for the bytes, is refused.
DigitsPacked ==
  After("bcd") =>
    IF 2 * in.room < Len(in.text) \/ \E j \in DOMAIN in.text : in.text[j] > 9
    THEN Result[1].ret < 0
    ELSE Result[2].out = in.text \o (IF Len(in.text) % 2 = 1 THEN <<0>> ELSE <<>>)

\* A number read by wow_data_str_to_val and written by wow_data_val_to_str
\* is the same number if its type holds it and its text is shorter than the
\* buffer size of its type; for 8-bit signed values only if the byte above
\* it in the union happens to be 0 and the number is not negative.
InType(t, n) == CASE t \in {"BOOL", "UINT_8"} -> n \in 0 .. 255 [] t = "SINT_8" -> n \in -128 .. 127
                  [] t = "UINT_16" -> n \in 0 .. 65535 [] t = "SINT_16" -> n \in -32768 .. 32767
ValueRoundTrip ==
  After("value") /\
    (/\ InType(in.type, in.n)
     /\ T!Wide(in.n) < (IF in.type \in {"BOOL", "UINT_8"} THEN 3 ELSE 5)
     /\ in.type = "SINT_8" => in.high = 0 /\ in.n >= 0)
    => Result[2] = in.n

\* What wow_base64_encode writes is four characters for every three bytes
\* begun, and wow_base64_decode gives the data back.  A buffer too small is
\* refused.
Base64RoundTrip ==
  After("base64") =>
    LET need == 4 * ((Len(in.data) + 2) \div 3)
    IN  IF in.data = <<>> \/ in.room < need THEN Result[1].ret < 0
        ELSE /\ Result[1].ret = need /\ Len(Result[1].out) = need
             /\ Result[2].ret = Len(in.data) /\ Result[2].out = in.data
             /\ Len(SelectSeq(Result[1].out, LAMBDA c : c = E!PAD)) = (3 - (Len(in.data) % 3)) % 3

\* Bytes written as hexadecimal digits are read back, and wow_hex_print
\* writes exactly the 3 n + 1 bytes it allocated.
HexRoundTrip ==
  After("hex") => /\ IF in.room < 2 * Len(in.data) THEN Result[1].ret < 0 ELSE Result[2].out = in.data
                  /\ Len(Result[3]) = 3 * Len(in.data) + 1

\* Joining the fields of wow_str_split with the delimiter gives the text
\* back.  wow_str_replace returns, for a text and a pattern that are not
\* empty, the text with every occurrence replaced from left to right, and
\* stays within its buffer.
Occurs(s, p, k) == k + Len(p) - 1 <= Len(s) /\ SubSeq(s, k, k + Len(p) - 1) = p
\* The places where a replacement starts.
Starts(s, p) == FoldLeft(LAMBDA a, k : IF Occurs(s, p, k) /\ \A b \in a : b + Len(p) <= k THEN a \cup {k} ELSE a,
                         {}, [k \in DOMAIN s |-> k])
Substituted(s, p, r) ==
  LET st == Starts(s, p)
      piece(k) == IF k \in st THEN r
                  ELSE IF \E b \in st : k \in b .. b + Len(p) - 1 THEN <<>> ELSE <<s[k]>>
  IN  FlattenSeq([k \in DOMAIN s |-> piece(k)])
TextsHandled ==
  /\ After("split") =>
       /\ \A f \in Range(Result) : "," \notin Range(f)
       /\ FoldLeft(LAMBDA t, f : t \o <<",">> \o f, Head(Result), Tail(Result)) = in
  /\ After("replace") =>
       /\ Result.r.fits
       /\ Result.r.hang <=> in.s = <<>> \/ in.pat = <<>>
       /\ ~Result.r.hang => Result.r.str = Substituted(in.s, in.pat, in.rep)
       /\ Result.prefix = IsPrefix(in.pat, in.s) /\ Result.suffix = IsSuffix(in.pat, in.s)
       /\ Result.both.ok => Result.both.str = in.s \o in.pat \o in.rep

\* The growing string of wow_string.c always holds the text that the calls
\* made, followed by a 0, within its buffer.
StringIsText ==
  unit = "string" =>
    LET st == out[1]
    IN  /\ st.ok /\ st.size = Len(in)
        /\ ~S!wow_string_data(st).open /\ S!wow_string_data(st).str = in
        /\ \A t \in Strings({"a", "b"}, 0, 1) :
             /\ S!wow_string_cmp(st, t) <=> IsPrefix(t, in)
             /\ Len(t) < Len(in) => (S!wow_string_str(st, t) # 0 <=> S!Strstr(in, t) # 0)

\* The date of the day after is the next day of the calendar, for every day
\* up to LastDay; a date and time of day convert back to the same
\* milliseconds, until the years whose seconds overflow an int; a clock set
\* from a time that was read shows that time without its milliseconds.
MonthDays(y, m) == IF m = 2 THEN IF D!rtc_data_leap(y) THEN 29 ELSE 28 ELSE IF m \in {4, 6, 9, 11} THEN 30 ELSE 31
NextDay(y, m, d) ==
  IF d < MonthDays(y, m) THEN <<y, m, d + 1>> ELSE IF m < 12 THEN <<y, m + 1, 1>> ELSE <<y + 1, 1, 1>>
CalendarWalks ==
  After("day") =>
    LET r == Result.rtc  n == D!wow_time_msec_to_rtc(<<in + 1, 0>>)  t == <<in, Msec(in)>>
        clock == <<r.year, r.mon, r.day, r.hour, r.min, r.sec>>
    IN  /\ in = 0 => <<r.year, r.mon, r.day>> = <<1970, 1, 1>>
        /\ <<n.year, n.mon, n.day>> = NextDay(r.year, r.mon, r.day)
        /\ Result.fromRtc = IF r.year <= 2038 THEN t ELSE D!Undefined
        /\ r.year >= 2000 => Result.fromCp = IF r.year <= 2038 THEN t ELSE D!Undefined
        /\ LET x == Result.set IN r.year >= 2000 => <<x.year, x.mon, x.day, x.hour, x.min, x.sec>> = clock
        /\ LET x == Result.info IN <<x.year, x.mon, x.day, x.hour, x.min, x.sec>> = clock

\* The layout of the shared memory: at most 255 segments; a striping is
\* whole within its segment and holds two of the largest values or all of
\* the segment; the areas of the first segment, laid out for the first count
\* of stripings, hold the final count; and the segment just laid out passes
\* the check of the next process to open it with the same configuration, but
\* not with one that needs other stripings.  A memory too small for the
\* first segment gives a count that is not positive and is left out.
LayoutSound ==
  After("layout") =>
    LET l == Result.l  seg == l.now.segment  str == l.now.striping
    IN  /\ seg.max <= 255
        /\ str.size <= seg.size /\ str.size % H!PageSize = 0
        /\ str.size < 2 * Result.config.max_value_size => str.size = seg.size
        /\ l.buckets < l.htq /\ l.htq < l.doing
        /\ l.done - l.doing >= H!OffsetSize * (str.max + 1)
        /\ l.total - l.objects >= H!AllocatorSize * str.max
        /\ l.total <= in.max_memory => str.max >= 1
        /\ Result.joined = {c \in {Result.config, [Result.config EXCEPT !.max_value_size = 4 * @]} :
                              H!shmcache_get_ht_segment_size(c).now = l.now}

\* A size is a number, blanks, a unit with an optional b, blanks; anything
\* else is refused.  A complete file loads, one with a bad item that matters
\* does not, and one without log_level fails although everything was read.
ConfigJudged ==
  /\ After("size") =>
       LET units == {<<>>} \cup {<<u>> \o b : u \in {"k", "m"}, b \in {<<>>, <<"b">>}}
           good == {x \o u \o y : x \in {Rep(" ", k) : k \in 0 .. 4}, u \in units, y \in {Rep(" ", k) : k \in 0 .. 4}}
       IN  Result.ok <=> in.n >= 0 /\ in.rest \in good
  /\ After("config") =>
       LET ill == {k \in Range(H!Items) : in[k] # "good"}
       IN  /\ ill = {} => Result = {"ok"}
           /\ ill = {"log_level"} /\ in["log_level"] = "none" => Result = {"error"}
           /\ ill # {} /\ (\A k \in ill : in[k] = "bad" /\ k \notin {"min_memory", "recycle_key_once", "log_level"})
                => Result = {"error"}

\* A page of keys is that part of the list of the valid, matching keys, and
\* the entries allocated for it are enough.
PageIsPart ==
  After("page") =>
    LET ok(e) == e.valid /\ (CASE in.op = "exact" -> e.key = in.key
                               [] in.op = "left" -> IsPrefix(in.key, e.key)
                               [] in.op = "right" -> IsSuffix(in.key, e.key)
                               [] in.op = "anywhere" -> in.key[1] \in Range(e.key))
        all == SelectSeq(in.list, ok)
    IN  Result = SubSeq(all, in.offset + 1, IF in.count = 0 THEN Len(all)
                                            ELSE IF in.offset + in.count < Len(all) THEN in.offset + in.count ELSE Len(all))
-----------------------------------------------------------------------------
\* The binary encodings: the checksums detect what they promise to, and
\* words, digits, base64 and hexadecimal texts come back as they went in.
CodesFaithful ==
  CrcIsRemainder /\ CrcCatchesBursts /\ WordsRoundTrip /\ DigitsPacked /\ Base64RoundTrip /\ HexRoundTrip

\* Numbers, texts and dates are read and written for what they mean, within
\* the buffers they are given, up to the edges of their types.
TextsFaithful == NumberRead /\ ValueRoundTrip /\ TextsHandled /\ StringIsText /\ CalendarWalks

\* The cache is laid out within its memory whatever the configuration says,
\* a configuration is accepted only if it is one, and its pages are parts.
CacheLaidOut == LayoutSound /\ ConfigJudged /\ PageIsPart
=============================================================================
