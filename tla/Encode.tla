------------------------------- MODULE Encode -------------------------------
(***************************************************************************)
(* The checksums of wow_crc.c.  A word is the set of the numbers of its    *)
(* bits that are 1, so that exclusive or is the symmetric difference and   *)
(* 32 bits fit.  A byte of the data is a number below 256.                 *)
(***************************************************************************)
LOCAL INSTANCE Integers
LOCAL INSTANCE Sequences
LOCAL INSTANCE SequencesExt

Xor(a, b) == (a \ b) \cup (b \ a)
Bits(n) == {i \in 0 .. 15 : (n \div 2 ^ i) % 2 = 1}
Bits32(hi, lo) == Bits(lo) \cup {i + 16 : i \in Bits(hi)}
Ones(w) == 0 .. w - 1

\* InvertUint8, InvertUint16 and InvertUint32: the order of the w bits turned round.
Invert(w, word) == {w - 1 - i : i \in word}

\* One turn of the inner loop, to the left with the polynomial as written
\* and to the right with its inverse.
ShiftLeft(w, poly, crc) ==
  LET s == {i + 1 : i \in crc \ {w - 1}} IN IF w - 1 \in crc THEN Xor(s, poly) ELSE s
\* Variant: the bit is tested after the shift.
ShiftRightLate(w, poly, crc) ==
  LET s == {i - 1 : i \in crc \ {0}} IN IF 0 \in s THEN Xor(s, poly) ELSE s
ShiftRight(w, poly, crc) ==
  LET s == {i - 1 : i \in crc \ {0}} IN IF 0 \in crc THEN Xor(s, poly) ELSE s

Eight(Step(_), crc) == Step(Step(Step(Step(Step(Step(Step(Step(crc))))))))

\* The loops over the data.
Straight(w, poly, init, data) ==
  FoldLeft(LAMBDA crc, b : Eight(LAMBDA c : ShiftLeft(w, poly, c),
                                 Xor(crc, {i + w - 8 : i \in Bits(b)})), init, data)
Reflected(w, poly, init, data) ==
  LET p == Invert(w, poly)
  IN  FoldLeft(LAMBDA crc, b : Eight(LAMBDA c : ShiftRight(w, p, c), Xor(crc, Bits(b))), init, data)

wow_crc8(d) == Straight(8, Bits(7), {}, d)
wow_crc8_itu(d) == Xor(Straight(8, Bits(7), {}, d), Bits(85))
wow_crc8_rohc(d) == Reflected(8, Bits(7), Ones(8), d)
wow_crc8_maxim(d) == Reflected(8, Bits(49), {}, d)
wow_crc16_ccitt(d) == Reflected(16, Bits(4129), {}, d)
wow_crc16_xmodem(d) == Straight(16, Bits(4129), {}, d)
wow_crc16_x25(d) == Xor(Reflected(16, Bits(4129), Ones(16), d), Ones(16))
wow_crc16_modbus(d) == Reflected(16, Bits(32773), Ones(16), d)
wow_crc16_ibm(d) == Reflected(16, Bits(32773), {}, d)
wow_crc16_maxim(d) == Xor(Reflected(16, Bits(32773), {}, d), Ones(16))
wow_crc16_usb(d) == Xor(Reflected(16, Bits(32773), Ones(16), d), Ones(16))
wow_crc16_dnp(d) == Xor(Reflected(16, Bits(15717), {}, d), Ones(16))
wow_crc32(d) == Xor(Reflected(32, Bits32(1217, 7607), Ones(32), d), Ones(32))
wow_crc32_mpeg(d) == Straight(32, Bits32(1217, 7607), Ones(32), d)

\* The function of each name.
Crcs == {"crc8", "itu", "rohc", "maxim8", "ccitt", "xmodem", "x25", "modbus",
         "ibm", "maxim16", "usb", "dnp", "crc32", "mpeg"}
CrcOf(name, d) ==
  CASE name = "crc8" -> wow_crc8(d) [] name = "itu" -> wow_crc8_itu(d)
    [] name = "rohc" -> wow_crc8_rohc(d) [] name = "maxim8" -> wow_crc8_maxim(d)
    [] name = "ccitt" -> wow_crc16_ccitt(d) [] name = "xmodem" -> wow_crc16_xmodem(d)
    [] name = "x25" -> wow_crc16_x25(d) [] name = "modbus" -> wow_crc16_modbus(d)
    [] name = "ibm" -> wow_crc16_ibm(d) [] name = "maxim16" -> wow_crc16_maxim(d)
    [] name = "usb" -> wow_crc16_usb(d) [] name = "dnp" -> wow_crc16_dnp(d)
    [] name = "crc32" -> wow_crc32(d) [] name = "mpeg" -> wow_crc32_mpeg(d)

-----------------------------------------------------------------------------
(* What the sheets above the functions say: the exponents of the           *)
(* polynomial, the start value, whether bytes and result are reflected,    *)
(* the final exclusive or.                                                 *)
X8 == {8, 2, 1, 0}
X16 == {16, 12, 5, 0}
X16Ibm == {16, 15, 2, 0}
X32 == {32, 26, 23, 22, 16, 12, 11, 10, 8, 7, 5, 4, 2, 1, 0}
Sheet(p, init, ref, out) == [poly |-> p, init |-> init, ref |-> ref, out |-> out]
SheetOf(name) ==
  CASE name = "crc8" -> Sheet(X8, {}, FALSE, {})
    [] name = "itu" -> Sheet(X8, {}, FALSE, {0, 2, 4, 6})
    [] name = "rohc" -> Sheet(X8, Ones(8), TRUE, {})
    [] name = "maxim8" -> Sheet({8, 5, 4, 0}, {}, TRUE, {})
    [] name = "ccitt" -> Sheet(X16, {}, TRUE, {})
    [] name = "xmodem" -> Sheet(X16, {}, FALSE, {})
    [] name = "x25" -> Sheet(X16, Ones(16), TRUE, Ones(16))
    [] name = "modbus" -> Sheet(X16Ibm, Ones(16), TRUE, {})
    [] name = "ibm" -> Sheet(X16Ibm, {}, TRUE, {})
    [] name = "maxim16" -> Sheet(X16Ibm, {}, TRUE, Ones(16))
    [] name = "usb" -> Sheet(X16Ibm, Ones(16), TRUE, Ones(16))
    [] name = "dnp" -> Sheet({16, 13, 12, 11, 10, 8, 6, 5, 2, 0}, {}, TRUE, Ones(16))
    [] name = "crc32" -> Sheet(X32, Ones(32), TRUE, Ones(32))
    [] name = "mpeg" -> Sheet(X32, Ones(32), FALSE, {})
Width(name) == CHOOSE w \in SheetOf(name).poly : \A i \in SheetOf(name).poly : i <= w

\* The remainder of a polynomial (a set of exponents up to top) by another
\* of degree w.
Remainder(a, p, w, top) ==
  FoldLeft(LAMBDA r, k : LET i == top - k + 1
                         IN  IF i >= w /\ i \in r THEN Xor(r, {e + i - w : e \in p}) ELSE r,
           a, [k \in 1 .. top + 1 |-> k])

\* The textbook checksum: the data as a polynomial, first byte first, times
\* x^w, with the start value in front, modulo the polynomial.
Textbook(name, d) ==
  LET s == SheetOf(name)  w == Width(name)  n == 8 * Len(d)
      byte(b) == IF s.ref THEN Invert(8, Bits(b)) ELSE Bits(b)
      msg == UNION {{8 * (Len(d) - k) + i + w : i \in byte(d[k])} : k \in DOMAIN d}
      r == Remainder(Xor(msg, {i + n : i \in s.init}), s.poly, w, n + w)
  IN  Xor(IF s.ref THEN Invert(w, r) ELSE r, s.out)

\* The data with a burst of errors: bits as sent (first of the byte first)
\* from bit k on changed where the pattern says.
Damage(name, d, k, pattern) ==
  [i \in DOMAIN d |->
     LET hit == {x - 8 * (i - 1) : x \in {k + p : p \in pattern} \cap 8 * (i - 1) .. 8 * i - 1}
         bits == Xor(Bits(d[i]), IF SheetOf(name).ref THEN hit ELSE Invert(8, hit))
     IN  FoldLeft(LAMBDA v, j : IF j \in bits THEN v + 2 ^ j ELSE v, 0, <<0, 1, 2, 3, 4, 5, 6, 7>>)]

-----------------------------------------------------------------------------
(***************************************************************************)
(* Base64 (wow_base64.c) and hexadecimal texts (wow_hex.c).  A character   *)
(* of a base64 text is its place in the encoding table, PAD for '=' or     *)
(* ALIEN for any character outside the table; a character of a hexadecimal *)
(* text is the value of its digit or ALIEN.                                *)
(***************************************************************************)

PAD == 64
ALIEN == 65
Fail == [ret |-> -1, out |-> <<>>]

At(d, k) == IF k \in DOMAIN d THEN d[k] ELSE 0
g_modTable == <<0, 2, 1>>
g_decodingTable(c) == IF c < 64 THEN c ELSE 0

Sextets(d, k) ==        \* the four characters of the triple at byte k
  LET triple == At(d, k) * 65536 + At(d, k + 1) * 256 + At(d, k + 2)
  IN  <<triple \div 262144, (triple \div 4096) % 64, (triple \div 64) % 64, triple % 64>>

wow_base64_encode(d, u32Olen) ==
  LET len == 4 * ((Len(d) + 2) \div 3)
      text == FlattenSeq([t \in 1 .. len \div 4 |-> Sextets(d, 3 * t - 2)])
      pads == g_modTable[(Len(d) % 3) + 1]
  IN  IF d = <<>> \/ u32Olen < len THEN Fail
      ELSE [ret |-> len, out |-> [j \in 1 .. len |-> IF j > len - pads THEN PAD ELSE text[j]]]

\* A character outside the table counts as 0, as padding does wherever it stands.
wow_base64_decode(text, u32Olen) ==
  LET n == Len(text)
      len == (n \div 4) * 3 - (IF text[n] = PAD THEN 1 ELSE 0) - (IF text[n - 1] = PAD THEN 1 ELSE 0)
      triple(t) == LET s(k) == g_decodingTable(text[4 * (t - 1) + k])
                   IN  s(1) * 262144 + s(2) * 4096 + s(3) * 64 + s(4)
      octets(t) == <<triple(t) \div 65536, (triple(t) \div 256) % 256, triple(t) % 256>>
  IN  IF n = 0 \/ n % 4 # 0 \/ u32Olen = 0 \/ u32Olen < len THEN Fail
      ELSE [ret |-> len, out |-> SubSeq(FlattenSeq([t \in 1 .. n \div 4 |-> octets(t)]), 1, len)]

-----------------------------------------------------------------------------
ByteArray2HexStr(d, snOlen) ==
  IF snOlen < 2 * Len(d) THEN Fail
  ELSE [ret |-> 0, out |-> FlattenSeq([i \in DOMAIN d |-> <<d[i] \div 16, d[i] % 16>>])]

\* The last character of a text of odd length is not looked at.
HexStr2ByteArray(text, snOlen) ==
  IF snOlen < Len(text) \div 2 THEN Fail
  ELSE IF \E i \in 1 .. 2 * (Len(text) \div 2) : text[i] = ALIEN THEN Fail
  ELSE [ret |-> 0, out |-> [i \in 1 .. Len(text) \div 2 |-> text[2 * i - 1] * 16 + text[2 * i]]]

\* What wow_hex_print puts out, in a buffer of 3 nLen + 1 bytes: two digits
\* and a blank for every byte, then the end.
BLANK == 66
NUL == 67
wow_hex_print(d) ==
  FlattenSeq([i \in DOMAIN d |-> <<d[i] \div 16, d[i] % 16, BLANK>>]) \o <<NUL>>
-----------------------------------------------------------------------------
(* The calls of wow_rsa.c, step by step.  What mbedtls computes is left    *)
(* out: a step succeeds or fails.  A program is the body and what its      *)
(* label exit frees; a step that fails goes to exit, returns at once, or   *)
(* is passed over ("go": its result is kept, "lost": it is not).           *)

Doing(do, name, res, fail) == [do |-> do, name |-> name, res |-> res, fail |-> fail]
Prepare(res) == <<Doing("init", "", res, "")>>
Try(name, fail) == <<Doing("try", name, {}, fail)>>
Open(name, fail) == <<Doing("try", name, {name}, fail)>>      \* holds the file when it succeeds
Never(name) == <<Doing("never", name, {}, "exit")>>           \* fails whatever it is given
Close(name) == <<Doing("free", "", {name}, "")>>
Times(n, step) == FlattenSeq([i \in 1 .. n |-> step])
Program(body, exit) == [body |-> body, exit |-> exit]

Rnd == {"drbg", "entropy"}
Param == Try("param", "return")
Parse == Open("pk", "return")                                \* mbedtls_pk_parse_*: the key, in a block of its own
Seed == Try("seed", "exit")
\* The numbers of a key, from its file; a read that fails leaves the file open.
ReadKey(n) == Times(n, Try("read", "exit")) \o Close("key")
Complete == Try("import", "exit") \o Try("complete", "exit") \o Try("check", "exit")
Signature == Try("hash", "exit") \o Try("sign", "exit") \o Open("sig", "exit") \o Close("sig")
\* The length of the signature is looked at when the file is closed again.
Verification == Open("sig", "exit") \o Close("sig") \o Try("length", "exit") \o Try("hash", "exit") \o Try("verify", "exit")
Generate == Prepare(Rnd \cup {"rsa", "mpi"}) \o Seed \o Try("gen", "exit") \o Times(2, Try("export", "exit"))

wow_rsa_generate_by_str == Program(Param \o Generate \o Times(2, Try("pem", "lost")), Rnd \cup {"rsa", "mpi"})
wow_rsa_encrypt_by_str == Program(Param \o Parse \o Prepare(Rnd \cup {"rsa"}) \o Seed \o Try("crypt", "exit"), Rnd \cup {"rsa"})
wow_rsa_decrypt_by_str == wow_rsa_encrypt_by_str
wow_rsa_sign_by_str == Program(Param \o Parse \o Prepare(Rnd \cup {"rsa"}) \o Seed \o Try("check", "exit") \o Signature, {"rsa"})
wow_rsa_verify_by_str == Program(Param \o Parse \o Prepare(Rnd \cup {"rsa"}) \o Seed \o Verification, {"rsa"})

\* Behind each write, and behind the opening of the private file, it is the
\* public file that is tested.
wow_rsa_generate_by_file ==
  Program(Param \o Generate \o Open("pub", "exit") \o Times(2, Try("write", "go")) \o Open("priv", "lost") \o Times(8, Try("write", "go")),
          Rnd \cup {"rsa", "mpi", "pub", "priv"})
\* The numbers are read into the key itself, and then overwritten with N and E,
\* which are empty: mbedtls encrypts nothing with a key of length 0.
wow_rsa_encrypt_by_file ==
  Program(Prepare(Rnd \cup {"rsa", "mpi"}) \o Seed \o Open("key", "return") \o ReadKey(2) \o Try("import", "exit") \o Never("crypt"),
          Rnd \cup {"rsa", "mpi"})
wow_rsa_decrypt_by_file ==
  Program(Prepare(Rnd \cup {"rsa", "mpi"}) \o Seed \o Open("key", "return") \o ReadKey(8) \o Complete \o Try("crypt", "exit"),
          Rnd \cup {"rsa", "mpi"})
wow_rsa_sign_by_file ==
  Program(Param \o Try("exist", "return") \o Open("key", "return") \o Prepare({"rsa", "mpi"}) \o ReadKey(8) \o Complete \o Signature, {"rsa", "mpi"})
wow_rsa_verify_by_file ==
  Program(Param \o Try("exist", "return") \o Open("key", "return") \o Prepare({"rsa"}) \o ReadKey(2) \o Verification, {"rsa"})

Programs == [
  generate_by_str |-> wow_rsa_generate_by_str, encrypt_by_str |-> wow_rsa_encrypt_by_str, decrypt_by_str |-> wow_rsa_decrypt_by_str,
  sign_by_str |-> wow_rsa_sign_by_str, verify_by_str |-> wow_rsa_verify_by_str, generate_by_file |-> wow_rsa_generate_by_file,
  encrypt_by_file |-> wow_rsa_encrypt_by_file, decrypt_by_file |-> wow_rsa_decrypt_by_file, sign_by_file |-> wow_rsa_sign_by_file,
  verify_by_file |-> wow_rsa_verify_by_file]
\* decrypt_by_str returns 0 from its label, whatever failed.
Returns(call, ret) == IF call = "decrypt_by_str" THEN 0 ELSE ret

Start(call) == [call |-> call, pc |-> 1, held |-> {}, ret |-> 0, failed |-> {}]
Done(s) == s.pc = 0
Exit(s) == [s EXCEPT !.pc = 0, !.held = @ \ Programs[s.call].exit, !.ret = Returns(s.call, @)]
\* The next step; ok is what the library or the system makes of it.  A private
\* file that is not open is written to the standard output.
Advance(s, ok) ==
  LET p == Programs[s.call].body
      i == p[s.pc]
      t == [s EXCEPT !.pc = @ + 1] IN
  CASE s.pc > Len(p) -> Exit(s)
    [] s.pc <= Len(p) /\ i.do = "init" -> [t EXCEPT !.held = @ \cup i.res]
    [] s.pc <= Len(p) /\ i.do = "free" -> [t EXCEPT !.held = @ \ i.res]
    [] s.pc <= Len(p) /\ i.do = "try" /\ ok -> [t EXCEPT !.held = @ \cup i.res, !.ret = IF i.fail = "lost" THEN @ ELSE 0]
    [] s.pc <= Len(p) /\ (i.do = "never" \/ (i.do = "try" /\ ~ok)) ->
         LET u == [t EXCEPT !.failed = @ \cup {i.name}, !.ret = IF i.fail = "lost" THEN @ ELSE -1] IN
         CASE i.fail = "exit" -> Exit(u)
           [] i.fail = "return" -> [u EXCEPT !.pc = 0]
           [] OTHER -> u
=============================================================================
