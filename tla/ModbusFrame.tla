---------------------------- MODULE ModbusFrame ----------------------------
(***************************************************************************)
(* The frames of modbus (protocol/modbus): what the master and the slave   *)
(* build, how many bytes a receiver waits for, and what the master accepts *)
(* as the answer to a request.  Frames are sequences of bytes, because the *)
(* receivers find their ends only by counting.  "tcp" and "rtu" are the    *)
(* two ModbusCtx_T of modbus_tcp.c and modbus_rtu.c.                        *)
(***************************************************************************)
EXTENDS Integers, Sequences, SequencesExt, FiniteSetsExt

MODBUS_READ_COILS == 1
MODBUS_READ_DISCRETE_INPUTS == 2
MODBUS_READ_HOLDING_REGISTERS == 3
MODBUS_READ_INPUT_REGISTERS == 4
MODBUS_WRITE_SINGLE_COIL == 5
MODBUS_WRITE_SINGLE_REGISTER == 6
MODBUS_WRITE_MULTIPLE_COILS == 15
MODBUS_WRITE_MULTIPLE_REGISTERS == 16
MODBUS_REPORT_SLAVE_ID == 17
ReadBits == {MODBUS_READ_COILS, MODBUS_READ_DISCRETE_INPUTS}
ReadRegisters == {MODBUS_READ_HOLDING_REGISTERS, MODBUS_READ_INPUT_REGISTERS}
WriteSingle == {MODBUS_WRITE_SINGLE_COIL, MODBUS_WRITE_SINGLE_REGISTER}
WriteMultiple == {MODBUS_WRITE_MULTIPLE_COILS, MODBUS_WRITE_MULTIPLE_REGISTERS}

MODBUS_ILLEGAL_FUNCTION == 1
MODBUS_ILLEGAL_DATA_ADDRESS == 2
MODBUS_ILLEGAL_DATA_VALUE == 3
MODBUS_ERROR_MAX == 7   \* not for this device: no answer

MODBUS_MAX_READ_BITS == 2000
MODBUS_MAX_WRITE_BITS == 1968
MODBUS_MAX_READ_REGISTERS == 125
MODBUS_MAX_WRITE_REGISTERS == 123

(* The numbers of a backend.                                               *)
header_length(b) == IF b = "tcp" THEN 7 ELSE 1
checksum_length(b) == IF b = "tcp" THEN 0 ELSE 2
max_adu_length(b) == IF b = "tcp" THEN 260 ELSE 256

Hi(n) == (n \div 256) % 256
Lo(n) == n % 256
(* data[i] of the C array, which is cleared before a message is received.  *)
At(msg, i) == IF i < Len(msg) THEN msg[i + 1] ELSE 0
Word(msg, i) == At(msg, i) * 256 + At(msg, i + 1)
BytesOfBits(n) == (n + 7) \div 8

(* What this protocol needs of the CRC of encrypt/wow_crc.c: sixteen bits  *)
(* that depend on every byte and on its place.                             *)
RECURSIVE Weighted(_, _, _)
Weighted(s, i, j) ==
  CASE i > j -> 0
    [] i = j -> s[i] * ((91 * i * i + 7 * i + 3) % 4096)
    [] OTHER -> LET k == (i + j) \div 2 IN Weighted(s, i, k) + Weighted(s, k + 1, j)
wow_crc16_modbus(s) == (Weighted(s, 1, Len(s)) + Len(s)) % 65536

-----------------------------------------------------------------------------
(* send_msg_pre: the length field of TCP, the checksum of RTU.             *)
modbus_tcp_send_msg_pre(s) ==
  [s EXCEPT ![5] = Hi(Len(s) - 6), ![6] = Lo(Len(s) - 6)]

modbus_rtu_send_msg_pre(s) ==
  s \o <<Lo(wow_crc16_modbus(s)), Hi(wow_crc16_modbus(s))>>

SendMsgPre(b, s) ==
  IF b = "tcp" THEN modbus_tcp_send_msg_pre(s) ELSE modbus_rtu_send_msg_pre(s)

NextTid(t) == IF t < 65535 THEN t + 1 ELSE 0

modbus_tcp_build_request_basis(tid, slave, fn, addr, nb) ==
  <<Hi(tid), Lo(tid), 0, 0, 0, 0, slave, fn, Hi(addr), Lo(addr), Hi(nb), Lo(nb)>>
modbus_rtu_build_request_basis(slave, fn, addr, nb) ==
  <<slave, fn, Hi(addr), Lo(addr), Hi(nb), Lo(nb)>>
BuildRequestBasis(b, tid, slave, fn, addr, nb) ==
  IF b = "tcp" THEN modbus_tcp_build_request_basis(tid, slave, fn, addr, nb)
  ELSE modbus_rtu_build_request_basis(slave, fn, addr, nb)

modbus_tcp_build_response_basis(tid, slave, fn) ==
  <<Hi(tid), Lo(tid), 0, 0, 0, 0, slave, fn>>
modbus_rtu_build_response_basis(slave, fn) == <<slave, fn>>
BuildResponseBasis(b, tid, slave, fn) ==
  IF b = "tcp" THEN modbus_tcp_build_response_basis(tid, slave, fn)
  ELSE modbus_rtu_build_response_basis(slave, fn)

(* prepare_response_tid.                                                   *)
ResponseTid(b, req) == IF b = "tcp" THEN Word(req, 0) ELSE 0

response_exception(b, tid, slave, fn, code) ==
  SendMsgPre(b, Append(BuildResponseBasis(b, tid, slave, (fn + 128) % 256), code))

-----------------------------------------------------------------------------
(* How many bytes follow the function code, and how many follow those.     *)
MetaShort(fn, type) == IF type = "indication" /\ fn \in WriteMultiple THEN 4 ELSE IF fn > 4 THEN 4 ELSE 1
compute_meta_length_after_function(fn, type) ==
  IF type = "indication"
  THEN CASE fn <= MODBUS_WRITE_SINGLE_REGISTER -> 4
         [] fn \in WriteMultiple -> 5
         [] OTHER -> 0
  ELSE IF fn \in WriteSingle \cup WriteMultiple THEN 4 ELSE 1

compute_data_length_after_meta(b, msg, type) ==
  LET h == header_length(b)
      fn == At(msg, h)
  IN checksum_length(b) +
     (IF type = "indication"
      THEN IF fn \in WriteMultiple THEN At(msg, h + 5) ELSE 0
      ELSE IF fn <= MODBUS_READ_INPUT_REGISTERS \/ fn = MODBUS_REPORT_SLAVE_ID
           THEN At(msg, h + 1) ELSE 0)

(* A message being received: its bytes so far, how many to wait for, the   *)
(* step, and the empty reads left.                                         *)
StartReceive(b, times) ==
  [data |-> <<>>, need |-> header_length(b) + 1, step |-> "FUNCTION", try |-> times]

(* Bytes arrive: modbus_receive_msg advances, and says "more", "toolong"   *)
(* (a length beyond the buffer) or "whole".                                *)
ReceiveBytes(b, r, bytes, type) ==
  LET data == r.data \o bytes
      need == r.need - Len(bytes)
      meta == compute_meta_length_after_function(At(data, header_length(b)), type)
      rest == compute_data_length_after_meta(b, data, type)
      More(n, s) == [r EXCEPT !.data = data, !.need = n, !.step = s]
  IN CASE need > 0 -> [st |-> "more", r |-> More(need, r.step)]
       [] need = 0 /\ r.step = "FUNCTION" /\ meta # 0 -> [st |-> "more", r |-> More(meta, "META")]
       [] need = 0 /\ r.step = "DATA" -> [st |-> "whole", r |-> More(0, "DATA")]
       [] OTHER -> [st |-> CASE Len(data) + rest > max_adu_length(b) -> "toolong"
                             [] rest = 0 -> "whole"
                             [] OTHER -> "more",
                    r |-> More(rest, "DATA")]

IntegrityAny(b, msg) == TRUE
modbus_rtu_check_integrity(msg) ==
  LET n == Len(msg)
  IN n >= 2 /\ Word(msg, n - 2) = (LET c == wow_crc16_modbus(SubSeq(msg, 1, n - 2)) IN Lo(c) * 256 + Hi(c))
CheckIntegrity(b, msg) == b = "tcp" \/ modbus_rtu_check_integrity(msg)

-----------------------------------------------------------------------------
(* What the master accepts: 0 or less is an error.                         *)
compute_response_length_from_request(b, req) ==
  LET h == header_length(b)
      nb == Word(req, h + 3)
      fn == At(req, h)
  IN h + checksum_length(b) +
     (CASE fn \in ReadBits -> 2 + BytesOfBits(nb)
        [] fn \in ReadRegisters -> 2 + 2 * nb
        [] OTHER -> 5)

modbus_tcp_check_confirmation(req, rsp) ==
  /\ Len(rsp) >= 4
  /\ Word(req, 0) = Word(rsp, 0)
  /\ Word(rsp, 2) = 0
modbus_rtu_check_confirmation(req, rsp) == Len(rsp) >= 1 /\ At(req, 0) = At(rsp, 0)

ConfirmNoTid(b, req, rsp) ==
  IF b = "tcp" THEN At(rsp, 7) \in ReadRegisters \/ modbus_tcp_check_confirmation(req, rsp)
  ELSE modbus_rtu_check_confirmation(req, rsp)
CtxCheckConfirmation(b, req, rsp) ==
  IF b = "tcp" THEN modbus_tcp_check_confirmation(req, rsp) ELSE modbus_rtu_check_confirmation(req, rsp)

(* The number of values confirmed, or -1.                                  *)
check_confirmation(b, req, rsp) ==
  LET h == header_length(b)
      fn == At(rsp, h)
      nb == Word(req, h + 3)
      reqNb == CASE fn \in ReadBits -> BytesOfBits(nb)
                 [] fn \in ReadRegisters -> 2 * nb
                 [] fn \in WriteMultiple -> nb
                 [] OTHER -> 1
      rspNb == CASE fn \in ReadBits \cup ReadRegisters -> At(rsp, h + 1)
                 [] fn \in WriteMultiple -> Word(rsp, h + 3)
                 [] OTHER -> 1
  IN IF /\ fn = At(req, h)
        /\ CtxCheckConfirmation(b, req, rsp)
        /\ Len(rsp) = compute_response_length_from_request(b, req)
        /\ reqNb = rspNb
     THEN rspNb ELSE -1
=============================================================================
