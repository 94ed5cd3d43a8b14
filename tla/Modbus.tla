------------------------------- MODULE Modbus -------------------------------
(***************************************************************************)
(* A modbus master (wow_modbus_m.c) and a slave (wow_modbus_s.c) at the    *)
(* ends of a TCP connection or of a serial line.  The application calls    *)
(* the master's read and write, which send one request and wait for one    *)
(* answer; the slave's thread receives requests, calls the device's get    *)
(* and set functions and answers.  Bytes are delayed without bound and     *)
(* arrive in pieces, so either side may give up in the middle of a message *)
(* and the answer to an abandoned request may still come; on a serial line *)
(* a byte may also be changed or lost.                                     *)
(***************************************************************************)
EXTENDS ModbusFrame, FiniteSets

CONSTANTS
  Plans,       \* what may happen: [backend, calls, tid, times, short, faults, cuts]: the
               \* link, the calls of the application ([slave, fn, addr, size, data]),
               \* the transaction number reached before, the empty reads before a
               \* receiver gives up, the bounds on short reads, on faults and on
               \* messages the slave gives up
  MemSize      \* number of coils and of registers of the device

ASSUME SizeNatural == MemSize \in Nat

VARIABLES
  plan,        \* the plan followed
  toSlave, toMaster,   \* the bytes under way
  m,           \* the master: pc, t_id, the call, its request, the message being received
  s,           \* the slave: pc, the message being received
  mem,         \* the device: coils and registers that are not zero
  obs          \* what an observer notes (read by the properties, and by the bounds)

vars == <<plan, toSlave, toMaster, m, s, mem, obs>>

backend == plan.backend
MyAddress == 1   \* the slave address the device answers to
NoCall == [slave |-> 0, fn |-> 0, addr |-> 0, size |-> 0, data |-> <<>>]

-----------------------------------------------------------------------------
(* The device behind the slave's callbacks.                                *)
Kind(fn) == IF fn \in ReadBits \cup {MODBUS_WRITE_SINGLE_COIL, MODBUS_WRITE_MULTIPLE_COILS} THEN "coil" ELSE "reg"
Value(mm, k, a) == IF \E p \in mm[k] : p[1] = a THEN (CHOOSE p \in mm[k] : p[1] = a)[2] ELSE 0
BitByte(mm, a, n, i) ==
  FoldSet(LAMBDA j, acc: acc + Value(mm, "coil", a + 8 * (i - 1) + j) * 2^j, 0,
          {j \in 0..7 : 8 * (i - 1) + j < n})
Payload(mm, fn, a, n) ==
  IF Kind(fn) = "coil" THEN [i \in 1..BytesOfBits(n) |-> BitByte(mm, a, n, i)]
  ELSE [i \in 1..2*n |-> LET v == Value(mm, "reg", a + (i - 1) \div 2) IN IF i % 2 = 1 THEN Hi(v) ELSE Lo(v)]

(* get_afn_addr_val and set_afn_addr_val: 0 or a modbus error.      *)
DeviceRet(slave, a, n) ==
  CASE slave # MyAddress -> MODBUS_ERROR_MAX
    [] a + n > MemSize -> MODBUS_ILLEGAL_DATA_ADDRESS
    [] OTHER -> 0
ValueIn(fn, data, i) ==
  CASE fn = MODBUS_WRITE_SINGLE_COIL -> IF At(data, 0) # 0 THEN 1 ELSE 0
    [] fn = MODBUS_WRITE_MULTIPLE_COILS -> (At(data, i \div 8) \div 2^(i % 8)) % 2
    [] OTHER -> Word(data, 2 * i)
Stored(mm, fn, a, n, data) ==
  LET k == Kind(fn)
  IN [mm EXCEPT ![k] = {p \in @ : p[1] \notin a..(a + n - 1)}
        \cup {p \in {<<a + i, ValueIn(fn, data, i)>> : i \in 0..(n - 1)} : p[2] # 0}]

-----------------------------------------------------------------------------
(* modbus_s_reply: the answer to a message (no bytes: none) and the memory *)
(* after it.                                                               *)
ReplyLimit(fn) == CASE fn \in ReadBits -> MODBUS_MAX_READ_BITS
                    [] fn \in ReadRegisters -> MODBUS_MAX_READ_REGISTERS
                    [] fn = MODBUS_WRITE_MULTIPLE_COILS -> MODBUS_MAX_WRITE_BITS
                    [] OTHER -> MODBUS_MAX_WRITE_REGISTERS

Reply(b, req, mm, ignoreRet) ==
  LET h == header_length(b)
      slave == At(req, h - 1)
      fn == At(req, h)
      addr == Word(req, h + 1)
      bulk == Word(req, h + 3)
      nb == IF fn \in WriteSingle THEN 1 ELSE bulk
      tid == ResponseTid(b, req)
      basis == BuildResponseBasis(b, tid, slave, fn)
      legal == CASE fn = MODBUS_WRITE_SINGLE_COIL -> bulk \in {65280, 0}
                 [] fn = MODBUS_WRITE_SINGLE_REGISTER -> TRUE
                 [] OTHER -> bulk \in 1..ReplyLimit(fn)
      ret == CASE fn \notin ReadBits \cup ReadRegisters \cup WriteSingle \cup WriteMultiple -> MODBUS_ILLEGAL_FUNCTION
               [] ~legal -> MODBUS_ILLEGAL_DATA_VALUE
               [] OTHER -> DeviceRet(slave, addr, nb)
      data == SubSeq(req, h + (IF fn \in WriteSingle THEN 4 ELSE 7), Len(req))
      payload == Payload(mm, fn, addr, bulk)
  IN CASE ret = MODBUS_ERROR_MAX -> [rsp |-> <<>>, mem |-> mm, set |-> {}]
       [] ret # 0 /\ ~(ignoreRet /\ fn \in WriteSingle) ->
            [rsp |-> response_exception(b, tid, slave, fn, ret), mem |-> mm, set |-> {}]
       [] fn \in ReadBits \cup ReadRegisters ->
            [rsp |-> SendMsgPre(b, basis \o <<Len(payload)>> \o payload), mem |-> mm, set |-> {}]
       [] OTHER ->
            [rsp |-> IF fn \in WriteSingle THEN req
                     ELSE SendMsgPre(b, basis \o [i \in 1..4 |-> At(req, Len(basis) + i - 1)]),
             mem |-> IF ret = 0 THEN Stored(mm, fn, addr, nb, data) ELSE mm,
             set |-> IF ret = 0 THEN {<<slave, fn, addr, Stored([coil |-> {}, reg |-> {}], fn, addr, nb, data)>>} ELSE {}]

modbus_s_reply(b, req, mm) == Reply(b, req, mm, FALSE)

-----------------------------------------------------------------------------
(* The master builds a request: wow_modbus_m_read_data checks the size,    *)
(* wow_modbus_m_write_data does not.                                       *)
SizeAllowed(c) ==
  CASE c.fn \in ReadBits -> c.size <= MODBUS_MAX_READ_BITS
    [] c.fn \in ReadRegisters -> c.size <= MODBUS_MAX_READ_REGISTERS
    [] OTHER -> c.fn \in WriteSingle \cup WriteMultiple

wow_modbus_m_read_data(b, tid, c) ==
  SendMsgPre(b, BuildRequestBasis(b, tid, c.slave, c.fn, c.addr, c.size))

wow_modbus_m_write_data(b, tid, c) ==
  LET bytes == IF c.fn = MODBUS_WRITE_MULTIPLE_COILS THEN BytesOfBits(c.size) ELSE 2 * c.size
      Basis(nb) == BuildRequestBasis(b, tid, c.slave, c.fn, c.addr, nb)
  IN SendMsgPre(b, CASE c.fn = MODBUS_WRITE_SINGLE_COIL -> Basis(IF Word(c.data, 0) # 0 THEN 65280 ELSE 0)
                     [] c.fn = MODBUS_WRITE_SINGLE_REGISTER -> Basis(Word(c.data, 0))
                     [] OTHER -> Basis(c.size) \o <<bytes % 256>> \o SubSeq(c.data, 1, bytes))

Request(b, tid, c) ==
  IF c.fn \in ReadBits \cup ReadRegisters THEN wow_modbus_m_read_data(b, tid, c)
  ELSE wow_modbus_m_write_data(b, tid, c)

(* What the set function of the device is called with if the call is done. *)
Intended(c) ==
  LET nb == IF c.fn \in WriteSingle THEN 1 ELSE c.size
  IN <<c.slave, c.fn, c.addr, Stored([coil |-> {}, reg |-> {}], c.fn, c.addr, nb,
         IF c.fn = MODBUS_WRITE_SINGLE_COIL THEN <<IF Word(c.data, 0) # 0 THEN 255 ELSE 0, 0>> ELSE c.data)>>

-----------------------------------------------------------------------------
Init ==
  /\ plan \in Plans
  /\ toSlave = <<>> /\ toMaster = <<>>
  /\ m = [pc |-> "closed", tid |-> plan.tid, call |-> NoCall, req |-> <<>>, rx |-> StartReceive(backend, plan.times),
          ret |-> 0, got |-> <<>>]
  /\ s = [pc |-> "closed", rx |-> StartReceive(backend, plan.times)]
  /\ mem = [coil |-> {}, reg |-> {}]
  /\ obs = [calls |-> 0, short |-> 0, faults |-> 0, cuts |-> 0, cut |-> FALSE, late |-> FALSE,
            asked |-> {}, stray |-> FALSE, seen |-> {}, done |-> FALSE, sent |-> <<>>, answered |-> <<>>]

(* wow_modbus_m_tcp_open, wow_modbus_m_rtu_open, after the slave's: the    *)
(* link opens, or the handle is NULL.                                      *)
MasterOpen ==
  /\ m.pc = "closed" /\ s.pc # "closed" /\ obs.calls = 0
  /\ m' = [m EXCEPT !.pc = "idle"]
  /\ UNCHANGED <<plan, toSlave, toMaster, s, mem, obs>>

(* wow_modbus_s_tcp_open, wow_modbus_s_rtu_open: link, locks and thread.   *)
SlaveOpen ==
  /\ s.pc = "closed" /\ obs.calls = 0
  /\ s' = [s EXCEPT !.pc = "recv"]
  /\ UNCHANGED <<plan, toSlave, toMaster, m, mem, obs>>

(* A read or a write of the application, up to the wait for the answer.    *)
CallSend(c) ==
  /\ m.pc = "idle" /\ SizeAllowed(c)
  /\ LET tid == IF backend = "tcp" THEN NextTid(m.tid) ELSE m.tid
         req == Request(backend, tid, c)
     IN /\ m' = [m EXCEPT !.pc = "recv", !.tid = tid, !.call = c, !.req = req,
                          !.rx = StartReceive(backend, plan.times), !.got = <<>>]
        /\ toSlave' = toSlave \o req
        /\ obs' = [obs EXCEPT !.calls = @ + 1, !.sent = Append(@, req), !.done = FALSE,
                     !.asked = IF c.fn \in ReadBits \cup ReadRegisters THEN @ ELSE @ \cup {Intended(c)},
                     !.seen = IF c.fn \in ReadBits \cup ReadRegisters THEN {Payload(mem, c.fn, c.addr, c.size)} ELSE {}]
  /\ UNCHANGED <<plan, toMaster, s, mem>>

(* A size the master turns down, or a send that fails: nothing is sent.    *)
CallRefused(c) ==
  /\ m.pc = "idle"
  /\ IF SizeAllowed(c)
     THEN m' = [m EXCEPT !.tid = IF backend = "tcp" THEN NextTid(@) ELSE @, !.call = c, !.ret = -2, !.got = <<>>]
     ELSE m' = [m EXCEPT !.call = c, !.ret = -1, !.got = <<>>]
  /\ obs' = [obs EXCEPT !.calls = @ + 1]
  /\ UNCHANGED <<plan, toSlave, toMaster, s, mem>>

(* How many bytes one link_recv returns.                                   *)
Piece(chan, r) ==
  LET n == IF Len(chan) < r.need THEN Len(chan) ELSE r.need
  IN {k \in {1, n} : k <= n /\ k > 0 /\ (k < r.need => obs.short < plan.short)}
Short(k, r) == IF k < r.need THEN 1 ELSE 0

(* The master's receive, check and return.                                 *)
Confirmed(r) ==
  LET n == IF CheckIntegrity(backend, r.data) THEN check_confirmation(backend, m.req, r.data) ELSE -1
  IN [m EXCEPT !.pc = "idle", !.rx = r, !.ret = IF n > 0 THEN 0 ELSE -1,
        !.got = IF n > 0 /\ m.call.fn \in ReadBits \cup ReadRegisters
                THEN SubSeq(r.data, header_length(backend) + 3, header_length(backend) + 2 + n) ELSE <<>>]

MasterReceive ==
  /\ m.pc = "recv"
  /\ \E k \in Piece(toMaster, m.rx) :
       LET res == ReceiveBytes(backend, m.rx, SubSeq(toMaster, 1, k), "confirmation")
       IN /\ toMaster' = SubSeq(toMaster, k + 1, Len(toMaster))
          /\ obs' = [obs EXCEPT !.short = @ + Short(k, m.rx),
                       !.cut = @ \/ res.st = "toolong", !.late = @ \/ res.st = "toolong"]
          /\ m' = CASE res.st = "more" -> [m EXCEPT !.rx = res.r]
                    [] res.st = "toolong" -> [m EXCEPT !.pc = "idle", !.rx = res.r, !.ret = -1]
                    [] OTHER -> Confirmed(res.r)
  /\ UNCHANGED <<plan, toSlave, s, mem>>

(* A read of the master that brings nothing: one try less, and at the end  *)
(* it gives up, with what it has of the answer.                            *)
MasterEmptyKeeps ==
  /\ m.pc = "recv"
  /\ m' = IF m.rx.data # <<>> THEN m
          ELSE [m EXCEPT !.rx.try = @ - 1, !.pc = IF m.rx.try = 1 THEN "idle" ELSE @,
                         !.ret = IF m.rx.try = 1 THEN -1 ELSE @]
  /\ obs' = [obs EXCEPT !.late = @ \/ (m.rx.try = 1 /\ m.rx.data = <<>>)]
  /\ UNCHANGED <<plan, toSlave, toMaster, s, mem>>
MasterEmpty ==
  /\ m.pc = "recv"
  /\ m' = [m EXCEPT !.rx.try = @ - 1, !.pc = IF m.rx.try = 1 THEN "idle" ELSE @,
                    !.ret = IF m.rx.try = 1 THEN -1 ELSE @]
  /\ obs' = [obs EXCEPT !.late = @ \/ m.rx.try = 1, !.cut = @ \/ (m.rx.try = 1 /\ m.rx.data # <<>>)]
  /\ UNCHANGED <<plan, toSlave, toMaster, s, mem>>

(* modbus_s_exec_thread: a whole request is answered; on RTU one with a    *)
(* wrong checksum is dropped with everything that can be read after it.    *)
Serve(r, chan) ==
  LET res == modbus_s_reply(backend, r.data, mem)
  IN /\ mem' = res.mem
     /\ toMaster' = toMaster \o res.rsp
     /\ toSlave' = chan
     /\ s' = [s EXCEPT !.rx = StartReceive(backend, plan.times)]
     /\ obs' = [obs EXCEPT !.stray = @ \/ ~(res.set \subseteq obs.asked),
                  !.seen = IF obs.seen # {} /\ m.pc = "recv"
                           THEN @ \cup {Payload(res.mem, m.call.fn, m.call.addr, m.call.size)} ELSE @,
                  !.done = @ \/ (m.pc = "recv" /\ m.call.fn \in WriteSingle \cup WriteMultiple /\ Intended(m.call) \in res.set),
                  !.answered = IF res.rsp = <<>> THEN @ ELSE Append(@, res.rsp)]

SlaveReceive ==
  /\ s.pc = "recv"
  /\ \E k \in Piece(toSlave, s.rx) :
       LET res == ReceiveBytes(backend, s.rx, SubSeq(toSlave, 1, k), "indication")
           chan == SubSeq(toSlave, k + 1, Len(toSlave))
           short == Short(k, s.rx)
       IN CASE res.st = "more" ->
                 /\ toSlave' = chan /\ s' = [s EXCEPT !.rx = res.r]
                 /\ obs' = [obs EXCEPT !.short = @ + short] /\ UNCHANGED <<mem, toMaster>>
            [] res.st = "toolong" ->
                 /\ toSlave' = chan /\ s' = [s EXCEPT !.rx = StartReceive(backend, plan.times)]
                 /\ obs' = [obs EXCEPT !.short = @ + short, !.cut = TRUE] /\ UNCHANGED <<mem, toMaster>>
            [] OTHER -> IF CheckIntegrity(backend, res.r.data) THEN Serve(res.r, chan)
                        ELSE /\ \E i \in {0, Len(chan)} : toSlave' = SubSeq(chan, i + 1, Len(chan))
                             /\ s' = [s EXCEPT !.rx = StartReceive(backend, plan.times)]
                             /\ obs' = [obs EXCEPT !.cut = TRUE]
                             /\ UNCHANGED <<mem, toMaster>>
  /\ UNCHANGED <<plan, m>>

(* The slave waits in vain in the middle of a message, and gives it up.    *)
SlaveEmpty ==
  /\ s.pc = "recv" /\ s.rx.data # <<>> /\ obs.cuts < plan.cuts
  /\ s' = [s EXCEPT !.rx = IF s.rx.try = 1 THEN StartReceive(backend, plan.times) ELSE [@ EXCEPT !.try = @ - 1]]
  /\ obs' = [obs EXCEPT !.cut = @ \/ s.rx.try = 1,
                       !.cuts = IF s.rx.try = 1 THEN @ + 1 ELSE @]
  /\ UNCHANGED <<plan, toSlave, toMaster, m, mem>>

(* wow_modbus_s_tcp_close, wow_modbus_s_rtu_close: the thread is cancelled *)
(* where it waits.  wow_modbus_m_tcp_close, wow_modbus_m_rtu_close.        *)
SlaveClose ==
  /\ s.pc = "recv" /\ obs.calls = Len(plan.calls)
  /\ s' = [s EXCEPT !.pc = "closed"]
  /\ UNCHANGED <<plan, toSlave, toMaster, m, mem, obs>>
MasterClose ==
  /\ m.pc = "idle" /\ obs.calls = Len(plan.calls)
  /\ m' = [m EXCEPT !.pc = "closed"]
  /\ UNCHANGED <<plan, toSlave, toMaster, s, mem, obs>>

(* The serial line changes or loses a byte.                                *)
Fault ==
  /\ backend = "rtu" /\ obs.faults < plan.faults
  /\ \/ \E i \in DOMAIN toSlave : /\ toSlave' \in {[toSlave EXCEPT ![i] = (@ + 1) % 256], RemoveAt(toSlave, i)}
                                  /\ UNCHANGED toMaster
     \/ \E i \in DOMAIN toMaster : /\ toMaster' \in {[toMaster EXCEPT ![i] = (@ + 1) % 256], RemoveAt(toMaster, i)}
                                   /\ UNCHANGED toSlave
  /\ obs' = [obs EXCEPT !.faults = @ + 1, !.cut = TRUE]
  /\ UNCHANGED <<plan, m, s, mem>>

Next ==
  \/ MasterOpen \/ SlaveOpen \/ MasterClose \/ SlaveClose
  \/ obs.calls < Len(plan.calls) /\ LET c == plan.calls[obs.calls + 1] IN CallSend(c) \/ CallRefused(c)
  \/ MasterReceive \/ MasterEmpty \/ SlaveReceive \/ SlaveEmpty \/ Fault

(* The application's thread runs: a read of the link always returns.       *)
Spec == Init /\ [][Next]_vars /\ WF_vars(MasterReceive \/ MasterEmpty)

-----------------------------------------------------------------------------
Receiving(type) == [data : Seq(0..255), need : 0..260, step : {"FUNCTION", "META", "DATA"}, try : 0..plan.times]

(* Types; a message never outgrows the 260 bytes of req and rsp, and the   *)
(* transaction number stays in its sixteen bits.                           *)
TypeOK ==
  /\ toSlave \in Seq(0..255) /\ toMaster \in Seq(0..255)
  /\ m.pc \in {"closed", "idle", "recv"} /\ m.tid \in 0..65535 /\ Len(m.req) <= max_adu_length(backend)
  /\ s.pc \in {"closed", "recv"}
  /\ \A r \in {m.rx, s.rx} : /\ r \in Receiving(backend)
                             /\ Len(r.data) + r.need <= 260 \/ m.pc = "idle"

(* The data a successful read returns are the device's data at some moment *)
(* of that very call.  On a serial line nothing in a frame tells the       *)
(* answer to an earlier, abandoned request from the one waited for, so     *)
(* there this holds only until a call has been given up.                   *)
ReadIsCurrent ==
  (m.pc = "idle" /\ m.ret = 0 /\ obs.seen # {} /\ obs.calls > 0) =>
     m.got \in obs.seen \/ (backend = "rtu" /\ obs.late)

(* A successful write has been made by the device during that call (same   *)
(* exception).                                                             *)
WriteIsDone ==
  (m.pc = "idle" /\ m.ret = 0 /\ m.call.fn \in WriteSingle \cup WriteMultiple) =>
     obs.done \/ (backend = "rtu" /\ obs.late)

(* A success is the outcome of the very call that returns it, whatever     *)
(* answers of earlier calls are still on their way.                        *)
SuccessIsCurrent == ReadIsCurrent /\ WriteIsDone

(* The device is never told to write what no call asked for: on a serial   *)
(* line whatever is changed, lost or cut, on TCP as long as no side gave up *)
(* inside a message (the slave does not find the beginning again).         *)
OnlyAsked == obs.stray => (backend = "tcp" /\ obs.cut)

(* As long as nobody gives up inside a message, both receivers stop exactly *)
(* at the ends of what the other side built, for every function, size,     *)
(* exception and cutting into pieces, and within their buffers.            *)
TailsOf(q) == {FlattenSeq(SubSeq(q, i, Len(q))) : i \in 1..(Len(q) + 1)}
StreamInSync ==
  /\ TypeOK
  /\ ~obs.cut => /\ s.rx.data = <<>> => toSlave \in TailsOf(obs.sent)
                 /\ m.pc = "idle" => toMaster \in TailsOf(obs.answered)

(* Every read and write of the application returns.                        *)
CallReturns == (m.pc = "recv") ~> (m.pc # "recv")
=============================================================================
