------------------------------- MODULE Iec104s -------------------------------
(***************************************************************************)
(* The IEC 104 slave (wow_iec104s.c) and the accept thread of its port.    *)
(* Three threads share the slave: the exec thread (iec104_s_exec_thread:   *)
(* state machine, receive, parse), the TCP accept thread, whose callback   *)
(* resets the slave and replaces the client, and the application thread    *)
(* that reports spontaneous changes.  Nothing locks the shared fields.     *)
(*                                                                         *)
(* A handler is a function from the work record w of one pass of the exec  *)
(* thread (the station, the frames written so far, whether the link was    *)
(* closed) to the next; its step installs the result.                      *)
(***************************************************************************)
EXTENDS Iec104Link

CONSTANTS YxFrames, YcFrames, YmFrames,  \* frames one interrogation sends per list
          SponTypes,                     \* kinds of spontaneous reports
          MaxSpon,                       \* bound: spontaneous reports in a behaviour
          ClockSteps,                    \* ticks a clock command may move the clock by
          SleepOutlastsParse             \* sleep(1) is longer than a pass of the exec thread

ASSUME SlaveAssumption ==
  /\ YxFrames \in Nat /\ YcFrames \in Nat /\ YmFrames \in Nat /\ MaxSpon \in Nat
  /\ SponTypes \subseteq {"M_SP", "M_ME", "M_TB"}
  /\ ClockSteps \subseteq Int
  /\ SleepOutlastsParse \in BOOLEAN

VARIABLES s,        \* Iec104s_T: stat, sn and time
          s_pc,     \* where the exec thread is in its loop
          s_rbuf,   \* recv_buf of the exec thread: frames not yet parsed
          s_app,    \* the application thread inside wow_iec104_s_build_*_spon
          s_serv,   \* the last link event reported through serv_cb
          s_spon    \* spontaneous reports so far

slaveVars == <<s, s_pc, s_rbuf, s_app, s_serv, s_spon>>

(* build_send is an int that is only ever copied into a 15 bit field: it   *)
(* is kept modulo SnMod.  deal_send, deal_recv and the interrogation and   *)
(* command states are written and never read.                              *)
SlaveStation == [init : LinkStates, test : TesterStates, build_send : Sn,
                 build_recv : 0 .. SnMod, t_test : Ages, t_timer : Ages]

AppIdle == [pc |-> "idle", sn |-> 0, fr |-> UFrame("TESTER")]

SlaveTypeOK ==
  /\ s \in SlaveStation
  /\ s_pc \in {"state_machine", "recv", "parse"}
  /\ s_rbuf \in Seq(Frames)
  /\ s_app \in [pc : {"idle", "put", "send"}, sn : Sn, fr : Frames]
  /\ s_serv \in {"none", "CONNECTED", "DISCONNECTED"}
  /\ s_spon \in 0 .. MaxSpon

-----------------------------------------------------------------------------
(* Frames the slave builds.                                                *)

Work == [st |-> s, out |-> <<>>, close |-> FALSE, serv |-> s_serv]

BuildI(w, ty, cot, ia0, sel, val) ==
  [w EXCEPT !.out = Append(@, IFrame(ty, cot, ia0, sel, val,
                                     w.st.build_send, w.st.build_recv)),
            !.st.build_send = (@ + 1) % SnMod]

iec104_s_build_init_finsh(w) == BuildI(w, "M_EI", "INIT", TRUE, FALSE, 0)

iec104_s_build_call_ack(w) == BuildI(w, "C_IC", "ACTCON", TRUE, FALSE, 1)

(* The termination of an interrogation carries the information address    *)
(* IEC10X_INFO_ADDR_SIG_BASE + IEC10X_INFO_ADDR_SIG_TEMP_HX_OFF, not 0.    *)
iec104_s_build_call_finsh(w) == BuildI(w, "C_IC", "ACTTERM", FALSE, FALSE, 1)

iec104_s_build_u(w, fn) == [w EXCEPT !.out = Append(@, UFrame(fn))]

iec104_s_build_u_ack(w, fn) ==
  [w EXCEPT !.out = Append(@, UFrame(IF fn = "STARTDT" THEN "STARTDT_ACK"
                                     ELSE "TESTER_ACK"))]

iec104_s_build_s_ack(w) == [w EXCEPT !.out = Append(@, SFrame(w.st.build_recv))]

iec104_s_build_yt_ack(w, fr) == BuildI(w, "C_SE", "ACTCON", fr.ia0, fr.sel, fr.val)
iec104_s_build_yk_ack(w, fr) == BuildI(w, "C_SC", "ACTCON", fr.ia0, fr.sel, fr.val)

-----------------------------------------------------------------------------
(* ASDU handlers.                                                          *)

(* The loops over a node list: k frames, built one after the other.        *)
NodeList(w, k, ty, cot) ==
  [w EXCEPT !.out = @ \o [i \in 1 .. k |-> IFrame(ty, cot, FALSE, FALSE, 0,
                                                (w.st.build_send + i - 1) % SnMod,
                                                w.st.build_recv)],
            !.st.build_send = (@ + k) % SnMod]

iec104_s_build_yx(w, k) == NodeList(w, k, "M_SP", "INTROGEN")
iec104_s_build_yc(w, k) == NodeList(w, k, "M_ME", "INTROGEN")
iec104_s_build_ym(w, k) == NodeList(w, k, "M_IT", "REQCOGEN")

iec104_s_asdu_call_all(w, fr) ==
  IF fr.ia0 /\ fr.cot = "ACT" /\ fr.val = 1
  THEN LET ack == iec104_s_build_call_ack(w)
           yx  == iec104_s_build_yx(ack, YxFrames)
           yc  == iec104_s_build_yc(yx, YcFrames)
       IN  iec104_s_build_call_finsh(yc)
  ELSE w

iec104_s_asdu_call_pulse(w, fr) ==
  IF fr.ia0 /\ fr.cot = "ACT" /\ fr.val = 1
  THEN LET ack == iec104_s_build_call_ack(w)
           ym  == iec104_s_build_ym(ack, YmFrames)
       IN  iec104_s_build_call_finsh(ym)
  ELSE w

(* The clock command sets the wall clock the tester periods are measured   *)
(* with: the stations the command may leave behind.                        *)
iec104_s_asdu_clock(w, fr) ==
  IF fr.ia0 /\ fr.cot = "ACT"
  THEN LET ages == UNION {Stepped(w.st.t_test, d) \X Stepped(w.st.t_timer, d) : d \in ClockSteps}
       IN  {[w EXCEPT !.st.t_test = p[1], !.st.t_timer = p[2]] : p \in ages}
  ELSE {w}

(* Variant: a selected command is executed at once.                        *)
YkIgnoresSelect(fr) == fr.cot = "ACT"

(* Whether the command is passed to set_val_cb: the station itself keeps   *)
(* nothing of a command.                                                   *)
iec104_s_asdu_yk(fr) == fr.cot = "ACT" /\ ~fr.sel
iec104_s_asdu_yt(fr) == fr.cot = "ACT" /\ ~fr.sel

iec104_s_deal_sn(w, fr) == [w EXCEPT !.st.build_recv = fr.ss + 1]

iec104_s_frame_i_parse(w, fr) ==
  IF ~fr.own THEN {w}
  ELSE LET d == iec104_s_deal_sn(w, fr)
       IN  CASE fr.ty = "C_IC" -> {iec104_s_asdu_call_all(d, fr)}
             [] fr.ty = "C_CI" -> {iec104_s_asdu_call_pulse(d, fr)}
             [] fr.ty = "C_CS" -> {iec104_s_build_s_ack(x) : x \in iec104_s_asdu_clock(d, fr)}
             [] fr.ty = "C_SC" -> {iec104_s_build_yk_ack(d, fr)}
             [] fr.ty = "C_SE" -> {iec104_s_build_yt_ack(d, fr)}
             [] OTHER -> {d}

iec104_s_frame_u_parse(w, fr) ==
  CASE fr.fn = "STARTDT"    -> [w EXCEPT !.st.init = "CONNECT_OK"]
    [] fr.fn = "STOPDT"     -> [w EXCEPT !.st.init = "DISCONNECT", !.close = TRUE]
    [] fr.fn = "TESTER"     -> iec104_s_build_u_ack(w, "TESTER")
    [] fr.fn = "TESTER_ACK" -> [w EXCEPT !.st.test = "TESTER_STOP"]
    [] OTHER -> w

iec104_s_frame_parse(w, fr) ==
  CASE fr.f = "I" -> iec104_s_frame_i_parse(w, fr)
    [] fr.f = "U" -> {iec104_s_frame_u_parse(w, fr)}
    [] fr.f = "S" -> {w}

-----------------------------------------------------------------------------
(* The state machine.                                                      *)

(* Variants: the send or the receive number survives a reconnection; the   *)
(* receive number starts at -1.                                            *)
ResetKeepsSend(st) ==
  [st EXCEPT !.init = "INIT", !.test = "TESTER_START", !.build_recv = 0, !.t_test = Epoch]
ResetKeepsRecv(st) ==
  [st EXCEPT !.init = "INIT", !.test = "TESTER_START", !.build_send = 0, !.t_test = Epoch]
ResetRecvLow(st) ==
  [st EXCEPT !.init = "INIT", !.test = "TESTER_START",
             !.build_send = 0, !.build_recv = -1, !.t_test = Epoch]

(* time.timer is not reset.                                                *)
iec104_s_reset_param(st) ==
  [st EXCEPT !.init = "INIT", !.test = "TESTER_START",
             !.build_send = 0, !.build_recv = 0, !.t_test = Epoch]

LinkStep(w) ==
  CASE w.st.init = "INIT" ->
         [w EXCEPT !.st = [iec104_s_reset_param(w.st) EXCEPT !.init = "OPEN"]]
    [] w.st.init = "CONNECT_OK" ->
         [iec104_s_build_init_finsh(iec104_s_build_u_ack(w, "STARTDT"))
            EXCEPT !.st.init = "IDLE", !.st.t_timer = 0, !.serv = "CONNECTED"]
    [] w.st.init = "DISCONNECT" ->
         [w EXCEPT !.st.init = "INIT", !.serv = "DISCONNECTED"]
    [] OTHER -> w

TesterStep(w) ==
  CASE w.st.test = "TESTER_START" ->
         IF w.st.t_timer > CIRCLE_TESTER_U
         THEN [iec104_s_build_u(w, "TESTER")
                 EXCEPT !.st.t_test = 0, !.st.t_timer = 0, !.st.test = "TESTER_IDLE"]
         ELSE [w EXCEPT !.st.t_test = 0]
    [] w.st.test = "TESTER_IDLE" ->
         IF w.st.t_test > TESTER_U_TIMEOUT
         THEN [w EXCEPT !.close = TRUE, !.st.init = "INIT"]
         ELSE w
    [] w.st.test = "TESTER_STOP" ->
         [w EXCEPT !.st.t_test = Epoch, !.st.test = "TESTER_START"]

iec104_s_state_machine(w) ==
  LET l == LinkStep(w) IN IF l.st.init = "IDLE" THEN TesterStep(l) ELSE l

-----------------------------------------------------------------------------
(* The exec thread.                                                        *)

(* What a pass wrote and closed.                                           *)
SlaveInstall(w) ==
  /\ s' = w.st
  /\ s_serv' = w.serv
  /\ LET n == SlaveSent(net, s_client, w.out)
     IN  /\ net' = IF w.close THEN SlaveClosed(n, s_client) ELSE n
         /\ s_client' = IF w.close THEN NoConn ELSE s_client

SlaveStateMachine ==
  /\ s_pc = "state_machine"
  /\ SlaveInstall(iec104_s_state_machine(Work))
  /\ s_pc' = "recv"
  /\ UNCHANGED <<backlog, m_client, acc, s_rbuf, s_app, s_spon>>

(* link_recv: some of the frames that arrived, or none.                    *)
SlaveRecv ==
  /\ s_pc = "recv"
  /\ \/ /\ \E k \in 1 .. Len(SlaveInbox) :
             /\ s_rbuf' = SubSeq(SlaveInbox, 1, k)
             /\ net' = [net EXCEPT ![s_client].up = SubSeq(@, k + 1, Len(@))]
        /\ s_pc' = "parse"
     \/ /\ SlaveInbox = <<>>
        /\ s_pc' = "state_machine"
        /\ UNCHANGED <<net, s_rbuf>>
  /\ UNCHANGED <<backlog, m_client, s_client, acc, s, s_app, s_serv, s_spon>>

(* One turn of the loop of iec104_s_frame_parse.                           *)
SlaveParse ==
  /\ s_pc = "parse"
  /\ \E w \in iec104_s_frame_parse(Work, Head(s_rbuf)) : SlaveInstall(w)
  /\ s_rbuf' = Tail(s_rbuf)
  /\ s_pc' = IF Len(s_rbuf) = 1 THEN "state_machine" ELSE "parse"
  /\ UNCHANGED <<backlog, m_client, acc, s_app, s_spon>>

-----------------------------------------------------------------------------
(* The accept thread: tcp_accept_thread calling eth_link_aceept_cb.        *)

(* Variants: the old client is dropped without a close; the callback does  *)
(* not sleep; a second client waits until the first has gone.              *)
AcceptWithoutClose ==
  /\ acc.pc = "accept" /\ backlog # <<>>
  /\ acc' = [pc |-> IF s_client = NoConn THEN "conn" ELSE "sleep", tcp |-> Head(backlog)]
  /\ net' = [net EXCEPT ![Head(backlog)].slv = "open"]
  /\ s_client' = NoConn
  /\ backlog' = Tail(backlog)
  /\ UNCHANGED <<m_client, slaveVars>>

AcceptWithoutSleep ==
  /\ acc.pc = "accept" /\ backlog # <<>>
  /\ acc' = [pc |-> "conn", tcp |-> Head(backlog)]
  /\ net' = SlaveClosed([net EXCEPT ![Head(backlog)].slv = "open"], s_client)
  /\ s_client' = NoConn
  /\ backlog' = Tail(backlog)
  /\ UNCHANGED <<m_client, slaveVars>>

AcceptWhenFree ==
  /\ acc.pc = "accept" /\ backlog # <<>> /\ s_client = NoConn
  /\ acc' = [pc |-> "conn", tcp |-> Head(backlog)]
  /\ net' = [net EXCEPT ![Head(backlog)].slv = "open"]
  /\ backlog' = Tail(backlog)
  /\ UNCHANGED <<m_client, s_client, slaveVars>>

AcceptClient ==
  /\ acc.pc = "accept" /\ backlog # <<>>
  /\ LET c == Head(backlog)
         n == [net EXCEPT ![c].slv = "open"]
     IN  /\ acc' = [pc |-> IF s_client = NoConn THEN "conn" ELSE "sleep", tcp |-> c]
         /\ net' = SlaveClosed(n, s_client)
  /\ s_client' = NoConn
  /\ backlog' = Tail(backlog)
  /\ UNCHANGED <<m_client, slaveVars>>

(* The end of sleep(1).                                                    *)
AcceptWake ==
  /\ acc.pc = "sleep"
  /\ SleepOutlastsParse => s_pc # "parse"
  /\ acc' = [acc EXCEPT !.pc = "conn"]
  /\ UNCHANGED <<net, backlog, m_client, s_client, slaveVars>>

(* port->conn, which is iec104_s_reset_param.                              *)
AcceptConnected ==
  /\ acc.pc = "conn"
  /\ s' = iec104_s_reset_param(s)
  /\ acc' = [acc EXCEPT !.pc = "install"]
  /\ UNCHANGED <<net, backlog, m_client, s_client, s_pc, s_rbuf, s_app, s_serv, s_spon>>

AcceptInstall ==
  /\ acc.pc = "install"
  /\ s_client' = acc.tcp
  /\ acc' = [pc |-> "accept", tcp |-> NoConn]
  /\ UNCHANGED <<net, backlog, m_client, slaveVars>>

-----------------------------------------------------------------------------
(* The application thread: wow_iec104_s_build_yx_spon / _yc_spon.  The     *)
(* state is checked and build_send read; build_send++ written back and the *)
(* frame built; the frame written to whatever client there is then.        *)

SponBegin ==
  /\ s_app.pc = "idle" /\ s_spon < MaxSpon
  /\ s.init = "IDLE"
  /\ s_app' = [s_app EXCEPT !.pc = "put", !.sn = s.build_send]
  /\ s_spon' = s_spon + 1
  /\ UNCHANGED <<linkVars, s, s_pc, s_rbuf, s_serv>>

SponPut ==
  /\ s_app.pc = "put"
  /\ s' = [s EXCEPT !.build_send = (s_app.sn + 1) % SnMod]
  /\ \E ty \in SponTypes :
       s_app' = [s_app EXCEPT !.pc = "send",
                   !.fr = IFrame(ty, "SPONT", FALSE, FALSE, 0, s_app.sn, s.build_recv)]
  /\ UNCHANGED <<linkVars, s_pc, s_rbuf, s_serv, s_spon>>

SponSend ==
  /\ s_app.pc = "send"
  /\ net' = SlaveSent(net, s_client, <<s_app.fr>>)
  /\ s_app' = AppIdle
  /\ UNCHANGED <<backlog, m_client, s_client, acc, s, s_pc, s_rbuf, s_serv, s_spon>>

-----------------------------------------------------------------------------
(* calloc, iec104_s_reset_param and wow_iec104_s_start.                    *)
SlaveInit ==
  /\ s = [init |-> "INIT", test |-> "TESTER_START", build_send |-> 0, build_recv |-> 0,
          t_test |-> Epoch, t_timer |-> Epoch]
  /\ s_pc = "state_machine"
  /\ s_rbuf = <<>>
  /\ s_app = AppIdle
  /\ s_serv = "none"
  /\ s_spon = 0

SlaveExec == SlaveStateMachine \/ SlaveRecv \/ SlaveParse
SlaveAccept == AcceptClient \/ AcceptWake \/ AcceptConnected \/ AcceptInstall
SlaveApp == SponBegin \/ SponPut \/ SponSend

(* iec104_s_reset_param runs in this step.                                 *)
SlaveResets == \/ s.init = "INIT" /\ s'.init # "INIT"
               \/ acc.pc = "conn" /\ acc'.pc # acc.pc

(* Another thread renumbers, or sends a numbered frame, while the          *)
(* application thread has a number in hand.                                *)
SponOvertaken ==
  /\ s_app.pc # "idle" /\ s_app' = s_app
  /\ \/ s'.build_send # s.build_send \/ SlaveResets
     \/ \E c \in Conns : \E i \in Len(net[c].down) + 1 .. Len(net'[c].down) :
          net'[c].down[i].f = "I"

(* One tick of the slave's clock.                                          *)
SlaveAged(st) == [st EXCEPT !.t_test = Older(@), !.t_timer = Older(@)]

==============================================================================
