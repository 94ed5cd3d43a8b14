------------------------------- MODULE Iec104m -------------------------------
(***************************************************************************)
(* The IEC 104 master (wow_iec104m.c): the exec thread                     *)
(* (iec104_m_exec_thread: receive, parse, state machine) and the           *)
(* application thread that issues interrogations and commands.  Nothing    *)
(* locks the fields the two share.                                         *)
(*                                                                         *)
(* As in Iec104s a handler is a function from the work record of one pass  *)
(* to the next.                                                            *)
(***************************************************************************)
EXTENDS Iec104Link

CONSTANTS MasterOps,  \* what the application asks for
          MaxCmds     \* bound: application calls in a behaviour

ASSUME MasterAssumption ==
  /\ MasterOps \subseteq {"call_all", "call_pulse", "yk0", "yk1", "yt"}
  /\ MaxCmds \in Nat

VARIABLES m,        \* Iec104m_T: stat, sn and time
          m_pc,     \* where the exec thread is in its loop
          m_rbuf,   \* recv_buf of the exec thread: frames not yet parsed
          m_app,    \* the application thread inside wow_iec104_m_build_*
          m_serv,   \* the last event reported through serv_cb
          m_cmds    \* application calls so far

masterVars == <<m, m_pc, m_rbuf, m_app, m_serv, m_cmds>>

(* build_send is kept modulo SnMod, as in the slave.                       *)
MasterStation == [init : LinkStates, test : TesterStates, build_send : Sn,
                  build_recv : 0 .. SnMod, deal_send : Sn \cup {-1}, deal_recv : Sn,
                  t_init : Ages, t_test : Ages, t_timer : Ages]

MasterEvents == {"none", "CONNECTED", "DISCONNECTED", "CLOCK_SYNC",
                 "CALL_ALL_SUCCESS", "CALL_ALL_FAILD", "CALL_PULSE_SUCCESS",
                 "CALL_PULSE_FAILD", "YK_CMD_SUCCESS", "YK_CMD_FAILD",
                 "YT_CMD_SUCCESS", "YT_CMD_FAILD"}

CmdIdle == [pc |-> "idle", op |-> "none", sn |-> 0, rs |-> 0]

MasterTypeOK ==
  /\ m \in MasterStation
  /\ m_pc \in {"recv", "parse", "state_machine"}
  /\ m_rbuf \in Seq(Frames)
  /\ m_app \in [pc : {"idle", "put", "send"}, op : MasterOps \cup {"none"},
                sn : Sn, rs : 0 .. SnMod]
  /\ m_serv \in MasterEvents
  /\ m_cmds \in 0 .. MaxCmds

-----------------------------------------------------------------------------
(* Frames the master builds in the exec thread.                            *)

MWork == [st |-> m, out |-> <<>>, close |-> FALSE, serv |-> m_serv]

iec104_m_build_u(w, fn) == [w EXCEPT !.out = Append(@, UFrame(fn))]

iec104_m_build_u_ack(w) == [w EXCEPT !.out = Append(@, UFrame("TESTER_ACK"))]

iec104_m_build_s_ack(w) == [w EXCEPT !.out = Append(@, SFrame(w.st.build_recv))]

(* The execute command: the acknowledged objects without the select bit.   *)
Execute(w, fr) ==
  [w EXCEPT !.out = Append(@, IFrame(fr.ty, "ACT", fr.ia0, FALSE, fr.val,
                                     w.st.build_send, w.st.build_recv)),
            !.st.build_send = (@ + 1) % SnMod]

iec104_m_build_yk_ack(w, fr) == Execute(w, fr)
iec104_m_build_yt_ack(w, fr) == Execute(w, fr)

-----------------------------------------------------------------------------
(* ASDU handlers.  The measured values of asdu_yx, asdu_yc and asdu_ym go  *)
(* to data_cb and change nothing of the station.                           *)

iec104_m_asdu_call_all(w, fr) ==
  CASE ~fr.ia0 \/ fr.cot = "ACTCON" -> w
    [] fr.ia0 /\ fr.cot \in {"INTROGEN", "ACTTERM"} ->
         iec104_m_build_s_ack([w EXCEPT !.serv = "CALL_ALL_SUCCESS"])
    [] OTHER -> [w EXCEPT !.serv = "CALL_ALL_FAILD"]

iec104_m_asdu_call_pulse(w, fr) ==
  CASE ~fr.ia0 \/ fr.cot = "ACTCON" -> w
    [] fr.ia0 /\ fr.cot \in {"INTROGEN", "ACTTERM"} ->
         iec104_m_build_s_ack([w EXCEPT !.serv = "CALL_PULSE_SUCCESS"])
    [] OTHER -> [w EXCEPT !.serv = "CALL_PULSE_FAILD"]

iec104_m_asdu_clock(w, fr) ==
  IF fr.ia0 /\ fr.cot \in {"SPONT", "ACT"}
  THEN iec104_m_build_s_ack([w EXCEPT !.serv = "CLOCK_SYNC"])
  ELSE w

(* Variant: every confirmation is answered by an execute command.          *)
YkExecutesAlways(w, fr) ==
  IF fr.cot = "ACTCON" THEN iec104_m_build_yk_ack(w, fr)
  ELSE [w EXCEPT !.serv = "YK_CMD_FAILD"]

(* sco && 0x80 is true for every sco other than 0.                         *)
iec104_m_asdu_yk(w, fr) ==
  CASE fr.cot = "ACTCON" /\ (fr.sel \/ fr.val # 0) -> iec104_m_build_yk_ack(w, fr)
    [] fr.cot = "ACTCON" /\ ~fr.sel /\ fr.val = 0  -> [w EXCEPT !.serv = "YK_CMD_SUCCESS"]
    [] OTHER -> [w EXCEPT !.serv = "YK_CMD_FAILD"]

iec104_m_asdu_yt(w, fr) ==
  CASE fr.cot = "ACTCON"  -> iec104_m_build_yt_ack(w, fr)
    [] fr.cot = "ACTTERM" -> [w EXCEPT !.serv = "YT_CMD_SUCCESS"]
    [] OTHER -> [w EXCEPT !.serv = "YT_CMD_FAILD"]

(* The frames iec104_m_deal_sn takes.                                      *)
SnAccepted(st, fr) == fr.ss >= st.deal_send /\ fr.rs >= st.deal_recv

iec104_m_deal_sn(w, fr) ==
  [w EXCEPT !.st.build_recv = fr.ss + 1, !.st.deal_send = fr.ss, !.st.deal_recv = fr.rs]

iec104_m_frame_i_parse(w, fr) ==
  IF ~fr.own \/ ~SnAccepted(w.st, fr) THEN w
  ELSE LET d == iec104_m_deal_sn(w, fr)
       IN  CASE fr.ty = "M_EI" -> iec104_m_build_s_ack(d)
             [] fr.ty = "C_IC" -> iec104_m_asdu_call_all(d, fr)
             [] fr.ty = "C_CI" -> iec104_m_asdu_call_pulse(d, fr)
             [] fr.ty = "C_CS" -> iec104_m_asdu_clock(d, fr)
             [] fr.ty = "C_SC" -> iec104_m_asdu_yk(d, fr)
             [] fr.ty = "C_SE" -> iec104_m_asdu_yt(d, fr)
             [] OTHER -> d

(* Variant: a test frame of the slave is not answered.                     *)
TesterUnanswered(w, fr) ==
  CASE fr.fn = "STARTDT_ACK" -> [w EXCEPT !.st.init = "CONNECT_OK"]
    [] fr.fn = "STOPDT_ACK"  -> [w EXCEPT !.st.init = "DISCONNECT"]
    [] fr.fn = "TESTER_ACK"  -> [w EXCEPT !.st.test = "TESTER_STOP"]
    [] OTHER -> w

iec104_m_frame_u_parse(w, fr) ==
  CASE fr.fn = "STARTDT_ACK" -> [w EXCEPT !.st.init = "CONNECT_OK"]
    [] fr.fn = "STOPDT_ACK"  -> [w EXCEPT !.st.init = "DISCONNECT"]
    [] fr.fn = "TESTER"      -> iec104_m_build_u_ack(w)
    [] fr.fn = "TESTER_ACK"  -> [w EXCEPT !.st.test = "TESTER_STOP"]
    [] OTHER -> w

(* One frame; every frame restarts time.timer.                             *)
iec104_m_frame_parse(w, fr) ==
  [(CASE fr.f = "I" -> iec104_m_frame_i_parse(w, fr)
      [] fr.f = "U" -> iec104_m_frame_u_parse(w, fr)
      [] fr.f = "S" -> w) EXCEPT !.st.t_timer = 0]

-----------------------------------------------------------------------------
(* The state machine.                                                      *)

(* Variant: the number of the last frame survives a reconnection.          *)
ResetKeepsDealSend(st) ==
  [st EXCEPT !.init = "INIT", !.test = "TESTER_START", !.build_send = 0, !.build_recv = 0,
             !.deal_recv = 0, !.t_init = Epoch, !.t_test = Epoch]

(* time.timer is not reset.                                                *)
iec104_m_reset_param(st) ==
  [st EXCEPT !.init = "INIT", !.test = "TESTER_START", !.build_send = 0, !.build_recv = 0,
             !.deal_send = -1, !.deal_recv = 0, !.t_init = Epoch, !.t_test = Epoch]

(* The link switch but for the OPEN state, which MasterOpen models.        *)
MLinkStep(w) ==
  CASE w.st.init = "INIT" ->
         [w EXCEPT !.st = [iec104_m_reset_param(w.st) EXCEPT !.init = "OPEN"]]
    [] w.st.init = "CONNECT" /\ w.st.t_init > CONNECT_TIMEOUT ->
         [w EXCEPT !.close = TRUE, !.st.init = "INIT"]
    [] w.st.init = "CONNECT_OK" ->
         [w EXCEPT !.st.t_init = Epoch, !.st.init = "IDLE", !.st.t_timer = 0,
                   !.serv = "CONNECTED"]
    [] w.st.init = "DISCONNECT" ->
         [w EXCEPT !.close = TRUE, !.st.init = "INIT", !.serv = "DISCONNECTED"]
    [] OTHER -> w

(* Variant: an unanswered test frame has no consequence.                   *)
MTesterStepNoTimeout(w) ==
  CASE w.st.test = "TESTER_START" ->
         IF w.st.t_timer > CIRCLE_TESTER_U
         THEN [iec104_m_build_u(w, "TESTER")
                 EXCEPT !.st.t_test = 0, !.st.t_timer = 0, !.st.test = "TESTER_IDLE"]
         ELSE [w EXCEPT !.st.t_test = 0]
    [] w.st.test = "TESTER_STOP" ->
         [w EXCEPT !.st.t_test = Epoch, !.st.test = "TESTER_START"]
    [] OTHER -> w

MTesterStep(w) ==
  CASE w.st.test = "TESTER_START" ->
         IF w.st.t_timer > CIRCLE_TESTER_U
         THEN [iec104_m_build_u(w, "TESTER")
                 EXCEPT !.st.t_test = 0, !.st.t_timer = 0, !.st.test = "TESTER_IDLE"]
         ELSE [w EXCEPT !.st.t_test = 0]
    [] w.st.test = "TESTER_IDLE" ->
         IF w.st.t_test > TESTER_U_TIMEOUT
         THEN [w EXCEPT !.close = TRUE, !.st.init = "INIT"]
         ELSE w
    [] w.st.test = "TESTER_STOP" ->
         [w EXCEPT !.st.t_test = Epoch, !.st.test = "TESTER_START"]

iec104_m_state_machine(w) ==
  LET l == MLinkStep(w) IN IF l.st.init = "IDLE" THEN MTesterStep(l) ELSE l

-----------------------------------------------------------------------------
(* The exec thread.                                                        *)

MasterInstall(w) ==
  /\ m' = w.st
  /\ m_serv' = w.serv
  /\ LET n == MasterSent(net, m_client, w.out)
     IN  /\ net' = IF w.close THEN MasterClosed(n, m_client) ELSE n
         /\ m_client' = IF w.close THEN NoConn ELSE m_client

MasterStateMachine ==
  /\ m_pc = "state_machine" /\ m.init # "OPEN"
  /\ MasterInstall(iec104_m_state_machine(MWork))
  /\ m_pc' = "recv"
  /\ UNCHANGED <<backlog, s_client, acc, m_rbuf, m_app, m_cmds>>

(* case OPEN: eth_link_client_open succeeds, and STARTDT is sent ...       *)
MasterOpen(c) ==
  /\ m_pc = "state_machine" /\ m.init = "OPEN"
  /\ net[c] = Fresh
  /\ net' = [net EXCEPT ![c].mst = "open", ![c].up = <<UFrame("STARTDT")>>]
  /\ backlog' = Append(backlog, c)
  /\ m_client' = c
  /\ m' = [m EXCEPT !.init = "CONNECT", !.t_timer = 0]
  /\ m_pc' = "recv"
  /\ UNCHANGED <<s_client, acc, m_rbuf, m_app, m_serv, m_cmds>>

(* ... or the connection is refused and the next pass tries again.         *)
MasterOpenFails ==
  /\ m_pc = "state_machine" /\ m.init = "OPEN"
  /\ m_pc' = "recv"
  /\ UNCHANGED <<linkVars, m, m_rbuf, m_app, m_serv, m_cmds>>

(* link_recv: some of the frames that arrived, or none.                    *)
MasterRecv ==
  /\ m_pc = "recv"
  /\ \/ /\ \E k \in 1 .. Len(MasterInbox) :
             /\ m_rbuf' = SubSeq(MasterInbox, 1, k)
             /\ net' = [net EXCEPT ![m_client].down = SubSeq(@, k + 1, Len(@))]
        /\ m_pc' = "parse"
     \/ /\ MasterInbox = <<>>
        /\ m_pc' = "state_machine"
        /\ UNCHANGED <<net, m_rbuf>>
  /\ UNCHANGED <<backlog, m_client, s_client, acc, m, m_app, m_serv, m_cmds>>

(* One turn of the loop of iec104_m_frame_parse.                           *)
MasterParse ==
  /\ m_pc = "parse"
  /\ MasterInstall(iec104_m_frame_parse(MWork, Head(m_rbuf)))
  /\ m_rbuf' = Tail(m_rbuf)
  /\ m_pc' = IF Len(m_rbuf) = 1 THEN "state_machine" ELSE "parse"
  /\ UNCHANGED <<backlog, s_client, acc, m_app, m_cmds>>

-----------------------------------------------------------------------------
(* The application thread: wow_iec104_m_build_call_all, _call_pulse, _yk   *)
(* and _yt.  The state is checked and build_send read; build_send++        *)
(* written back and the frame built; the frame written to whatever client  *)
(* there is then.                                                          *)

CmdFrame(op, ss, rs) ==
  CASE op = "call_all"   -> IFrame("C_IC", "ACT", TRUE, FALSE, 1, ss, rs)
    [] op = "call_pulse" -> IFrame("C_CI", "ACT", TRUE, FALSE, 1, ss, rs)
    [] op = "yk0"        -> IFrame("C_SC", "ACT", FALSE, TRUE, 0, ss, rs)
    [] op = "yk1"        -> IFrame("C_SC", "ACT", FALSE, TRUE, 1, ss, rs)
    [] op = "yt"         -> IFrame("C_SE", "ACT", FALSE, TRUE, 1, ss, rs)

CmdBegin(op) ==
  /\ m_app.pc = "idle" /\ m_cmds < MaxCmds
  /\ m.init = "IDLE"
  /\ m_app' = [pc |-> "put", op |-> op, sn |-> m.build_send, rs |-> 0]
  /\ m_cmds' = m_cmds + 1
  /\ UNCHANGED <<linkVars, m, m_pc, m_rbuf, m_serv>>

CmdPut ==
  /\ m_app.pc = "put"
  /\ m' = [m EXCEPT !.build_send = (m_app.sn + 1) % SnMod]
  /\ m_app' = [m_app EXCEPT !.pc = "send", !.rs = m.build_recv]
  /\ UNCHANGED <<linkVars, m_pc, m_rbuf, m_serv, m_cmds>>

CmdSend ==
  /\ m_app.pc = "send"
  /\ net' = MasterSent(net, m_client, <<CmdFrame(m_app.op, m_app.sn, m_app.rs)>>)
  /\ m_app' = CmdIdle
  /\ UNCHANGED <<backlog, m_client, s_client, acc, m, m_pc, m_rbuf, m_serv, m_cmds>>

-----------------------------------------------------------------------------
(* calloc, iec104_m_reset_param and wow_iec104_m_start.                    *)
MasterInit ==
  /\ m = [init |-> "INIT", test |-> "TESTER_START", build_send |-> 0, build_recv |-> 0,
          deal_send |-> -1, deal_recv |-> 0,
          t_init |-> Epoch, t_test |-> Epoch, t_timer |-> Epoch]
  /\ m_pc = "recv"
  /\ m_rbuf = <<>>
  /\ m_app = CmdIdle
  /\ m_serv = "none"
  /\ m_cmds = 0

MasterExec == \/ MasterStateMachine \/ MasterOpenFails \/ MasterRecv \/ MasterParse
              \/ \E c \in Conns : MasterOpen(c)
MasterApp == CmdPut \/ CmdSend \/ \E op \in MasterOps : CmdBegin(op)

MasterAged(st) == [st EXCEPT !.t_init = Older(@), !.t_test = Older(@), !.t_timer = Older(@)]

==============================================================================
