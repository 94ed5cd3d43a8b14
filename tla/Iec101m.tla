------------------------------- MODULE Iec101m -------------------------------
(***************************************************************************)
(* The IEC 101 master (wow_iec101m.c): the exec thread, as in the slave,   *)
(* and the application thread that starts interrogations and commands: it  *)
(* sends the frame first and stores the state of the operation after.      *)
(***************************************************************************)
EXTENDS Iec101Frame

CONSTANTS MasterOps,   \* what the application asks for
          MaxCmds,     \* bound: calls of the application in a behaviour
          MaxYt        \* bound: set points the master executes

ASSUME MasterAssumption ==
  MasterOps \subseteq {"call_all", "call_pulse", "yk", "yk2", "yt"} /\ MaxCmds \in Nat
  /\ MaxYt \in Nat

VARIABLES m,        \* Iec101m_T: states, tack and timers
          m_app,    \* the call the application is in: its frame is sent
          m_cmds,   \* calls so far
          m_yt      \* set points executed so far

masterVars == <<m, m_app, m_cmds, m_yt>>

MasterTypeOK ==
  /\ m \in Stations
  /\ m_app \in MasterOps \cup {"none"}
  /\ m_cmds \in 0 .. MaxCmds /\ m_yt \in 0 .. MaxYt

-----------------------------------------------------------------------------
iec101_m_build_request_user_ack(w)    == Send(w, Fixed("REQ_USR_DATA_1"))
iec101_m_build_request_user_data(w)   == Send(w, Fixed("REQ_USR_DATA_2"))
iec101_m_build_request_link_status(w) == Send(w, Fixed("REQ_LINK_STATUS"))
iec101_m_build_reset_remote_link(w)   == Send(w, Fixed("RESET_LINK"))

(* The execution of a confirmed command: its objects without the select    *)
(* bit.                                                                    *)
iec101_m_build_yk_ack(w, fr) == Send(w, [fr EXCEPT !.cot = "ACT", !.sel = FALSE])

(* For a set point the length of the frame is computed from a null         *)
(* pointer: the frame is whole or cut at an arbitrary byte, with a fitting *)
(* checksum.  The works it may leave behind; at most MaxYt readable frames *)
(* in a behaviour, as each makes the slave acknowledge the command again.  *)
iec101_m_build_yt_ack(w, fr) ==
  {w} \cup {[Send(w, [fr EXCEPT !.cot = "ACT", !.sel = b]) EXCEPT !.ev = {"yt_sent"}] :
              b \in {x \in BOOLEAN : m_yt < MaxYt}}

-----------------------------------------------------------------------------
(* ASDU handlers; each leaves one of a set of works.                       *)
iec101_m_asdu_yx(w, fr) ==
  IF fr.cot \in {"INTROGEN", "SPONT"} THEN iec101_m_build_request_user_ack(w) ELSE w

(* A normalised value, spontaneous or not, moves the interrogation to YC.  *)
iec101_m_asdu_yc(w, fr) ==
  IF fr.cot \notin {"INTROGEN", "SPONT"} THEN w
  ELSE iec101_m_build_request_user_ack(
         IF fr.ty = "M_ME_NA" THEN [w EXCEPT !.st.callall = "YC"] ELSE w)

(* Counters are expected with the cause REQ; the slave sends REQCOGEN.     *)
iec101_m_asdu_ym(w, fr) == IF fr.cot = "REQ" THEN iec101_m_build_request_user_ack(w) ELSE w

(* Variant: the confirmation is taken for the end.                         *)
ConfirmEndsCall(w, fr) ==
  IF fr.cot \in {"ACTCON", "ACTTERM"} THEN [w EXCEPT !.st.callall = "SUCCESS"] ELSE w

iec101_m_asdu_call_all(w, fr) ==
  CASE fr.cot = "ACTCON"  -> iec101_m_build_request_user_ack([w EXCEPT !.st.callall = "YX"])
    [] fr.cot = "ACTTERM" -> [w EXCEPT !.st.callall = "SUCCESS"]
    [] OTHER -> w
iec101_m_asdu_call_pulse(w, fr) ==
  CASE fr.cot = "ACTCON"  -> iec101_m_build_request_user_ack([w EXCEPT !.st.callpulse = "YM"])
    [] fr.cot = "ACTTERM" -> [w EXCEPT !.st.callpulse = "SUCCESS"]
    [] OTHER -> w

(* A negative answer stores a service event in stat.yk: no state of yk.    *)
iec101_m_asdu_yk(w, fr) ==
  CASE fr.cot = "ACTCON"  ->
         LET g == [w EXCEPT !.st.yk = "EXEC"]
         IN  IF w.st.init = "IDLE" THEN iec101_m_build_yk_ack(g, fr) ELSE g
    [] fr.cot = "ACTTERM" -> [w EXCEPT !.st.yk = "SUCCESS"]
    [] OTHER -> [w EXCEPT !.st.yk = "ODD"]
iec101_m_asdu_yt(w, fr) ==
  CASE fr.cot = "ACTCON"  ->
         LET g == [w EXCEPT !.st.yt = "EXEC"]
         IN  IF w.st.init = "IDLE" THEN iec101_m_build_yt_ack(g, fr) ELSE {g}
    [] fr.cot = "ACTTERM" -> {[w EXCEPT !.st.yt = "SUCCESS"]}
    [] OTHER -> {[w EXCEPT !.st.yt = "ODD"]}

iec101_m_deal_10(w, fr) ==
  CASE fr.fn = "RES_LINK_STATUS" ->
         [iec101_m_build_reset_remote_link(w) EXCEPT !.st.init = "CONNECT_OK"]
    [] fr.fn = "CONFIRM_ACK" -> [w EXCEPT !.st.tack = 1]
    [] OTHER -> w

(* Counters fall through to the handler of the general interrogation.      *)
iec101_m_deal_68(w, fr) ==
  CASE fr.ty = "M_SP" -> {iec101_m_asdu_yx(w, fr)}
    [] fr.ty \in {"M_ME_NA", "M_ME_NC"} -> {iec101_m_asdu_yc(w, fr)}
    [] fr.ty = "M_IT" -> {iec101_m_asdu_call_all(iec101_m_asdu_ym(w, fr), fr)}
    [] fr.ty = "C_IC" -> {iec101_m_asdu_call_all(w, fr)}
    [] fr.ty = "C_CI" -> {iec101_m_asdu_call_pulse(w, fr)}
    [] fr.ty = "C_SC" -> {iec101_m_asdu_yk(w, fr)}
    [] fr.ty = "C_SE" -> iec101_m_asdu_yt(w, fr)

-----------------------------------------------------------------------------
(* The machines.                                                           *)
iec101_m_reset_param(st) == [st EXCEPT !.init = "INIT", !.callall = "IDLE", !.callpulse = "IDLE",
                              !.yt = "IDLE", !.yk = "IDLE", !.tack = 0]

(* Only one request for the link status is ever sent.                      *)
iec101_m_state_machine_work(w) ==
  CASE w.st.init = "INIT" -> [w EXCEPT !.st = [iec101_m_reset_param(@) EXCEPT !.init = "OPEN"]]
    [] w.st.init = "OPEN" ->
         [iec101_m_build_request_link_status(w) EXCEPT !.st.init = "CONNECT"]
    [] w.st.init = "CONNECT_OK" /\ w.st.tack = 1 ->
         Report([w EXCEPT !.st.tack = 0, !.st.init = "IDLE"], "CONNECTED")
    [] w.st.init = "IDLE" /\ Expired(w, "init") ->
         Restart(iec101_m_build_request_user_data(w), "init")
    [] OTHER -> w

(* While an operation waits for its answer the master asks for data each   *)
(* time the slave has acknowledged something.                              *)
AskForData(w) == IF w.st.tack = 1
                 THEN [iec101_m_build_request_user_ack(w) EXCEPT !.st.tack = 0] ELSE w

(* A late interrogation stores a service event: it ends in no state.       *)
iec101_m_state_machine_callall(w) ==
  LET late(g) == IF Expired(w, "callall") THEN [g EXCEPT !.st.callall = "ODD"] ELSE g
  IN  CASE w.st.callall = "START"   -> [Restart(w, "callall") EXCEPT !.st.callall = "CONFIRM"]
        [] w.st.callall = "CONFIRM" -> late(AskForData(w))
        [] w.st.callall \in {"YX", "YC"} -> late(w)
        [] w.st.callall = "SUCCESS" ->
             Report([iec101_m_build_request_user_ack(w) EXCEPT !.st.callall = "IDLE"],
                    "CALL_ALL_SUCCESS")
        [] w.st.callall = "FAILD" -> Report([w EXCEPT !.st.callall = "IDLE"], "CALL_ALL_FAILD")
        [] OTHER -> w

iec101_m_state_machine_callpulse(w) ==
  LET late(g) == IF Expired(w, "callpulse") THEN [g EXCEPT !.st.callpulse = "ODD"] ELSE g
  IN  CASE w.st.callpulse = "START" -> [Restart(w, "callpulse") EXCEPT !.st.callpulse = "CONFIRM"]
        [] w.st.callpulse = "CONFIRM" -> late(AskForData(w))
        [] w.st.callpulse = "YM" -> late(w)
        [] w.st.callpulse = "SUCCESS" ->
             Restart(Report([iec101_m_build_request_user_ack(w) EXCEPT !.st.callpulse = "IDLE"],
                            "CALL_PULSE_SUCCESS"), "init")
        [] w.st.callpulse = "FAILD" ->
             Report([w EXCEPT !.st.callpulse = "IDLE"], "CALL_PULSE_FAILD")
        [] OTHER -> w

iec101_m_state_machine_yt(w) ==
  CASE w.st.yt = "START" -> [Restart(w, "yt") EXCEPT !.st.yt = "CONFIRM"]
    [] w.st.yt \in {"CONFIRM", "EXEC"} ->
         [AskForData(w) EXCEPT !.st.yt = IF Expired(w, "yt") THEN "FAILD" ELSE @]
    [] w.st.yt = "SUCCESS" -> Report([w EXCEPT !.st.yt = "IDLE"], "YT_CMD_SUCCESS")
    [] w.st.yt = "FAILD"   -> Report([w EXCEPT !.st.yt = "IDLE"], "YT_CMD_FAILD")
    [] OTHER -> w

iec101_m_state_machine_yk(w) ==
  CASE w.st.yk = "START" -> [Restart(w, "yk") EXCEPT !.st.yk = "CONFIRM"]
    [] w.st.yk \in {"CONFIRM", "EXEC"} ->
         [AskForData(w) EXCEPT !.st.yk = IF Expired(w, "yk") THEN "FAILD" ELSE @]
    [] w.st.yk = "SUCCESS" -> Report([w EXCEPT !.st.yk = "IDLE"], "YK_CMD_SUCCESS")
    [] w.st.yk = "FAILD"   -> Report([w EXCEPT !.st.yk = "IDLE"], "YK_CMD_FAILD")
    [] OTHER -> w

(* The works a pass may leave behind; the other machines run on a link     *)
(* that is up.                                                             *)
iec101_m_state_machine(works) ==
  LET linked == {iec101_m_state_machine_work(w) : w \in works}
      called == {iec101_m_state_machine_callall(w) : w \in {g \in linked : g.st.init = "IDLE"}}
      pulsed == {iec101_m_state_machine_callpulse(w) : w \in called}
      ytdone == {iec101_m_state_machine_yt(w) : w \in pulsed}
  IN  {g \in linked : g.st.init # "IDLE"} \cup {iec101_m_state_machine_yk(w) : w \in ytdone}

-----------------------------------------------------------------------------
(* Steps of the two threads.                                               *)
MasterInit ==
  /\ m = iec101_m_reset_param([init |-> "INIT", callall |-> "IDLE", callpulse |-> "IDLE", yt |-> "IDLE",
                      yk |-> "IDLE", tack |-> 0, due |-> Timers])
  /\ m_app = "none" /\ m_cmds = 0 /\ m_yt = 0

(* A pass of iec101_m_exec_thread.                                         *)
iec101_m_frame_parse ==
  IF up = <<>> THEN {Work(m)}
  ELSE IF Head(up).f = 10 THEN {iec101_m_deal_10(Work(m), Head(up))}
  ELSE iec101_m_deal_68(Work(m), Head(up))

iec101_m_exec_thread(w) ==
  /\ up # <<>> \/ Len(down) < MaxQ
  /\ m' = w.st
  /\ down' = down \o w.out
  /\ up' = IF up = <<>> THEN up ELSE Tail(up)
  /\ m_yt' = m_yt + (IF "yt_sent" \in w.ev THEN 1 ELSE 0)
  /\ UNCHANGED <<m_app, m_cmds>>

(* The frame each call of the application builds.                          *)
CallFrame(op) ==
  CASE op = "call_all"   -> Asdu("C_IC", "ACT", FALSE, <<>>)
    [] op = "call_pulse" -> Asdu("C_CI", "ACT", FALSE, <<>>)
    [] op = "yk"  -> Asdu("C_SC", "ACT", TRUE, <<"point">>)
    [] op = "yk2" -> Asdu("C_SC", "ACT", TRUE, <<"point", "point">>)
    [] op = "yt"  -> Asdu("C_SE", "ACT", TRUE, <<"point">>)

(* The interrogations do not ask whether the link is up.                   *)
AppSend(op) ==
  /\ m_app = "none" /\ m_cmds < MaxCmds /\ Len(down) < MaxQ
  /\ op \in {"yk", "yk2", "yt"} => m.init = "IDLE"
  /\ down' = Append(down, CallFrame(op))
  /\ m_app' = op /\ m_cmds' = m_cmds + 1
  /\ UNCHANGED <<m, m_yt, up>>

AppStore ==
  /\ m_app # "none"
  /\ m' = CASE m_app = "call_all"   -> [m EXCEPT !.callall = "START"]
            [] m_app = "call_pulse" -> [m EXCEPT !.callpulse = "START"]
            [] m_app \in {"yk", "yk2"} -> [m EXCEPT !.yk = "START"]
            [] m_app = "yt" -> [m EXCEPT !.yt = "START"]
  /\ m_app' = "none"
  /\ UNCHANGED <<m_cmds, m_yt, down, up>>

==============================================================================
