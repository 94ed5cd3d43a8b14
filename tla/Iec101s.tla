------------------------------- MODULE Iec101s -------------------------------
(***************************************************************************)
(* The IEC 101 slave (wow_iec101s.c).  Its exec thread parses one frame,   *)
(* then runs the machines of the link, the two interrogations and the two  *)
(* kinds of commands; the application reports changes from its own thread. *)
(* A handler is a function of the work record of its step.                 *)
(***************************************************************************)
EXTENDS Iec101Frame

CONSTANTS MaxSpon   \* bound: spontaneous reports in a behaviour

ASSUME ReportsAssumption == MaxSpon \in Nat

VARIABLES s,        \* Iec101s_T: states, tack and timers
          s_bak,    \* back.yk_bak and back.yt_bak: copies of the commands
          s_spon    \* spontaneous reports so far

slaveVars == <<s, s_bak, s_spon>>

NoCopy == [ty |-> "none"]

SlaveTypeOK ==
  /\ s \in Stations
  /\ \A c \in {"yk", "yt"} : s_bak[c] = NoCopy \/ IsFrame(s_bak[c])
  /\ s_spon \in 0 .. MaxSpon

-----------------------------------------------------------------------------
(* Frames the slave builds.                                                *)
iec101_s_build_link_status_ack(w)   == Send(w, Fixed("RES_LINK_STATUS"))
iec101_s_build_request_confirm(w)   == Send(w, Fixed("CONFIRM_ACK"))
iec101_s_build_request_user_nack(w) == Send(w, Fixed("RES_USR_DATA_NACK"))
iec101_s_build_request_user_ack(w)  == Send(w, Fixed("CONFIRM_ACK"))

SubLists(w, k, ty, cot) ==
  [w EXCEPT !.out = @ \o [i \in 1 .. k |-> Asdu(ty, cot, FALSE, <<>>)]]
iec101_s_build_yx(w) == SubLists(w, YxFrames, "M_SP", "INTROGEN")
iec101_s_build_yc(w) == SubLists(SubLists(w, YcnFrames, "M_ME_NA", "INTROGEN"),
                                 YcfFrames, "M_ME_NC", "INTROGEN")
iec101_s_build_ym(w) == SubLists(w, YmFrames, "M_IT", "REQCOGEN")

iec101_s_build_call_ack(w)   == Send(w, Asdu("C_IC", "ACTCON", FALSE, <<>>))
iec101_s_build_call_finsh(w) == Send(w, Asdu("C_IC", "ACTTERM", FALSE, <<>>))

(* The acknowledgement of a command repeats its copy, cut to the length of *)
(* a fixed part and one byte per object: one single command fits, anything *)
(* longer is overwritten by the checksum and the end byte.                 *)
Cut(fr) == IF fr.ty = "C_SC" /\ Len(fr.obj) = 1 THEN fr.obj
           ELSE [i \in 1 .. Len(fr.obj) |->
                   IF i = 1 /\ fr.ty = "C_SC" THEN fr.obj[1] ELSE "junk"]
iec101_s_build_yk_ack(w, cot) ==
  Send(w, [s_bak.yk EXCEPT !.cot = cot, !.obj = Cut(s_bak.yk)])
iec101_s_build_yt_ack(w, cot) ==
  Send(w, [s_bak.yt EXCEPT !.cot = cot, !.obj = Cut(s_bak.yt)])

-----------------------------------------------------------------------------
(* ASDU and frame handlers.                                                *)
iec101_s_asdu_call_all(w, fr) ==
  IF fr.cot = "ACT" THEN [w EXCEPT !.st.callall = "START"] ELSE w

(* The state of a counter interrogation goes to stat.callall.              *)
iec101_s_asdu_call_pulse(w, fr) ==
  IF fr.cot = "ACT" THEN [w EXCEPT !.st.callall = "ODD"] ELSE w

iec101_s_asdu_yk(w, fr) ==
  IF fr.cot # "ACT" THEN w
  ELSE IF fr.sel THEN [w EXCEPT !.st.yk = "START"]
  ELSE [w EXCEPT !.st.yk = "EXEC", !.set = fr.obj]

(* Executed or only selected, a set point starts the yt machine over; an   *)
(* executed one puts the yk machine into EXEC.                             *)
iec101_s_asdu_yt(w, fr) ==
  IF fr.cot # "ACT" THEN w
  ELSE IF fr.sel THEN [w EXCEPT !.st.yt = "START"]
  ELSE [w EXCEPT !.st.yk = "EXEC", !.st.yt = "START", !.set = fr.obj]

(* Variant: only an executed set point is copied.                          *)
BackupExecuted(fr) ==
  IF fr.f = 68 /\ fr.ty = "C_SC" THEN [s_bak EXCEPT !.yk = fr]
  ELSE IF fr.f = 68 /\ fr.ty = "C_SE" /\ ~fr.sel THEN [s_bak EXCEPT !.yt = fr] ELSE s_bak

(* The copies the two command handlers take.                               *)
Copies(fr) == fr.f = 68 /\ fr.cot = "ACT"
Backup(fr) ==
  IF Copies(fr) /\ fr.ty = "C_SC" /\ fr.sel THEN [s_bak EXCEPT !.yk = fr]
  ELSE IF Copies(fr) /\ fr.ty = "C_SE" THEN [s_bak EXCEPT !.yt = fr]
  ELSE s_bak

(* Variant: the reset of the link is not confirmed.                        *)
ResetUnconfirmed(w, fr) ==
  CASE fr.fn = "REQ_LINK_STATUS" ->
         [iec101_s_build_link_status_ack(w) EXCEPT !.st.init = "CONNECT_OK"]
    [] fr.fn = "REQ_USR_DATA_1"  -> [w EXCEPT !.st.tack = 1]
    [] OTHER -> w

iec101_s_deal_10(w, fr) ==
  CASE fr.fn = "RESET_LINK"      -> iec101_s_build_request_confirm(w)
    [] fr.fn = "REQ_LINK_STATUS" ->
         [iec101_s_build_link_status_ack(w) EXCEPT !.st.init = "CONNECT_OK"]
    [] fr.fn = "REQ_USR_DATA_1"  -> [w EXCEPT !.st.tack = 1]
    [] fr.fn = "REQ_USR_DATA_2"  -> iec101_s_build_request_user_nack(w)
    [] OTHER -> w

(* A counter interrogation falls through to the confirmation of C_CD.      *)
iec101_s_deal_68(w, fr) ==
  CASE fr.ty = "C_IC" -> iec101_s_asdu_call_all(w, fr)
    [] fr.ty = "C_CI" -> iec101_s_build_request_confirm(iec101_s_asdu_call_pulse(w, fr))
    [] fr.ty = "C_SC" -> iec101_s_asdu_yk(w, fr)
    [] fr.ty = "C_SE" -> iec101_s_asdu_yt(w, fr)
    [] OTHER -> w

-----------------------------------------------------------------------------
(* The machines.                                                           *)
iec101_s_reset_param(st) == [st EXCEPT !.init = "INIT", !.callall = "IDLE", !.callpulse = "IDLE",
                             !.yt = "IDLE", !.yk = "IDLE", !.tack = 0]

iec101_s_state_machine_work(w) ==
  CASE w.st.init = "INIT"       -> [w EXCEPT !.st = [iec101_s_reset_param(@) EXCEPT !.init = "OPEN"]]
    [] w.st.init = "OPEN"       -> [w EXCEPT !.st.init = "CONNECT"]
    [] w.st.init = "CONNECT_OK" -> Report([w EXCEPT !.st.init = "IDLE"], "CONNECTED")
    [] OTHER -> w

(* Variant: a stage without a timeout.                                     *)
StageWithoutTimeout(w, sent, next) ==
  IF w.st.tack = 1 THEN [w EXCEPT !.out = sent.out, !.st.tack = 0, !.st.callall = next] ELSE w

(* A stage of an interrogation: on a request for data it sends and goes    *)
(* on, and past the timeout it fails whatever it just did.                 *)
CallStage(w, sent, next) ==
  LET g == IF w.st.tack = 1
           THEN [w EXCEPT !.out = sent.out, !.st.tack = 0, !.st.callall = next] ELSE w
  IN  IF Expired(w, "callall") THEN [g EXCEPT !.st.callall = "FAILD"] ELSE g

iec101_s_state_machine_callall(w) ==
  CASE w.st.callall = "START" ->
         [iec101_s_build_request_user_ack(Restart(w, "callall")) EXCEPT !.st.callall = "CONFIRM"]
    [] w.st.callall = "CONFIRM" -> CallStage(w, iec101_s_build_call_ack(w), "YX")
    [] w.st.callall = "YX"      -> CallStage(w, iec101_s_build_yx(w), "YC")
    [] w.st.callall = "YC"      -> CallStage(w, iec101_s_build_yc(w), "SUCCESS")
    [] w.st.callall = "SUCCESS" /\ w.st.tack = 1 ->
         Report([iec101_s_build_call_finsh(w) EXCEPT !.st.tack = 0, !.st.callall = "IDLE"],
                "CALL_ALL_SUCCESS")
    [] w.st.callall = "FAILD" -> Report([w EXCEPT !.st.callall = "IDLE"], "CALL_ALL_FAILD")
    [] OTHER -> w

(* A late stage YM writes stat.callall.                                    *)
iec101_s_state_machine_callpulse(w) ==
  LET late == Expired(w, "callpulse")
      sent(g, next) == IF w.st.tack = 1
                       THEN [w EXCEPT !.out = g.out, !.st.tack = 0, !.st.callpulse = next]
                       ELSE w
  IN  CASE w.st.callpulse = "START" ->
             [iec101_s_build_request_user_ack(Restart(w, "callpulse"))
                EXCEPT !.st.callpulse = "CONFIRM"]
        [] w.st.callpulse = "CONFIRM" ->
             IF late THEN [sent(iec101_s_build_call_ack(w), "YM") EXCEPT !.st.callpulse = "IDLE"]
             ELSE sent(iec101_s_build_call_ack(w), "YM")
        [] w.st.callpulse = "YM" ->
             IF late THEN [sent(iec101_s_build_ym(w), "SUCCESS") EXCEPT !.st.callall = "ODD"]
             ELSE sent(iec101_s_build_ym(w), "SUCCESS")
        [] w.st.callpulse = "SUCCESS" ->
             IF w.st.tack = 1 THEN Report(sent(iec101_s_build_call_finsh(w), "IDLE"),
                                          "CALL_PULSE_SUCCESS") ELSE w
        [] OTHER -> w

(* CONFIRM acknowledges on every request for data until the command is     *)
(* executed or too old.                                                    *)
iec101_s_state_machine_yt(w) ==
  CASE w.st.yt = "START" ->
         [iec101_s_build_request_user_ack(Restart(w, "yt")) EXCEPT !.st.yt = "CONFIRM"]
    [] w.st.yt = "CONFIRM" ->
         LET g == IF w.st.tack = 1
                  THEN [iec101_s_build_yt_ack(w, "ACTCON") EXCEPT !.st.tack = 0] ELSE w
         IN  IF Expired(w, "yt") THEN [g EXCEPT !.st.yt = "FAILD"] ELSE g
    [] w.st.yt = "EXEC" ->
         [iec101_s_build_request_user_ack(w) EXCEPT !.st.tack = 0,
            !.st.yt = IF Expired(w, "yt") THEN "FAILD" ELSE "SUCCESS"]
    [] w.st.yt = "SUCCESS" ->
         [IF w.st.tack = 1 THEN Report(iec101_s_build_yt_ack(w, "ACTTERM"), "YT_CMD_SUCCESS")
          ELSE w EXCEPT !.st.tack = 0, !.st.yt = "IDLE"]
    [] w.st.yt = "FAILD" -> Report([w EXCEPT !.st.yt = "IDLE"], "YT_CMD_FAILD")
    [] OTHER -> w

(* EXEC stores its successor in stat.yt: the yk machine stays in EXEC and  *)
(* acknowledges in every pass until the command is too old.                *)
iec101_s_state_machine_yk(w) ==
  CASE w.st.yk = "START" ->
         [iec101_s_build_request_user_ack(Restart(w, "yk")) EXCEPT !.st.yk = "CONFIRM"]
    [] w.st.yk = "CONFIRM" ->
         LET g == IF w.st.tack = 1
                  THEN [iec101_s_build_yk_ack(w, "ACTCON") EXCEPT !.st.tack = 0] ELSE w
         IN  IF Expired(w, "yk") THEN [g EXCEPT !.st.yk = "FAILD"] ELSE g
    [] w.st.yk = "EXEC" ->
         [iec101_s_build_request_user_ack(w) EXCEPT !.st.yt = "ODD", !.st.tack = 0,
            !.st.yk = IF Expired(w, "yk") THEN "FAILD" ELSE @]
    [] w.st.yk = "SUCCESS" ->
         [IF w.st.tack = 1 THEN Report(iec101_s_build_yk_ack(w, "ACTTERM"), "YK_CMD_SUCCESS")
          ELSE w EXCEPT !.st.tack = 0, !.st.yk = "IDLE"]
    [] w.st.yk = "FAILD" -> Report([w EXCEPT !.st.yk = "IDLE"], "YK_CMD_FAILD")
    [] OTHER -> w

(* The works a pass may leave behind; the other machines run on a link     *)
(* that is up.                                                             *)
iec101_s_state_machine(works) ==
  LET linked == {iec101_s_state_machine_work(w) : w \in works}
      called == {iec101_s_state_machine_callall(w) : w \in {g \in linked : g.st.init = "IDLE"}}
      pulsed == {iec101_s_state_machine_callpulse(w) : w \in called}
      ytdone == {iec101_s_state_machine_yt(w) : w \in pulsed}
  IN  {g \in linked : g.st.init # "IDLE"} \cup {iec101_s_state_machine_yk(w) : w \in ytdone}

(* yk_bak is freed when the yk machine ends a command.                     *)
FreedCopy(w, bak) == IF w.ev \cap {"YK_CMD_SUCCESS", "YK_CMD_FAILD"} # {}
                     THEN [bak EXCEPT !.yk = NoCopy] ELSE bak

-----------------------------------------------------------------------------
(* Steps of the two threads.                                               *)
SlaveInit ==
  /\ s = iec101_s_reset_param([init |-> "INIT", callall |-> "IDLE", callpulse |-> "IDLE", yt |-> "IDLE",
                     yk |-> "IDLE", tack |-> 0, due |-> Timers])
  /\ s_bak = [yk |-> NoCopy, yt |-> NoCopy] /\ s_spon = 0

(* A pass of iec101_s_exec_thread: one frame that has arrived, if any, is  *)
(* dealt with, then the machines run.                                      *)
iec101_s_frame_parse ==
  {IF down = <<>> THEN Work(s)
   ELSE IF Head(down).f = 10 THEN iec101_s_deal_10(Work(s), Head(down))
   ELSE iec101_s_deal_68(Work(s), Head(down))}

iec101_s_exec_thread(w) ==
  /\ down # <<>> \/ Len(up) < MaxQ
  /\ s' = w.st
  /\ up' = up \o w.out
  /\ down' = IF down = <<>> THEN down ELSE Tail(down)
  /\ s_bak' = FreedCopy(w, IF down = <<>> THEN s_bak ELSE Backup(Head(down)))
  /\ UNCHANGED s_spon

(* The application reports an indication or a measured value.              *)
wow_iec101_s_build_spon(ty) ==
  /\ s.init = "IDLE" /\ s_spon < MaxSpon /\ Len(up) < MaxQ
  /\ up' = Append(up, Asdu(ty, "SPONT", FALSE, <<>>))
  /\ s_spon' = s_spon + 1
  /\ UNCHANGED <<s, s_bak, down>>

==============================================================================
