------------------------------- MODULE Iec101 -------------------------------
(***************************************************************************)
(* An IEC 101 master and a slave on one serial line that may destroy       *)
(* frames, their applications, and the passing of time.                    *)
(***************************************************************************)
EXTENDS Iec101s, Iec101m, Integers

CONSTANTS MaxLoss,  \* bound: frames the line destroys
          MaxBeats  \* bound: heartbeats

ASSUME BoundsAssumption == MaxLoss \in Nat /\ MaxBeats \in Nat

VARIABLES lost,     \* frames destroyed so far
          beats,    \* heartbeat periods that have passed
          told      \* single commands acknowledged and not executed, interrogations the
                    \* slave completed and the master did not, a damaged execution

vars == <<m, m_app, m_cmds, m_yt, s, s_bak, s_spon, down, up, lost, told, beats>>

Init == /\ MasterInit /\ SlaveInit
        /\ down = <<>> /\ up = <<>> /\ lost = 0 /\ beats = 0
        /\ told = [yk |-> 0, call |-> 0, damaged |-> FALSE]

(* The single commands of one object that a pass acknowledges, executes.   *)
Acked(out) == Cardinality({i \in 1 .. Len(out) : /\ out[i].ty = "C_SC" /\ out[i].cot = "ACTCON"
                                                 /\ Len(out[i].obj) = 1})
Executed == IF down = <<>> THEN {}
            ELSE {fr \in {Head(down)} : fr.ty = "C_SC" /\ ~fr.sel /\ Len(fr.obj) = 1}

Succeeded(w) == IF "CALL_ALL_SUCCESS" \in w.ev THEN 1 ELSE 0

SlaveExec ==
  /\ \E w \in iec101_s_state_machine(iec101_s_frame_parse) :
       /\ iec101_s_exec_thread(w)
       /\ told' = [yk |-> told.yk + Acked(w.out) - Cardinality(Executed),
                   call |-> told.call + Succeeded(w),
                   damaged |-> told.damaged \/ \E fr \in Executed : fr.obj # <<"point">>]
  /\ UNCHANGED <<masterVars, lost, beats>>

MasterExec ==
  /\ \E w \in iec101_m_state_machine(iec101_m_frame_parse) :
       /\ iec101_m_exec_thread(w)
       /\ told' = [told EXCEPT !.call = @ - Succeeded(w)]
  /\ UNCHANGED <<slaveVars, lost, beats>>

MasterApp == /\ (\E op \in MasterOps : AppSend(op)) \/ AppStore
             /\ UNCHANGED <<slaveVars, lost, told, beats>>

SlaveApp == /\ \E ty \in {"M_SP", "M_ME_NA", "M_ME_NC"} : wow_iec101_s_build_spon(ty)
            /\ UNCHANGED <<masterVars, lost, told, beats>>

(* Noise destroys the frame in front of a queue.                           *)
Noise ==
  /\ lost < MaxLoss /\ lost' = lost + 1
  /\ \/ down # <<>> /\ down' = Tail(down) /\ UNCHANGED up
     \/ up # <<>> /\ up' = Tail(up) /\ UNCHANGED down
  /\ UNCHANGED <<masterVars, slaveVars, told, beats>>

(* The period of a timer a station measures runs out; the heartbeat's at   *)
(* most MaxBeats times after the first.                                    *)
Measured(st) == {t \in Timers \ st.due :
                   IF t = "init" THEN beats < MaxBeats ELSE st[t] \notin {"IDLE", "ODD"}}
Tick ==
  /\ \/ \E t \in Measured(m) : /\ m' = [m EXCEPT !.due = @ \cup {t}]
                               /\ beats' = beats + (IF t = "init" THEN 1 ELSE 0)
                               /\ UNCHANGED s
     \/ \E t \in Measured(s) \ {"init"} : /\ s' = [s EXCEPT !.due = @ \cup {t}]
                                          /\ UNCHANGED <<m, beats>>
  /\ UNCHANGED <<m_app, m_cmds, m_yt, s_bak, s_spon, down, up, lost, told>>

Next == SlaveExec \/ MasterExec \/ MasterApp \/ SlaveApp \/ Noise \/ Tick

(* The exec threads are always scheduled again, and time goes on; only the *)
(* timeout of the interrogation matters to what is claimed.                *)
Fairness ==
  /\ WF_vars(SlaveExec) /\ WF_vars(MasterExec) /\ WF_vars(AppStore /\ MasterApp)
  /\ WF_vars(Tick /\ "callall" \in s'.due \ s.due)

Spec == Init /\ [][Next]_vars /\ Fairness

-----------------------------------------------------------------------------
TypeOK ==
  /\ MasterTypeOK /\ SlaveTypeOK
  /\ \A i \in 1 .. Len(down) : IsFrame(down[i])
  /\ \A i \in 1 .. Len(up) : IsFrame(up[i])
  /\ lost \in 0 .. MaxLoss /\ beats \in 0 .. MaxBeats
  /\ told \in [yk : Int, call : Int, damaged : BOOLEAN]

(* iec101_m_state_machine_work reports CONNECTED on an acknowledgement     *)
(* that may have been sent for anything: the slave is connected too.       *)
BothConnected == m.init = "IDLE" => s.init \in {"CONNECT_OK", "IDLE"}

(* An acknowledgement is never built from a copy that was freed or never   *)
(* taken: iec101_s_build_yk_ack and yt_ack copy from back without a test.  *)
CopyPresent ==
  /\ s.yk \in {"START", "CONFIRM", "SUCCESS"} => s_bak.yk # NoCopy
  /\ s.yt \in {"START", "CONFIRM", "EXEC", "SUCCESS"} => s_bak.yt # NoCopy

(* Each execution of a single command answers an acknowledgement of its    *)
(* selection, although iec101_s_asdu_yk executes whatever it receives.     *)
SelectBeforeExecute == told.yk >= 0

(* A single command of one object is executed as it was commanded: its     *)
(* object survives the acknowledgement the master copies it from.          *)
CommandIntact == ~told.damaged

(* The master reports a complete interrogation only when the slave has     *)
(* completed one, whichever frames were destroyed.                         *)
CallAllAgreed == told.call >= 0

(* What the master reports of the link and of an interrogation is true of  *)
(* the slave too, although any acknowledgement sets tack.                  *)
SidesAgree == TypeOK /\ BothConnected /\ CallAllAgreed

(* A single command is selected before it is executed, executed as it was  *)
(* given, and acknowledged from a copy that exists.                        *)
CommandsSafe == SelectBeforeExecute /\ CommandIntact /\ CopyPresent

(* An interrogation that the slave has begun ends or waits, in SUCCESS,    *)
(* for a last request for data: that stage has no timeout.                 *)
CallAllSettles == s.init = "IDLE" /\ s.callall \in {"START", "CONFIRM", "YX", "YC"} ~>
                    s.callall \in {"IDLE", "SUCCESS", "ODD"}

(* On a line that destroys nothing the master connects, although it asks   *)
(* for the link status only once.                                          *)
Connects == [](lost = 0) => <>(m.init = "IDLE")

==============================================================================
