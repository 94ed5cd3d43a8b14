-------------------------------- MODULE Iec104 --------------------------------
(***************************************************************************)
(* The master of wow_iec104m.c and the slave of wow_iec104s.c talking to   *)
(* each other over TCP: six threads (two exec threads, two application     *)
(* threads, the accept thread and the clock) and a network that may drop a *)
(* connection silently.                                                    *)
(***************************************************************************)
EXTENDS Iec104m, Iec104s, TLC

CONSTANT MaxDisturb, \* bound: spontaneous reports and late ticks in a behaviour
         CutLinks    \* the network may drop a connection

ASSUME CompositionAssumption == MaxDisturb \in Nat /\ CutLinks \in BOOLEAN

VARIABLES tick,    \* exec threads that ran their state machine since the last tick
          late,    \* ticks that came before all that had arrived was answered
          race,    \* an exec or accept thread renumbered under an application thread
          wrapped, \* a send number went past SnMod - 1
          opened,  \* open commands the application gave: C_SC with sco 0
          execs,   \* open commands the slave executed, counted up to MaxCmds + 1
          chosen   \* select commands the slave acknowledged since iec104_s_reset_param

histVars == <<race, wrapped, opened, execs, chosen>>
vars == <<linkVars, masterVars, slaveVars, tick, late, histVars>>

Init ==
  /\ LinkInit /\ MasterInit /\ SlaveInit
  /\ tick = {} /\ late = 0 /\ race = FALSE /\ wrapped = FALSE
  /\ opened = 0 /\ execs = 0 /\ chosen = {}

TypeOK ==
  /\ LinkTypeOK /\ MasterTypeOK /\ SlaveTypeOK
  /\ tick \subseteq {"m", "s"} /\ late \in 0 .. MaxDisturb
  /\ race \in BOOLEAN /\ wrapped \in BOOLEAN
  /\ opened \in 0 .. m_cmds /\ execs \in 0 .. MaxCmds + 1
  /\ chosen \subseteq {"C_SC", "C_SE"} \X {0, 1}

-----------------------------------------------------------------------------
(* What the history variables record of a step.                            *)

(* A remote control or a set point of this station is passed to            *)
(* set_val_cb, or is only confirmed.                                       *)
Command(fr) == fr.f = "I" /\ fr.own /\ fr.ty \in {"C_SC", "C_SE"}
Executes(fr) == Command(fr) /\ IF fr.ty = "C_SC" THEN iec104_s_asdu_yk(fr)
                               ELSE iec104_s_asdu_yt(fr)
Selects(fr) == Command(fr) /\ fr.cot = "ACT" /\ ~Executes(fr)
ExecutesOpen(fr) == Executes(fr) /\ fr.ty = "C_SC" /\ fr.val = 0

(* The application calls wow_iec104_m_build_yk with value 0 in this step.  *)
GivesOpen == m_app.pc = "idle" /\ m_app'.pc = "put" /\ m_app'.op = "yk0"

(* The slave handles the frame at the head of its buffer in this step.     *)
SlaveHandles == s_pc = "parse" /\ s_rbuf' = Tail(s_rbuf)

(* iec104_m_reset_param runs in this step.                                 *)
MasterResets == m.init = "INIT" /\ m'.init # "INIT"

Record ==
  /\ race' = \/ race
             \/ m_app.pc # "idle" /\ m_app'.pc = m_app.pc /\ m'.build_send # m.build_send
             \/ SponOvertaken
  /\ wrapped' = \/ wrapped
                \/ m'.build_send < m.build_send /\ ~MasterResets
                \/ s'.build_send < s.build_send /\ ~SlaveResets
  /\ opened' = IF GivesOpen THEN opened + 1 ELSE opened
  /\ execs' = IF SlaveHandles /\ ExecutesOpen(Head(s_rbuf)) /\ execs <= MaxCmds
              THEN execs + 1 ELSE execs
  /\ chosen' = IF SlaveResets THEN {}
               ELSE IF SlaveHandles /\ Selects(Head(s_rbuf))
               THEN chosen \cup {<<Head(s_rbuf).ty, Head(s_rbuf).val>>}
               ELSE chosen

MasterStep ==
  /\ MasterExec \/ MasterApp
  /\ tick' = IF m_pc = "state_machine" /\ m_pc' # m_pc THEN tick \cup {"m"} ELSE tick
  /\ UNCHANGED <<slaveVars, late>>
  /\ Record

SlaveStep ==
  /\ SlaveExec \/ SlaveAccept \/ SlaveApp
  /\ tick' = IF s_pc = "state_machine" /\ s_pc' # s_pc THEN tick \cup {"s"} ELSE tick
  /\ s_spon' + late <= MaxDisturb
  /\ UNCHANGED <<masterVars, late>>
  /\ Record

Cut ==
  /\ CutLinks
  /\ \E c \in Conns : LinkCut(c)
  /\ UNCHANGED <<masterVars, slaveVars, tick, late>>
  /\ Record

(* Everything that arrived has been read, parsed and answered.             *)
Quiet ==
  /\ MasterInbox = <<>> /\ SlaveInbox = <<>>
  /\ m_rbuf = <<>> /\ s_rbuf = <<>>
  /\ tick = {"m", "s"}

(* As a rule a tick (over a second) is enough for both exec loops (about   *)
(* 0.1 s a turn) to answer; a late one lets time-outs race the answers.    *)
Tick ==
  /\ \/ Quiet /\ late' = late
     \/ ~Quiet /\ s_spon + late < MaxDisturb /\ late' = late + 1
  /\ m' = MasterAged(m)
  /\ s' = SlaveAged(s)
  /\ tick' = {}
  /\ UNCHANGED <<linkVars, m_pc, m_rbuf, m_app, m_serv, m_cmds,
                 s_pc, s_rbuf, s_app, s_serv, s_spon>>
  /\ Record

Next == MasterStep \/ SlaveStep \/ Cut \/ Tick

Spec == Init /\ [][Next]_vars

(* The exec threads and the accept thread are always scheduled again, time *)
(* goes on; nothing obliges the application to call or the network to fail.*)
Fairness ==
  /\ WF_vars(MasterStep /\ MasterExec)
  /\ WF_vars(SlaveStep /\ SlaveExec)
  /\ WF_vars(SlaveStep /\ SlaveAccept)
  /\ WF_vars(Tick)

FairSpec == Spec /\ Fairness

-----------------------------------------------------------------------------
(* Every connection the slave has accepted and not closed is in reach of   *)
(* the code: port->client or the accept callback holds it.                 *)
NoLeak ==
  \A c \in Conns : net[c].slv = "open" => c \in {s_client, acc.tcp}

(* The state of the two stations is one the code can be in, and no         *)
(* connection is lost in the hands of the three threads.                   *)
LinkSound == TypeOK /\ NoLeak

(* iec104_m_deal_sn turns down a frame of this slave only after an         *)
(* application thread was overtaken while it numbered a frame, or after    *)
(* the 15 bit numbers wrapped: reconnecting, in whatever state the two     *)
(* sides are, never leaves numbers behind that reject a healthy frame.     *)
RejectOnlyAfterRace ==
  m_pc = "parse" /\ Head(m_rbuf).f = "I" /\ ~race /\ ~wrapped
    => SnAccepted(m, Head(m_rbuf))

(* No station acknowledges a frame its peer has not sent on this           *)
(* connection.                                                             *)
Acks(q) == {q[i].rs : i \in {j \in 1 .. Len(q) : q[j].f # "U"}}

AckOnlySent ==
  ~race /\ ~wrapped =>
    /\ \A a \in Acks(MasterInbox) : a <= m.build_send
    /\ \A a \in Acks(SlaveInbox) : a <= s.build_send

(* The slave executes a command only if it acknowledged its selection on   *)
(* the same connection before.                                             *)
SelectBeforeExecute ==
  s_pc = "parse" /\ Executes(Head(s_rbuf))
    => <<Head(s_rbuf).ty, Head(s_rbuf).val>> \in chosen

(* An open command (C_SC with sco 0) is passed to set_val_cb at most once  *)
(* for each one the application gave, whatever else it commands: what the  *)
(* slave confirms after the execution is reported and not executed again.  *)
(* The other commands are excepted, because the code breaks this for them: *)
(* iec104_m_asdu_yk tests sco && 0x80 (not sco & 0x80) and                 *)
(* iec104_m_asdu_yt nothing, so the confirmation of their execution is     *)
(* answered by another execution, without end.                             *)
ExecutedOnce == execs <= opened

(* The two sides agree that connection c is up.                            *)
Established(c) ==
  /\ m_client = c /\ m.init = "IDLE"
  /\ s_client = c /\ s.init = "IDLE"
  /\ ~net[c].cut

(* An established connection that the network carries is never given up:   *)
(* the testers of the two sides raise no false alarm, whatever their       *)
(* phases, and the accept thread replaces no live client.                  *)
HealthyLinkKept ==
  [][\A c \in Conns : Established(c) /\ ~net'[c].cut => Established(c)']_vars

(* client is a connection the network has dropped.                         *)
Dropped(client) == client # NoConn /\ net[client].cut

(* A station that believes in a connection the network has dropped finds   *)
(* out and gives it up, although no read or write reports it.              *)
DeadLinkNoticed ==
  /\ Dropped(m_client) ~> ~Dropped(m_client)
  /\ (Dropped(s_client) /\ s.init = "IDLE") ~> ~Dropped(s_client)

(* For TLC: connections are interchangeable.                               *)
Symmetry == Permutations(Conns)
==============================================================================
