---------------------------- MODULE Iec104Proofs ----------------------------
(***************************************************************************)
(* What is proved of the IEC 104 master and slave on one link, for any set *)
(* of application calls, any number of connections and any network: their  *)
(* types hold, no connection is lost between the threads, and a command is *)
(* executed only after its selection was confirmed, an open one only once. *)
(***************************************************************************)
EXTENDS Iec104, Iec104sProofs

-----------------------------------------------------------------------------
(* The sockets.                                                            *)

(* port->client of the master is a connection it has not closed.           *)
MasterLinked == m_client \in Ends /\ (m_client # NoConn => net[m_client].mst = "open")

(* What a pass of the master's exec thread leaves behind.                  *)
LEMMA MasterInstallInv ==
  ASSUME LinkInv, MasterLinked, NEW w, MasterInstall(w), UNCHANGED <<backlog, s_client, acc>>
  PROVE  LinkInv' /\ MasterLinked'
<1> DEFINE n == MasterSent(net, m_client, w.out)
<1>0. m_client \in Conns \cup {NoConn} /\ Shaped(net)
  BY DEF LinkInv, MasterLinked, Ends
<1>1. Shaped(n) /\ SameEnds(n, net)
  BY <1>0, SentKeeps
<1>2. CASE ~w.close \/ m_client = NoConn
  <2>1. net' = n /\ m_client' = m_client
    BY <1>2 DEF MasterInstall, MasterClosed
  <2>2. LinkInv'
    BY <1>1, <2>1, SameEndsInv
  <2>3. QED
    BY <1>1, <2>1, <2>2 DEF MasterLinked, SameEnds, Ends
<1>3. CASE w.close /\ m_client # NoConn
  <2>1. net' = MasterClosed(n, m_client) /\ m_client' = NoConn
    BY <1>3 DEF MasterInstall
  <2>2. m_client \in Conns /\ net[m_client].mst = "open"
    BY <1>0, <1>3 DEF MasterLinked
  <2> HIDE DEF n
  <2>3. QED
    BY <1>1, <2>1, <2>2, OtherCloses DEF MasterLinked, Ends
<1>4. QED
  BY <1>2, <1>3

LEMMA MasterLinkNext ==
  ASSUME LinkInv, MasterLinked, MasterExec \/ MasterApp
  PROVE  LinkInv' /\ MasterLinked'
<1>0. Shaped(net) /\ backlog \in Seq(Conns) /\ m_client \in Conns \cup {NoConn}
  BY DEF LinkInv, MasterLinked, Ends
<1>1. CASE MasterStateMachine \/ MasterParse
  BY <1>1, MasterInstallInv DEF MasterStateMachine, MasterParse
<1>2. CASE MasterOpenFails \/ CmdPut \/ \E op \in MasterOps : CmdBegin(op)
  <2>1. UNCHANGED linkVars
    BY <1>2 DEF MasterOpenFails, CmdPut, CmdBegin
  <2>2. SameEnds(net', net)
    BY <2>1 DEF SameEnds, linkVars
  <2>3. QED
    BY <1>0, <2>1, <2>2, SameEndsInv DEF linkVars, MasterLinked, Ends
<1>3. CASE MasterRecv \/ CmdSend
  <2>1. Shaped(net') /\ SameEnds(net', net)
    <3>1. CASE CmdSend
      BY <1>0, <3>1, SentKeeps DEF CmdSend
    <3>2. CASE net' = net
      BY <1>0, <3>2 DEF SameEnds
    <3>3. CASE \E k \in 1 .. Len(MasterInbox) :
                 net' = [net EXCEPT ![m_client].down = SubSeq(@, k + 1, Len(@))]
      BY <1>0, <3>3 DEF Shaped, SameEnds, Fields
    <3>4. QED
      BY <1>3, <3>1, <3>2, <3>3 DEF MasterRecv
  <2>2. UNCHANGED <<backlog, m_client, s_client, acc>>
    BY <1>3 DEF MasterRecv, CmdSend
  <2>3. QED
    BY <1>0, <2>1, <2>2, SameEndsInv DEF MasterLinked, SameEnds, Ends
<1>4. CASE \E c \in Conns : MasterOpen(c)
  <2>1. PICK c \in Conns : MasterOpen(c)
    BY <1>4
  <2>2. /\ net[c].mst = "none" /\ net[c].slv = "none"
        /\ net' = [net EXCEPT ![c].mst = "open", ![c].up = <<UFrame("STARTDT")>>]
        /\ backlog' = Append(backlog, c) /\ m_client' = c
        /\ s_client' = s_client /\ acc' = acc
    BY <2>1 DEF MasterOpen, Fresh
  <2>3. /\ Shaped(net') /\ net'[c].mst = "open" /\ net'[c].slv = "none"
        /\ \A d \in Conns : d # c => net'[d] = net[d]
    BY <1>0, <2>2 DEF Shaped, Fields
  <2>4. LinkInv'
    BY <2>2, <2>3, ConnectInv
  <2>5. QED
    BY <2>2, <2>3, <2>4 DEF MasterLinked, Ends
<1>5. QED
  BY <1>1, <1>2, <1>3, <1>4 DEF MasterExec, MasterApp

(* The slave and the network leave the master's end alone.                 *)
LEMMA SlaveKeepsOpen ==
  ASSUME LinkInv, NEW c \in Conns, net[c].mst = "open",
         SlaveExec \/ SlaveAccept \/ SlaveApp \/ \E d \in Conns : LinkCut(d)
  PROVE  net'[c].mst = "open"
<1>0. /\ DOMAIN net = Conns /\ \A d \in Conns : DOMAIN net[d] = Fields
      /\ s_client \in Conns \cup {NoConn} /\ Shaped(net)
  BY DEF LinkInv, Shaped, Held
<1>1. ASSUME NEW n, Shaped(n), n[c].mst = "open" PROVE SlaveClosed(n, s_client)[c].mst = "open"
  BY <1>0, <1>1 DEF SlaveClosed, Shaped, Fields
<1>2. ASSUME NEW fr
      PROVE  Shaped(SlaveSent(net, s_client, fr)) /\ SlaveSent(net, s_client, fr)[c].mst = "open"
  <2>1. SameEnds(SlaveSent(net, s_client, fr), net) /\ Shaped(SlaveSent(net, s_client, fr))
    BY <1>0, SentKeeps
  <2>2. QED
    BY <2>1 DEF SameEnds
<1>3. ASSUME NEW w, SlaveInstall(w) PROVE net'[c].mst = "open"
  <2> DEFINE n == SlaveSent(net, s_client, w.out)
  <2>1. Shaped(n) /\ n[c].mst = "open"
    BY <1>2
  <2>2. net' = SlaveClosed(n, s_client) \/ net' = n
    BY <1>3 DEF SlaveInstall
  <2> HIDE DEF n
  <2>3. QED
    BY <1>1, <2>1, <2>2
<1>4. CASE SlaveStateMachine \/ SlaveParse
  BY <1>3, <1>4 DEF SlaveStateMachine, SlaveParse
<1>5. CASE SlaveRecv \/ SponSend \/ \E d \in Conns : LinkCut(d)
  <2>1. CASE SponSend
    BY <1>2, <2>1 DEF SponSend
  <2>2. CASE \E d \in Conns : LinkCut(d)
    <3>1. PICK d \in Conns : net' = [net EXCEPT ![d].cut = TRUE, ![d].up = <<>>, ![d].down = <<>>]
      BY <2>2 DEF LinkCut
    <3>2. net'[c].mst = net[c].mst
      BY <1>0, <3>1, Zenon DEF Fields
    <3>3. QED
      BY <3>2
  <2>3. CASE SlaveRecv
    BY <1>0, <2>3, SMTT(30) DEF SlaveRecv, Fields
  <2>4. QED
    BY <1>5, <2>1, <2>2, <2>3
<1>6. CASE AcceptClient
  <2> DEFINE n == [net EXCEPT ![Head(backlog)].slv = "open"]
  <2>1. Shaped(n) /\ n[c].mst = "open"
    BY <1>0 DEF Shaped, Fields
  <2>2. net' = SlaveClosed(n, s_client)
    BY <1>6 DEF AcceptClient
  <2> HIDE DEF n
  <2>3. QED
    BY <1>1, <2>1, <2>2
<1>7. CASE AcceptWake \/ AcceptConnected \/ AcceptInstall \/ SponBegin \/ SponPut
  BY <1>7 DEF AcceptWake, AcceptConnected, AcceptInstall, SponBegin, SponPut, linkVars
<1>8. QED
  BY <1>4, <1>5, <1>6, <1>7 DEF SlaveExec, SlaveAccept, SlaveApp

LEMMA SlaveLinkNext ==
  ASSUME LinkInv, MasterLinked,
         SlaveExec \/ SlaveAccept \/ SlaveApp \/ \E c \in Conns : LinkCut(c)
  PROVE  LinkInv' /\ MasterLinked'
<1>1. LinkInv'
  BY ExecInv, AcceptInv, CutInv
<1>2. m_client' = m_client
  BY DEF SlaveExec, SlaveStateMachine, SlaveRecv, SlaveParse, SlaveAccept, AcceptClient, AcceptWake,
         AcceptConnected, AcceptInstall, SlaveApp, SponBegin, SponPut, SponSend, LinkCut, linkVars
<1>3. m_client # NoConn => net'[m_client].mst = "open"
  BY SlaveKeepsOpen DEF MasterLinked, Ends
<1>4. QED
  BY <1>1, <1>2, <1>3 DEF MasterLinked

-----------------------------------------------------------------------------
(* The types of the master.                                                *)
MWorkOK(w) ==
  /\ DOMAIN w = {"st", "out", "close", "serv"}
  /\ w.st \in MasterStation /\ w.out \in Seq(Frames) /\ w.serv \in MasterEvents

(* The loop over recv_buf stops at its end, and the application thread has *)
(* a call in hand unless it is idle.                                       *)
MasterTypes ==
  /\ MasterTypeOK
  /\ m_pc = "parse" => m_rbuf # <<>>
  /\ m_app.pc # "idle" => m_app.op # "none"

LEMMA MasterWorkTyped == MasterTypes => MWorkOK(MWork)
<1> SUFFICES ASSUME MasterTypes PROVE MWorkOK(MWork)
  OBVIOUS
<1>1. m \in MasterStation /\ m_serv \in MasterEvents
  BY DEF MasterTypes, MasterTypeOK
<1>2. QED
  BY <1>1 DEF MWorkOK, MWork

LEMMA ExecuteOK ==
  ASSUME NEW w, MWorkOK(w), NEW fr \in IFrames
  PROVE  MWorkOK(Execute(w, fr))
<1>1. w.st.build_send \in Sn /\ w.st.build_recv \in 0 .. SnMod
  BY DEF MWorkOK, MasterStation
<1>2. (w.st.build_send + 1) % SnMod \in Sn
  BY <1>1, SnRange
<1>3. fr.ty \in AsduTypes /\ fr.ia0 \in BOOLEAN /\ fr.val \in {0, 1} /\ "ACT" \in Reasons
  BY DEF IFrames, Reasons
<1>4. IFrame(fr.ty, "ACT", fr.ia0, FALSE, fr.val, w.st.build_send, w.st.build_recv) \in Frames
  BY <1>1, <1>3, FramesBuilt
<1> DEFINE f == IFrame(fr.ty, "ACT", fr.ia0, FALSE, fr.val, w.st.build_send, w.st.build_recv)
<1>5. Execute(w, fr) = [w EXCEPT !.out = Append(@, f), !.st.build_send = (@ + 1) % SnMod]
  BY DEF Execute
<1> HIDE DEF f
<1>6. f \in Frames
  BY <1>4 DEF f
<1>7. QED
  BY <1>2, <1>5, <1>6 DEF MWorkOK, MasterStation

LEMMA ReportOK ==
  ASSUME NEW w, MWorkOK(w), NEW e \in MasterEvents
  PROVE  /\ MWorkOK([w EXCEPT !.serv = e]) /\ MWorkOK(iec104_m_build_s_ack(w))
         /\ MWorkOK(iec104_m_build_s_ack([w EXCEPT !.serv = e]))
<1>1. ASSUME NEW x, MWorkOK(x) PROVE MWorkOK(iec104_m_build_s_ack(x))
  <2>1. SFrame(x.st.build_recv) \in Frames
    BY <1>1, FramesBuilt DEF MWorkOK, MasterStation
  <2>2. QED
    BY <1>1, <2>1 DEF MWorkOK, iec104_m_build_s_ack
<1>2. MWorkOK([w EXCEPT !.serv = e])
  BY DEF MWorkOK
<1>3. QED
  BY <1>1, <1>2

LEMMA MasterAsduOK ==
  ASSUME NEW w, MWorkOK(w), NEW fr \in IFrames
  PROVE  MWorkOK(iec104_m_frame_i_parse(w, fr))
<1> DEFINE d == iec104_m_deal_sn(w, fr)
<1>1. MWorkOK(d)
  <2>1. fr.ss + 1 \in 0 .. SnMod /\ fr.ss \in Sn \cup {-1} /\ fr.rs \in Sn
    BY FrameAssumption DEF IFrames, Sn
  <2>2. QED
    BY <2>1 DEF iec104_m_deal_sn, MWorkOK, MasterStation
<1> HIDE DEF d
<1>2. \A e \in MasterEvents :
        /\ MWorkOK([d EXCEPT !.serv = e]) /\ MWorkOK(iec104_m_build_s_ack(d))
        /\ MWorkOK(iec104_m_build_s_ack([d EXCEPT !.serv = e]))
  BY <1>1, ReportOK
<1>3. MWorkOK(Execute(d, fr))
  BY <1>1, ExecuteOK
<1>4. MWorkOK(iec104_m_asdu_call_all(d, fr)) /\ MWorkOK(iec104_m_asdu_call_pulse(d, fr))
  BY <1>1, <1>2 DEF iec104_m_asdu_call_all, iec104_m_asdu_call_pulse, MasterEvents
<1>5. MWorkOK(iec104_m_asdu_clock(d, fr))
  BY <1>1, <1>2 DEF iec104_m_asdu_clock, MasterEvents
<1>6. MWorkOK(iec104_m_asdu_yk(d, fr)) /\ MWorkOK(iec104_m_asdu_yt(d, fr))
  BY <1>2, <1>3
     DEF iec104_m_asdu_yk, iec104_m_asdu_yt, iec104_m_build_yk_ack, iec104_m_build_yt_ack, MasterEvents
<1>7. \/ iec104_m_frame_i_parse(w, fr) = w
      \/ iec104_m_frame_i_parse(w, fr) \in
           {d, iec104_m_build_s_ack(d), iec104_m_asdu_call_all(d, fr), iec104_m_asdu_call_pulse(d, fr),
            iec104_m_asdu_clock(d, fr), iec104_m_asdu_yk(d, fr), iec104_m_asdu_yt(d, fr)}
  BY DEF iec104_m_frame_i_parse, d
<1>8. "CLOCK_SYNC" \in MasterEvents
  BY DEF MasterEvents
<1>9. QED
  BY <1>1, <1>2, <1>4, <1>5, <1>6, <1>7, <1>8

LEMMA MasterUParseOK ==
  ASSUME NEW w, MWorkOK(w), NEW fr
  PROVE  MWorkOK(iec104_m_frame_u_parse(w, fr))
<1>1. UFrame("TESTER_ACK") \in Frames
  BY FramesBuilt DEF UFuncs
<1>2. MWorkOK(iec104_m_build_u_ack(w))
  BY <1>1 DEF iec104_m_build_u_ack, MWorkOK
<1>3. /\ MWorkOK([w EXCEPT !.st.init = "CONNECT_OK"]) /\ MWorkOK([w EXCEPT !.st.init = "DISCONNECT"])
      /\ MWorkOK([w EXCEPT !.st.test = "TESTER_STOP"])
  BY DEF MWorkOK, MasterStation, LinkStates, TesterStates
<1>4. QED
  BY <1>2, <1>3 DEF iec104_m_frame_u_parse

LEMMA MasterParseOK ==
  ASSUME NEW w, MWorkOK(w), NEW fr \in Frames
  PROVE  MWorkOK(iec104_m_frame_parse(w, fr))
<1>1. ASSUME NEW x, MWorkOK(x) PROVE MWorkOK([x EXCEPT !.st.t_timer = 0])
  <2>1. 0 \in Ages
    BY FrameAssumption DEF Ages, MaxAge
  <2>2. QED
    BY <1>1, <2>1 DEF MWorkOK, MasterStation
<1>2. CASE fr.f = "I"
  <2>1. fr \in IFrames
    BY <1>2 DEF Frames, UFrames, SFrames
  <2>2. iec104_m_frame_parse(w, fr) = [iec104_m_frame_i_parse(w, fr) EXCEPT !.st.t_timer = 0]
    BY <1>2 DEF iec104_m_frame_parse
  <2>3. QED
    BY <1>1, <2>1, <2>2, MasterAsduOK
<1>3. CASE fr.f = "U"
  <2>1. iec104_m_frame_parse(w, fr) = [iec104_m_frame_u_parse(w, fr) EXCEPT !.st.t_timer = 0]
    BY <1>3 DEF iec104_m_frame_parse
  <2>2. QED
    BY <1>1, <2>1, MasterUParseOK
<1>4. CASE fr.f = "S"
  <2>1. iec104_m_frame_parse(w, fr) = [w EXCEPT !.st.t_timer = 0]
    BY <1>4 DEF iec104_m_frame_parse
  <2>2. QED
    BY <1>1, <2>1
<1>5. QED
  BY <1>2, <1>3, <1>4 DEF Frames, UFrames, SFrames, IFrames

LEMMA MasterResetOK == \A st \in MasterStation : iec104_m_reset_param(st) \in MasterStation
<1>1. 0 \in Sn /\ 0 \in 0 .. SnMod
  BY SnRange
<1>2. Epoch \in Ages
  BY FrameAssumption DEF Ages, Epoch, MaxAge
<1>3. "INIT" \in LinkStates /\ "TESTER_START" \in TesterStates
  BY DEF LinkStates, TesterStates
<1>4. QED
  BY <1>1, <1>2, <1>3 DEF MasterStation, iec104_m_reset_param

LEMMA MLinkStepOK ==
  ASSUME NEW w, MWorkOK(w)
  PROVE  MWorkOK(MLinkStep(w))
<1>0. 0 \in Ages /\ Epoch \in Ages
  BY FrameAssumption DEF Ages, Epoch, MaxAge
<1>1. CASE w.st.init = "INIT"
  <2>1. iec104_m_reset_param(w.st) \in MasterStation
    BY MasterResetOK DEF MWorkOK
  <2>2. QED
    BY <1>1, <2>1 DEF MLinkStep, MWorkOK, MasterStation, LinkStates
<1>2. CASE w.st.init # "INIT"
  <2>1. /\ MWorkOK([w EXCEPT !.close = TRUE, !.st.init = "INIT"])
        /\ MWorkOK([w EXCEPT !.close = TRUE, !.st.init = "INIT", !.serv = "DISCONNECTED"])
        /\ MWorkOK([w EXCEPT !.st.t_init = Epoch, !.st.init = "IDLE", !.st.t_timer = 0,
                             !.serv = "CONNECTED"])
    BY <1>0 DEF MWorkOK, MasterStation, LinkStates, MasterEvents
  <2>2. QED
    BY <1>2, <2>1 DEF MLinkStep
<1>3. QED
  BY <1>1, <1>2

LEMMA MasterMachineOK ==
  ASSUME NEW w, MWorkOK(w)
  PROVE  MWorkOK(iec104_m_state_machine(w))
<1>1. 0 \in Ages /\ Epoch \in Ages
  BY FrameAssumption DEF Ages, Epoch, MaxAge
<1>2. MWorkOK(MLinkStep(w))
  BY MLinkStepOK
<1>3. ASSUME NEW x, MWorkOK(x) PROVE MWorkOK(MTesterStep(x))
  <2>1. UFrame("TESTER") \in Frames
    BY FramesBuilt DEF UFuncs
  <2>2. MWorkOK(iec104_m_build_u(x, "TESTER"))
    BY <1>3, <2>1 DEF iec104_m_build_u, MWorkOK
  <2>3. x.st.test \in TesterStates
    BY <1>3 DEF MWorkOK, MasterStation
  <2>4. QED
    BY <1>1, <1>3, <2>2, <2>3, ZenonT(40) DEF MTesterStep, MWorkOK, MasterStation, TesterStates, LinkStates
<1>4. QED
  BY <1>2, <1>3 DEF iec104_m_state_machine
LEMMA MasterInstallTypes ==
  ASSUME LinkTypes, NEW w, MWorkOK(w), MasterInstall(w)
  PROVE  NetOK(net') /\ m_client' \in Ends /\ m' \in MasterStation /\ m_serv' \in MasterEvents
<1> DEFINE n == MasterSent(net, m_client, w.out)
<1>1. NetOK(n)
  BY SentOK DEF LinkTypes, MWorkOK, Ends
<1>2. NetOK(MasterClosed(n, m_client))
  <2> HIDE DEF n
  <2> QED BY <1>1, ClosedOK DEF LinkTypes, Ends
<1>3. QED
  BY <1>1, <1>2 DEF MasterInstall, MWorkOK, LinkTypes, Ends

LEMMA MasterExecTypes == LinkTypes /\ MasterTypes /\ MasterExec => (LinkTypes /\ MasterTypes)'
<1> SUFFICES ASSUME LinkTypes, MasterTypes, MasterExec PROVE (LinkTypes /\ MasterTypes)'
  OBVIOUS
<1>1. CASE MasterStateMachine
  <2>1. MWorkOK(iec104_m_state_machine(MWork))
    BY MasterWorkTyped, MasterMachineOK
  <2>2. NetOK(net') /\ m_client' \in Ends /\ m' \in MasterStation /\ m_serv' \in MasterEvents
    BY <1>1, <2>1, MasterInstallTypes DEF MasterStateMachine
  <2>3. m_pc' = "recv" /\ UNCHANGED <<backlog, s_client, acc, m_rbuf, m_app, m_cmds>>
    BY <1>1 DEF MasterStateMachine
  <2>4. QED
    BY <2>2, <2>3 DEF LinkTypes, MasterTypes, MasterTypeOK
<1>2. CASE MasterRecv
  <2>0. UNCHANGED <<backlog, m_client, s_client, acc, m, m_app, m_serv, m_cmds>>
    BY <1>2 DEF MasterRecv
  <2>1. CASE \E k \in 1 .. Len(MasterInbox) :
               /\ m_rbuf' = SubSeq(MasterInbox, 1, k)
               /\ net' = [net EXCEPT ![m_client].down = SubSeq(@, k + 1, Len(@))]
               /\ m_pc' = "parse"
    <3>1. PICK k \in 1 .. Len(MasterInbox) :
               /\ m_rbuf' = SubSeq(MasterInbox, 1, k)
               /\ net' = [net EXCEPT ![m_client].down = SubSeq(@, k + 1, Len(@))]
               /\ m_pc' = "parse"
      BY <2>1
    <3>2. m_client \in Conns
      BY <3>1 DEF MasterInbox, LinkTypes, Ends
    <3>3. net[m_client] \in ConnRecord
      BY <3>2 DEF LinkTypes, NetOK
    <3>4. MasterInbox = net[m_client].down /\ net[m_client].down \in Seq(Frames)
      BY <3>2, <3>3, LinkAssumption DEF MasterInbox, ConnRecord
    <3>5. m_rbuf' \in Seq(Frames) /\ m_rbuf' # <<>>
      BY <3>1, <3>4
    <3>6. SubSeq(net[m_client].down, k + 1, Len(net[m_client].down)) \in Seq(Frames)
      BY <3>1, <3>4
    <3>7. NetOK(net')
      <4> DEFINE r == SubSeq(net[m_client].down, k + 1, Len(net[m_client].down))
      <4> HIDE DEF r
      <4>1. [net[m_client] EXCEPT !.down = r] \in ConnRecord
        BY <3>3, <3>6 DEF ConnRecord, r
      <4>2. net' = [net EXCEPT ![m_client] = [net[m_client] EXCEPT !.down = r]]
        BY <3>1, <3>2 DEF LinkTypes, NetOK, r
      <4>3. QED
        BY <4>1, <4>2 DEF LinkTypes, NetOK
    <3>8. QED
      BY <2>0, <3>1, <3>5, <3>7 DEF LinkTypes, MasterTypes, MasterTypeOK
  <2>2. CASE m_pc' = "state_machine" /\ UNCHANGED <<net, m_rbuf>>
    BY <2>0, <2>2 DEF LinkTypes, MasterTypes, MasterTypeOK
  <2>3. QED
    BY <1>2, <2>1, <2>2 DEF MasterRecv
<1>3. CASE MasterParse
  <2>1. m_rbuf \in Seq(Frames) /\ m_rbuf # <<>>
    BY <1>3 DEF MasterParse, MasterTypes, MasterTypeOK
  <2>2. Head(m_rbuf) \in Frames
    BY <2>1
  <2>3. MWorkOK(iec104_m_frame_parse(MWork, Head(m_rbuf)))
    BY <2>2, MasterWorkTyped, MasterParseOK
  <2>4. NetOK(net') /\ m_client' \in Ends /\ m' \in MasterStation /\ m_serv' \in MasterEvents
    BY <1>3, <2>3, MasterInstallTypes DEF MasterParse
  <2>5. /\ m_rbuf' = Tail(m_rbuf) /\ m_pc' = IF Len(m_rbuf) = 1 THEN "state_machine" ELSE "parse"
        /\ UNCHANGED <<backlog, s_client, acc, m_app, m_cmds>>
    BY <1>3 DEF MasterParse
  <2>6. Tail(m_rbuf) \in Seq(Frames) /\ Len(Tail(m_rbuf)) = Len(m_rbuf) - 1 /\ Len(m_rbuf) \in Nat
    BY <2>1, HeadTailProperties, LenProperties
  <2>7. Tail(m_rbuf) = <<>> => Len(m_rbuf) = 1
    <3>1. Len(<<>>) = 0
      OBVIOUS
    <3>2. Tail(m_rbuf) = <<>> => Len(Tail(m_rbuf)) = 0
      BY <3>1, Zenon
    <3>3. QED
      BY <2>6, <3>2
  <2>8. m_rbuf' \in Seq(Frames) /\ m_pc' \in {"state_machine", "parse"} /\ (m_pc' = "parse" => m_rbuf' # <<>>)
    BY <2>5, <2>6, <2>7
  <2>9. QED
    BY <2>4, <2>5, <2>8 DEF LinkTypes, MasterTypes, MasterTypeOK
<1>4. CASE \E c \in Conns : MasterOpen(c)
  <2>1. PICK c \in Conns : MasterOpen(c)
    BY <1>4
  <2> DEFINE r == [net[c] EXCEPT !.mst = "open", !.up = <<UFrame("STARTDT")>>]
  <2>2. net[c] \in ConnRecord /\ <<UFrame("STARTDT")>> \in Seq(Frames)
    BY FramesBuilt DEF LinkTypes, NetOK, UFuncs
  <2>3. r \in ConnRecord
    BY <2>2 DEF ConnRecord, EndStates
  <2>4. net' = [net EXCEPT ![c] = r]
    BY <2>1, Zenon DEF MasterOpen, LinkTypes, NetOK
  <2>5. NetOK(net')
    <3> HIDE DEF r
    <3> QED BY <2>3, <2>4 DEF LinkTypes, NetOK
  <2>6. backlog' \in Seq(Conns) /\ m_client' \in Ends
    BY <2>1 DEF MasterOpen, LinkTypes, Ends
  <2>7. m' \in MasterStation
    <3>1. 0 \in Ages
      BY FrameAssumption DEF Ages, MaxAge
    <3>2. QED
      BY <2>1, <3>1 DEF MasterOpen, MasterTypes, MasterTypeOK, MasterStation, LinkStates
  <2>8. m_pc' = "recv" /\ UNCHANGED <<s_client, acc, m_rbuf, m_app, m_serv, m_cmds>>
    BY <2>1 DEF MasterOpen
  <2>9. QED
    BY <2>5, <2>6, <2>7, <2>8 DEF LinkTypes, MasterTypes, MasterTypeOK
<1>5. CASE MasterOpenFails
  BY <1>5 DEF MasterOpenFails, linkVars, LinkTypes, MasterTypes, MasterTypeOK
<1>6. QED
  BY <1>1, <1>2, <1>3, <1>4, <1>5 DEF MasterExec

(* The frame of a call is one the protocol knows.                          *)
LEMMA CmdFrameOK ==
  ASSUME NEW op \in MasterOps, NEW ss \in Sn, NEW rs \in 0 .. SnMod
  PROVE  CmdFrame(op, ss, rs) \in Frames
<1>1. op \in {"call_all", "call_pulse", "yk0", "yk1", "yt"}
  BY MasterAssumption
<1>2. {"C_IC", "C_CI", "C_SC", "C_SE"} \subseteq AsduTypes /\ "ACT" \in Reasons
  BY DEF AsduTypes, Reasons
<1>3. QED
  BY <1>1, <1>2, FramesBuilt DEF CmdFrame

LEMMA MasterAppTypes == LinkTypes /\ MasterTypes /\ MasterApp => (LinkTypes /\ MasterTypes)'
<1> SUFFICES ASSUME LinkTypes, MasterTypes, MasterApp PROVE (LinkTypes /\ MasterTypes)'
  OBVIOUS
<1> DEFINE Calls == [pc : {"idle", "put", "send"}, op : MasterOps \cup {"none"},
                     sn : Sn, rs : 0 .. SnMod]
<1>0. /\ m.build_send \in Sn /\ m.build_recv \in 0 .. SnMod /\ m_app \in Calls
      /\ 0 \in Sn /\ 0 \in 0 .. SnMod
  BY SnRange DEF MasterTypes, MasterTypeOK, MasterStation
<1>1. CASE \E op \in MasterOps : CmdBegin(op)
  <2>1. PICK op \in MasterOps : CmdBegin(op)
    BY <1>1
  <2>2. m_app' \in Calls /\ m_app'.op # "none"
    BY <1>0, <2>1, MasterAssumption DEF CmdBegin
  <2>3. m_cmds' \in 0 .. MaxCmds
    BY <2>1, MasterAssumption DEF CmdBegin, MasterTypes, MasterTypeOK
  <2>4. UNCHANGED <<net, backlog, m_client, s_client, acc, m, m_pc, m_rbuf, m_serv>>
    BY <2>1 DEF CmdBegin, linkVars
  <2>5. QED
    BY <2>2, <2>3, <2>4 DEF LinkTypes, MasterTypes, MasterTypeOK
<1>2. CASE CmdPut
  <2>1. m' \in MasterStation
    <3>1. (m_app.sn + 1) % SnMod \in Sn
      BY <1>0, SnRange
    <3>2. QED
      BY <1>2, <3>1 DEF CmdPut, MasterTypes, MasterTypeOK, MasterStation
  <2>2. m_app' \in Calls /\ m_app'.op # "none"
    BY <1>0, <1>2 DEF CmdPut, MasterTypes
  <2>3. UNCHANGED <<net, backlog, m_client, s_client, acc, m_pc, m_rbuf, m_serv, m_cmds>>
    BY <1>2 DEF CmdPut, linkVars
  <2>4. QED
    BY <2>1, <2>2, <2>3 DEF LinkTypes, MasterTypes, MasterTypeOK
<1>3. CASE CmdSend
  <2>1. m_app.op \in MasterOps
    BY <1>0, <1>3 DEF CmdSend, MasterTypes
  <2>2. <<CmdFrame(m_app.op, m_app.sn, m_app.rs)>> \in Seq(Frames)
    BY <1>0, <2>1, CmdFrameOK
  <2>3. NetOK(net')
    BY <1>3, <2>2, SentOK DEF CmdSend, LinkTypes, Ends
  <2>4. m_app' \in Calls /\ m_app'.pc = "idle"
    BY <1>0, <1>3 DEF CmdSend, CmdIdle
  <2>5. UNCHANGED <<backlog, m_client, s_client, acc, m, m_pc, m_rbuf, m_serv, m_cmds>>
    BY <1>3 DEF CmdSend
  <2>6. QED
    BY <2>3, <2>4, <2>5 DEF LinkTypes, MasterTypes, MasterTypeOK
<1>4. QED
  BY <1>1, <1>2, <1>3 DEF MasterApp

-----------------------------------------------------------------------------
(* What is recorded of a step.                                             *)
HistTypes ==
  /\ tick \subseteq {"m", "s"} /\ late \in 0 .. MaxDisturb
  /\ race \in BOOLEAN /\ wrapped \in BOOLEAN
  /\ opened \in 0 .. m_cmds /\ execs \in 0 .. MaxCmds + 1
  /\ chosen \subseteq {"C_SC", "C_SE"} \X {0, 1}

(* Only wow_iec104_m_build_yk with value 0 is recorded as opened.          *)
LEMMA Counted ==
  ASSUME [Next]_vars
  PROVE  \/ m_cmds' = m_cmds /\ ~GivesOpen
         \/ m_cmds' = m_cmds + 1
<1>1. CASE MasterStep
  <2>1. CASE MasterExec
    <3>1. UNCHANGED <<m_app, m_cmds>>
      BY <2>1 DEF MasterExec, MasterStateMachine, MasterOpenFails, MasterRecv, MasterParse, MasterOpen
    <3>2. QED
      BY <3>1 DEF GivesOpen
  <2>2. CASE CmdPut \/ CmdSend
    BY <2>2 DEF CmdPut, CmdSend, GivesOpen
  <2>3. CASE \E op \in MasterOps : CmdBegin(op)
    BY <2>3 DEF CmdBegin
  <2>4. QED
    BY <1>1, <2>1, <2>2, <2>3 DEF MasterStep, MasterApp
<1>2. CASE SlaveStep \/ Cut \/ Tick \/ UNCHANGED vars
  <2>1. UNCHANGED <<m_app, m_cmds>>
    BY <1>2 DEF SlaveStep, Cut, Tick, vars, masterVars
  <2>2. QED
    BY <2>1 DEF GivesOpen
<1>3. QED
  BY <1>1, <1>2 DEF Next

LEMMA RecordTypes ==
  ASSUME HistTypes, MasterTypes, SlaveTypes, [Next]_vars, Record
  PROVE  /\ race' \in BOOLEAN /\ wrapped' \in BOOLEAN
         /\ opened' \in 0 .. m_cmds' /\ execs' \in 0 .. MaxCmds + 1
         /\ chosen' \subseteq {"C_SC", "C_SE"} \X {0, 1}
<1>1. race' \in BOOLEAN /\ wrapped' \in BOOLEAN
  BY Zenon DEF Record
<1>2. execs' \in 0 .. MaxCmds + 1
  BY MasterAssumption DEF Record, HistTypes
<1>3. SlaveHandles /\ Selects(Head(s_rbuf)) =>
        <<Head(s_rbuf).ty, Head(s_rbuf).val>> \in {"C_SC", "C_SE"} \X {0, 1}
  <2> SUFFICES ASSUME SlaveHandles, Selects(Head(s_rbuf))
               PROVE  <<Head(s_rbuf).ty, Head(s_rbuf).val>> \in {"C_SC", "C_SE"} \X {0, 1}
    OBVIOUS
  <2>1. Head(s_rbuf) \in Frames
    BY HeadTailProperties DEF SlaveHandles, SlaveTypes, SlaveTypeOK
  <2>2. Head(s_rbuf).f = "I" /\ Head(s_rbuf).ty \in {"C_SC", "C_SE"}
    BY DEF Selects, Command
  <2>3. Head(s_rbuf) \in IFrames
    BY <2>1, <2>2 DEF Frames, UFrames, SFrames
  <2>4. Head(s_rbuf).val \in {0, 1}
    BY <2>3 DEF IFrames
  <2>5. QED
    BY <2>2, <2>4
<1>4. chosen' \subseteq {"C_SC", "C_SE"} \X {0, 1}
  BY <1>3, Zenon DEF Record, HistTypes
<1>5. opened' \in 0 .. m_cmds'
  <2>1. opened \in 0 .. m_cmds /\ m_cmds \in Nat
    BY MasterAssumption DEF HistTypes, MasterTypes, MasterTypeOK
  <2>2. opened' = opened \/ (GivesOpen /\ opened' = opened + 1)
    BY DEF Record
  <2>3. QED
    BY <2>1, <2>2, Counted
<1>6. QED
  BY <1>1, <1>2, <1>4, <1>5

LEMMA AgedOK ==
  /\ \A st \in SlaveStation : SlaveAged(st) \in SlaveStation
  /\ \A st \in MasterStation : MasterAged(st) \in MasterStation
<1>1. \A a \in Ages : Older(a) \in Ages
  BY FrameAssumption DEF Ages, Older, MaxAge
<1>2. QED
  BY <1>1 DEF SlaveAged, SlaveStation, MasterAged, MasterStation

TypeInv == LinkTypes /\ MasterTypes /\ SlaveTypes /\ HistTypes

LEMMA TypeParts == TypeInv => TypeOK
BY Zenon DEF TypeInv, TypeOK, LinkTypeOK, LinkTypes, MasterTypes, SlaveTypes, HistTypes, NetOK, ConnRecord, Ends

LEMMA TypeNext == TypeInv /\ [Next]_vars => TypeInv'
<1> SUFFICES ASSUME LinkTypes, MasterTypes, SlaveTypes, HistTypes, [Next]_vars
             PROVE  (LinkTypes /\ MasterTypes /\ SlaveTypes /\ HistTypes)'
  BY DEF TypeInv
<1>1. CASE MasterStep
  <2>1. (LinkTypes /\ MasterTypes)'
    BY <1>1, MasterExecTypes, MasterAppTypes DEF MasterStep
  <2>2. SlaveTypes'
    BY <1>1 DEF MasterStep, slaveVars, SlaveTypes, SlaveTypeOK
  <2>3. tick' \subseteq {"m", "s"} /\ late' = late /\ Record
    BY <1>1 DEF MasterStep, HistTypes
  <2>4. QED
    BY <2>1, <2>2, <2>3, RecordTypes DEF HistTypes
<1>2. CASE SlaveStep
  <2>1. (LinkTypes /\ SlaveTypes)'
    BY <1>2, ExecTypes, AcceptTypes, AppTypes DEF SlaveStep
  <2>2. MasterTypes'
    BY <1>2 DEF SlaveStep, masterVars, MasterTypes, MasterTypeOK
  <2>3. tick' \subseteq {"m", "s"} /\ late' = late /\ Record
    BY <1>2 DEF SlaveStep, HistTypes
  <2>4. QED
    BY <2>1, <2>2, <2>3, RecordTypes DEF HistTypes
<1>3. CASE Cut
  <2>1. LinkTypes'
    BY <1>3, CutKeepsTypes DEF Cut
  <2>2. MasterTypes' /\ SlaveTypes'
    BY <1>3 DEF Cut, masterVars, MasterTypes, MasterTypeOK, slaveVars, SlaveTypes, SlaveTypeOK
  <2>3. tick' = tick /\ late' = late /\ Record
    BY <1>3 DEF Cut
  <2>4. QED
    BY <2>1, <2>2, <2>3, RecordTypes DEF HistTypes
<1>4. CASE Tick
  <2>1. UNCHANGED <<net, backlog, m_client, s_client, acc, m_pc, m_rbuf, m_app, m_serv, m_cmds,
                    s_pc, s_rbuf, s_app, s_serv, s_spon>>
    BY <1>4 DEF Tick, linkVars
  <2>2. m' \in MasterStation /\ s' \in SlaveStation
    BY <1>4, AgedOK DEF Tick, MasterTypes, MasterTypeOK, SlaveTypes, SlaveTypeOK
  <2>3. late' \in 0 .. MaxDisturb
    <3>1. late \in Nat /\ late <= MaxDisturb /\ s_spon \in Nat /\ MaxDisturb \in Nat
      BY SlaveAssumption, CompositionAssumption DEF HistTypes, SlaveTypes, SlaveTypeOK
    <3>2. late' = late \/ (s_spon + late < MaxDisturb /\ late' = late + 1)
      BY <1>4 DEF Tick
    <3>3. QED
      BY <3>1, <3>2
  <2>4. tick' = {} /\ Record
    BY <1>4 DEF Tick
  <2>5. QED
    BY <2>1, <2>2, <2>3, <2>4, RecordTypes
       DEF LinkTypes, MasterTypes, MasterTypeOK, SlaveTypes, SlaveTypeOK, HistTypes
<1>5. CASE UNCHANGED vars
  BY <1>5 DEF vars, linkVars, masterVars, slaveVars, histVars, LinkTypes, MasterTypes, MasterTypeOK,
              SlaveTypes, SlaveTypeOK, HistTypes
<1>6. QED
  BY <1>1, <1>2, <1>3, <1>4, <1>5 DEF Next
LEMMA TypeStart == Init => TypeInv
<1> SUFFICES ASSUME Init PROVE LinkTypes /\ MasterTypes /\ SlaveTypes /\ HistTypes
  BY DEF TypeInv
<1>1. LinkTypes
  <2>1. NetOK(net)
    BY FreshOK DEF Init, LinkInit, NetOK
  <2>2. QED
    BY <2>1 DEF Init, LinkInit, LinkTypes, Ends
<1>2. 0 \in Sn /\ 0 \in 0 .. SnMod /\ Epoch \in Ages
  BY SnRange, FrameAssumption DEF Ages, Epoch, MaxAge
<1>3. SlaveTypes
  <2>1. s \in SlaveStation
    BY <1>2 DEF Init, SlaveInit, SlaveStation, LinkStates, TesterStates
  <2>2. s_app \in [pc : {"idle", "put", "send"}, sn : Sn, fr : Frames]
    BY FramesBuilt, <1>2 DEF Init, SlaveInit, AppIdle, UFuncs
  <2>3. QED
    BY <2>1, <2>2, SlaveAssumption DEF Init, SlaveInit, SlaveTypes, SlaveTypeOK
<1>4. MasterTypes
  <2>1. m \in MasterStation
    BY <1>2 DEF Init, MasterInit, MasterStation, LinkStates, TesterStates
  <2>2. /\ m_app \in [pc : {"idle", "put", "send"}, op : MasterOps \cup {"none"}, sn : Sn, rs : 0 .. SnMod]
        /\ m_app.pc = "idle"
    BY <1>2 DEF Init, MasterInit, CmdIdle
  <2>3. m_pc = "recv" /\ m_rbuf = <<>> /\ m_serv \in MasterEvents /\ m_cmds \in 0 .. MaxCmds
    BY MasterAssumption DEF Init, MasterInit, MasterEvents
  <2>4. QED
    BY <2>1, <2>2, <2>3 DEF MasterTypes, MasterTypeOK
<1>5. HistTypes
  <2>1. tick = {} /\ late = 0 /\ race = FALSE /\ wrapped = FALSE
        /\ opened = 0 /\ m_cmds = 0 /\ execs = 0 /\ chosen = {}
    BY DEF Init, MasterInit
  <2>2. 0 \in 0 .. MaxDisturb /\ 0 \in 0 .. MaxCmds + 1 /\ 0 \in 0 .. 0
    BY MasterAssumption, CompositionAssumption
  <2>3. QED
    BY <2>1, <2>2, Zenon DEF HistTypes
<1>6. QED
  BY <1>1, <1>3, <1>4, <1>5

-----------------------------------------------------------------------------
SocketInv == LinkInv /\ MasterLinked

LEMMA SocketStart == Init => SocketInv
BY LinkAssumption DEF Init, LinkInit, SocketInv, LinkInv, Shaped, Fields, Fresh, Waiting, Held,
                      MasterLinked, Ends

LEMMA SocketNext == SocketInv /\ [Next]_vars => SocketInv'
<1> SUFFICES ASSUME LinkInv, MasterLinked, [Next]_vars PROVE LinkInv' /\ MasterLinked'
  BY DEF SocketInv
<1>1. CASE MasterStep
  BY <1>1, MasterLinkNext DEF MasterStep
<1>2. CASE SlaveStep \/ Cut
  BY <1>2, SlaveLinkNext DEF SlaveStep, Cut
<1>3. CASE Tick \/ UNCHANGED vars
  <2>1. UNCHANGED linkVars
    BY <1>3 DEF Tick, vars
  <2>2. Shaped(net) /\ SameEnds(net', net)
    BY <2>1 DEF LinkInv, SameEnds, linkVars
  <2>3. QED
    BY <2>1, <2>2, SameEndsInv DEF linkVars, MasterLinked
<1>4. QED
  BY <1>1, <1>2, <1>3 DEF Next

(* However the six threads interleave, and whatever the network drops, the *)
(* two stations stay in the states their switches know, every number fits  *)
(* its 15 bits, no loop takes a frame from an empty recv_buf, and an       *)
(* accepted connection is always in the hands of port->client or of the    *)
(* accept callback.                                                        *)
THEOREM SoundLink == Spec => []LinkSound
<1>1. TypeInv /\ SocketInv => LinkSound
  <2>1. SocketInv => NoLeak
    BY DEF SocketInv, LinkInv, Held, NoLeak
  <2>2. QED
    BY <2>1, TypeParts DEF LinkSound
<1>2. Init => TypeInv /\ SocketInv
  BY TypeStart, SocketStart
<1>3. TypeInv /\ SocketInv /\ [Next]_vars => (TypeInv /\ SocketInv)'
  BY TypeNext, SocketNext
<1>4. QED
  BY <1>1, <1>2, <1>3, PTL DEF Spec

-----------------------------------------------------------------------------
(* Select before execute.  The slave keeps nothing of a command, so that   *)
(* it executes only what it was asked to select rests on the master, which *)
(* sends an execute command only in answer to a confirmation, and on no    *)
(* confirmation or execute command outliving the connection it belongs to. *)
(*                                                                         *)
(* The property speaks of the frame at the head of recv_buf.  CmdInv       *)
(* extends it to every frame on the way, in both directions, on the        *)
(* connection that is served (Serving, Parsing); what is queued for accept *)
(* carries no execute command (Queued); and until STARTDT has been parsed, *)
(* which resets the slave's record of selections, nothing has been         *)
(* confirmed (Unstarted).                                                  *)

Controls == {"C_SC", "C_SE"}

(* What the master sends, and what it is told, while the slave has         *)
(* acknowledged the selections ch.                                         *)
Asked(ch) ==
  {fr \in Frames :
     /\ fr # STOPDT
     /\ fr.f = "I" /\ fr.ty \in Controls =>
          fr.cot = "ACT" /\ (fr.sel \/ <<fr.ty, fr.val>> \in ch)}
Told(ch) ==
  {fr \in Frames :
     fr.f = "I" /\ fr.ty \in Controls /\ fr.cot = "ACTCON" => <<fr.ty, fr.val>> \in ch}

(* The state of a connection in use, and of one that waits for accept.     *)
Serves(r, ch) == r.up \in Seq(Asked(ch)) /\ r.down \in Seq(Told(ch))
Opens(r) == \/ Len(r.up) > 0 /\ r.up[1] = STARTDT
            \/ Len(r.up) = 0 /\ r.cut
Waits(r) == Opens(r) /\ r.up \in Seq(Asked({})) /\ Len(r.down) = 0

Serving(ch) ==
  s_client # NoConn =>
    /\ Serves(net[s_client], ch)
    /\ m_client = s_client /\ m_pc = "parse" => m_rbuf \in Seq(Told(ch))
Parsing(ch) == s_pc = "parse" => s_rbuf \in Seq(Asked(ch))
Queued ==
  \A c \in Conns : Pending(c) => Waits(net[c]) /\ (m_client = c => m_pc # "parse")
Unstarted ==
  s.init = "INIT" =>
    /\ Serving({}) /\ Parsing({})
    /\ s_client # NoConn => /\ s_pc = "parse" => s_rbuf[1] = STARTDT
                            /\ s_pc # "parse" => Opens(net[s_client])
Orphaned == s_client = NoConn /\ s_pc = "parse" => acc.pc = "sleep"
Offered == m_client # NoConn /\ net[m_client].slv = "none" => Pending(m_client)
Steady == s.init # "DISCONNECT" /\ s_app.fr \in Told({})

CmdInv ==
  /\ Serving(chosen) /\ Parsing(chosen)
  /\ Queued /\ Unstarted /\ Orphaned /\ Offered /\ Steady

-----------------------------------------------------------------------------
(* Frames.                                                                 *)
LEMMA SeqWider ==
  ASSUME NEW S, NEW T, S \subseteq T, NEW q \in Seq(S)
  PROVE  q \in Seq(T)
<1>1. Len(q) \in Nat /\ q \in [1 .. Len(q) -> S]
  BY LenProperties
<1>2. q \in [1 .. Len(q) -> T]
  BY <1>1
<1>3. QED
  BY <1>1, <1>2, SeqDef

LEMMA MoreChosen ==
  ASSUME NEW ch, NEW dh, ch \subseteq dh
  PROVE  /\ \A q \in Seq(Asked(ch)) : q \in Seq(Asked(dh))
         /\ \A q \in Seq(Told(ch)) : q \in Seq(Told(dh))
<1>1. Asked(ch) \subseteq Asked(dh) /\ Told(ch) \subseteq Told(dh)
  BY DEF Asked, Told
<1>2. ASSUME NEW q \in Seq(Asked(ch)) PROVE q \in Seq(Asked(dh))
  BY <1>1, SeqWider
<1>3. ASSUME NEW q \in Seq(Told(ch)) PROVE q \in Seq(Told(dh))
  BY <1>1, SeqWider
<1>4. QED
  BY <1>2, <1>3

LEMMA OnlyFrames ==
  ASSUME NEW ch
  PROVE  /\ \A q \in Seq(Asked(ch)) : q \in Seq(Frames)
         /\ \A q \in Seq(Told(ch)) : q \in Seq(Frames)
<1>1. Asked(ch) \subseteq Frames /\ Told(ch) \subseteq Frames
  BY DEF Asked, Told
<1>2. ASSUME NEW q \in Seq(Asked(ch)) PROVE q \in Seq(Frames)
  BY <1>1, SeqWider
<1>3. ASSUME NEW q \in Seq(Told(ch)) PROVE q \in Seq(Frames)
  BY <1>1, SeqWider
<1>4. QED
  BY <1>2, <1>3

LEMMA AskedFrames ==
  ASSUME NEW ch
  PROVE  /\ \A fn \in UFuncs \ {"STOPDT"} : UFrame(fn) \in Asked(ch)
         /\ \A rs \in 0 .. SnMod : SFrame(rs) \in Asked(ch)
         /\ \A op \in MasterOps, ss \in Sn, rs \in 0 .. SnMod : CmdFrame(op, ss, rs) \in Asked(ch)
<1>1. ASSUME NEW fn \in UFuncs \ {"STOPDT"} PROVE UFrame(fn) \in Asked(ch)
  <2>1. UFrame(fn) \in Frames
    BY FramesBuilt
  <2>2. UFrame(fn).fn = fn /\ STOPDT.fn = "STOPDT" /\ UFrame(fn).f = "U"
    BY DEF UFrame, STOPDT
  <2>3. QED
    BY <2>1, <2>2 DEF Asked
<1>2. ASSUME NEW rs \in 0 .. SnMod PROVE SFrame(rs) \in Asked(ch)
  <2>1. SFrame(rs) \in Frames
    BY FramesBuilt
  <2>2. SFrame(rs).f = "S" /\ STOPDT.f = "U"
    BY DEF SFrame, UFrame, STOPDT
  <2>3. QED
    BY <2>1, <2>2 DEF Asked
<1>3. ASSUME NEW op \in MasterOps, NEW ss \in Sn, NEW rs \in 0 .. SnMod
      PROVE  CmdFrame(op, ss, rs) \in Asked(ch)
  <2> DEFINE fr == CmdFrame(op, ss, rs)
  <2>1. fr \in Frames
    BY CmdFrameOK
  <2>2. fr.f = "I" /\ fr.cot = "ACT" /\ (fr.ty \in Controls => fr.sel) /\ STOPDT.f = "U"
    BY MasterAssumption DEF CmdFrame, IFrame, UFrame, STOPDT, Controls
  <2> HIDE DEF fr
  <2>3. QED
    BY <2>1, <2>2 DEF Asked, fr
<1>4. QED
  BY <1>1, <1>2, <1>3

LEMMA ToldFrames ==
  ASSUME NEW ch
  PROVE  /\ \A fn \in UFuncs : UFrame(fn) \in Told(ch)
         /\ \A rs \in 0 .. SnMod : SFrame(rs) \in Told(ch)
         /\ \A fr \in Frames : fr.f = "I" /\ (fr.ty \notin Controls \/ fr.cot # "ACTCON") => fr \in Told(ch)
<1>1. ASSUME NEW fn \in UFuncs PROVE UFrame(fn) \in Told(ch)
  <2>1. UFrame(fn) \in Frames /\ UFrame(fn).f = "U"
    BY FramesBuilt DEF UFrame
  <2>2. QED
    BY <2>1 DEF Told
<1>2. ASSUME NEW rs \in 0 .. SnMod PROVE SFrame(rs) \in Told(ch)
  <2>1. SFrame(rs) \in Frames /\ SFrame(rs).f = "S"
    BY FramesBuilt DEF SFrame
  <2>2. QED
    BY <2>1 DEF Told
<1>3. QED
  BY <1>1, <1>2 DEF Told

-----------------------------------------------------------------------------
(* What the slave writes.                                                  *)
Tells(w, ch) == WorkOK(w) /\ w.out \in Seq(Told(ch))

LEMMA BuildITells ==
  ASSUME NEW ch, NEW w, Tells(w, ch), NEW ty \in AsduTypes, NEW cot \in Reasons,
         NEW ia0 \in BOOLEAN, NEW sel \in BOOLEAN, NEW val \in {0, 1},
         ty \in Controls /\ cot = "ACTCON" => <<ty, val>> \in ch
  PROVE  Tells(BuildI(w, ty, cot, ia0, sel, val), ch)
<1> DEFINE f == IFrame(ty, cot, ia0, sel, val, w.st.build_send, w.st.build_recv)
<1>1. w.st.build_send \in Sn /\ w.st.build_recv \in 0 .. SnMod /\ w.out \in Seq(Told(ch))
  BY DEF Tells, WorkOK, SlaveStation
<1>2. f \in Frames
  BY <1>1, FramesBuilt
<1>3. f.f = "I" /\ f.ty = ty /\ f.cot = cot /\ f.val = val
  BY DEF IFrame
<1>4. BuildI(w, ty, cot, ia0, sel, val).out = Append(w.out, f)
  BY DEF BuildI, Tells, WorkOK
<1> HIDE DEF f
<1>5. f \in Told(ch)
  BY <1>2, <1>3 DEF Told
<1>6. Append(w.out, f) \in Seq(Told(ch))
  BY <1>1, <1>5
<1>7. WorkOK(BuildI(w, ty, cot, ia0, sel, val))
  BY BuildIOK DEF Tells
<1>8. QED
  BY <1>4, <1>6, <1>7 DEF Tells

LEMMA NodeListTells ==
  ASSUME NEW ch, NEW w, Tells(w, ch), NEW k \in Nat, NEW ty \in AsduTypes \ Controls, NEW cot \in Reasons
  PROVE  Tells(NodeList(w, k, ty, cot), ch)
<1> DEFINE q == NodeFrames(w, k, ty, cot)
<1>1. WorkOK(w) /\ w.out \in Seq(Told(ch))
  BY DEF Tells
<1>2. q \in Seq(Frames) /\ Len(q) = k
  BY <1>1, NodeFramesOK
<1>3. ASSUME NEW i \in 1 .. k PROVE q[i] \in Told(ch)
  <2>1. q[i] \in Frames
    BY <1>2
  <2>2. q[i].f = "I" /\ q[i].ty = ty
    BY DEF NodeFrames, IFrame
  <2> HIDE DEF q
  <2>3. QED
    BY <2>1, <2>2, ToldFrames
<1>4. q \in Seq(Told(ch))
  <2>1. q = [i \in 1 .. Len(q) |-> q[i]]
    BY <1>2
  <2>2. q \in [1 .. k -> Told(ch)]
    BY <1>2, <1>3, <2>1
  <2>3. QED
    BY <2>2, SeqDef
<1>5. NodeList(w, k, ty, cot).out = w.out \o q
  BY <1>1 DEF NodeList, NodeFrames, WorkOK
<1>6. WorkOK(NodeList(w, k, ty, cot))
  BY <1>1, NodeListOK
<1> HIDE DEF q
<1>7. QED
  BY <1>1, <1>4, <1>5, <1>6, ConcatProperties DEF Tells

(* A handler that writes one frame that is no I frame.                     *)
LEMMA WritesTells ==
  ASSUME NEW ch, NEW w, Tells(w, ch), NEW f \in Told(ch), NEW x, WorkOK(x), x.out = Append(w.out, f)
  PROVE  Tells(x, ch)
BY DEF Tells

LEMMA CallsTell ==
  ASSUME NEW ch, NEW w, Tells(w, ch), NEW fr
  PROVE  Tells(iec104_s_asdu_call_all(w, fr), ch) /\ Tells(iec104_s_asdu_call_pulse(w, fr), ch)
<1>0. /\ {"C_IC", "M_SP", "M_ME", "M_IT"} \subseteq AsduTypes \ Controls
      /\ {"ACTCON", "ACTTERM", "INTROGEN", "REQCOGEN"} \subseteq Reasons
  BY DEF AsduTypes, Controls, Reasons
<1>1. ASSUME NEW x, Tells(x, ch)
      PROVE  Tells(iec104_s_build_call_ack(x), ch) /\ Tells(iec104_s_build_call_finsh(x), ch)
  BY <1>0, <1>1, BuildITells DEF iec104_s_build_call_ack, iec104_s_build_call_finsh
<1>2. ASSUME NEW x, Tells(x, ch), NEW k \in Nat
      PROVE  /\ Tells(iec104_s_build_yx(x, k), ch) /\ Tells(iec104_s_build_yc(x, k), ch)
             /\ Tells(iec104_s_build_ym(x, k), ch)
  BY <1>0, <1>2, NodeListTells DEF iec104_s_build_yx, iec104_s_build_yc, iec104_s_build_ym
<1>3. QED
  BY <1>1, <1>2, SlaveAssumption DEF iec104_s_asdu_call_all, iec104_s_asdu_call_pulse

Selected(fr) == IF Selects(fr) THEN {<<fr.ty, fr.val>>} ELSE {}

LEMMA ParseTells ==
  ASSUME NEW ch, NEW w, WorkOK(w), w.out = <<>>, NEW fr \in Asked(ch),
         NEW x \in iec104_s_frame_parse(w, fr)
  PROVE  x.out \in Seq(Told(ch \cup Selected(fr)))
<1> DEFINE dh == ch \cup Selected(fr)
<1>0. fr \in Frames /\ WorkOK(x) /\ <<>> \in Seq(Told(dh)) /\ Tells(w, dh)
  <2>1. fr \in Frames
    BY DEF Asked
  <2>2. QED
    BY <2>1, ParseOK, EmptySeq DEF Tells
<1> HIDE DEF dh
<1>1. CASE fr.f = "U"
  <2>1. x = iec104_s_frame_u_parse(w, fr)
    BY <1>1 DEF iec104_s_frame_parse
  <2>2. UFrame("TESTER_ACK") \in Told(dh)
    BY ToldFrames DEF UFuncs
  <2>3. x.out = w.out \/ x.out = Append(w.out, UFrame("TESTER_ACK"))
    BY <1>0, <2>1 DEF iec104_s_frame_u_parse, iec104_s_build_u_ack, WorkOK
  <2>4. w.out \in Seq(Told(dh))
    BY <1>0 DEF Tells
  <2>5. x.out \in Seq(Told(dh))
    <3>1. \A q \in Seq(Told(dh)), f \in Told(dh) : Append(q, f) \in Seq(Told(dh))
      OBVIOUS
    <3>2. QED
      BY <2>2, <2>3, <2>4, <3>1, Zenon
  <2>6. QED
    BY <2>5 DEF dh
<1>2. CASE fr.f = "S"
  BY <1>0, <1>2 DEF iec104_s_frame_parse, dh
<1>3. CASE fr.f = "I"
  <2>1. x \in iec104_s_frame_i_parse(w, fr) /\ fr \in IFrames
    BY <1>0, <1>3 DEF iec104_s_frame_parse, Frames, UFrames, SFrames
  <2> DEFINE d == iec104_s_deal_sn(w, fr)
  <2>2. Tells(d, dh)
    <3>1. fr.ss + 1 \in 0 .. SnMod
      BY <2>1, FrameAssumption DEF IFrames, Sn
    <3>2. WorkOK(d) /\ d.out = w.out
      BY <3>1 DEF iec104_s_deal_sn, WorkOK, SlaveStation
    <3>3. QED
      BY <1>0, <3>2 DEF Tells
  <2> HIDE DEF d
  <2>3. Tells(iec104_s_asdu_call_all(d, fr), dh) /\ Tells(iec104_s_asdu_call_pulse(d, fr), dh)
    BY <2>2, CallsTell
  <2>4. ASSUME NEW y \in iec104_s_asdu_clock(d, fr)
        PROVE  Tells(iec104_s_build_s_ack(y), dh)
    <3>1. WorkOK(y) /\ WorkOK(iec104_s_build_s_ack(y))
      BY <2>2, ClockOK DEF Tells
    <3>2. y.out = d.out
      <4>1. CASE y = d
        BY <4>1
      <4>2. CASE y # d
        <5>1. PICK p \in UNION {Stepped(d.st.t_test, e) \X Stepped(d.st.t_timer, e) : e \in ClockSteps} :
                y = [d EXCEPT !.st.t_test = p[1], !.st.t_timer = p[2]]
          BY <4>2 DEF iec104_s_asdu_clock
        <5>2. QED
          BY <2>2, <5>1, Zenon DEF Tells, WorkOK
      <4>3. QED
        BY <4>1, <4>2
    <3>3. iec104_s_build_s_ack(y).out = Append(d.out, SFrame(y.st.build_recv))
      BY <3>1, <3>2 DEF iec104_s_build_s_ack, WorkOK
    <3>4. SFrame(y.st.build_recv) \in Told(dh)
      BY <3>1, ToldFrames DEF WorkOK, SlaveStation
    <3>5. QED
      BY <2>2, <3>1, <3>3, <3>4, WritesTells
  <2>5. fr.ty \in Controls /\ fr.own => Tells(BuildI(d, fr.ty, "ACTCON", fr.ia0, fr.sel, fr.val), dh)
    <3> SUFFICES ASSUME fr.ty \in Controls, fr.own
                 PROVE  Tells(BuildI(d, fr.ty, "ACTCON", fr.ia0, fr.sel, fr.val), dh)
      OBVIOUS
    <3>1. fr.cot = "ACT" /\ (fr.sel \/ <<fr.ty, fr.val>> \in ch)
      BY <1>3 DEF Asked
    <3>2. fr.sel => Selects(fr)
      BY <1>3, <3>1 DEF Selects, Command, Executes, Controls, iec104_s_asdu_yk, iec104_s_asdu_yt
    <3>3. <<fr.ty, fr.val>> \in dh
      BY <3>1, <3>2 DEF dh, Selected
    <3>4. /\ fr.ty \in AsduTypes /\ "ACTCON" \in Reasons
          /\ fr.ia0 \in BOOLEAN /\ fr.sel \in BOOLEAN /\ fr.val \in {0, 1}
      BY <2>1 DEF IFrames, Reasons
    <3>5. QED
      BY <2>2, <3>3, <3>4, BuildITells
  <2>6. \/ x = w \/ x = d
        \/ x = iec104_s_asdu_call_all(d, fr) \/ x = iec104_s_asdu_call_pulse(d, fr)
        \/ fr.ty \in Controls /\ fr.own /\ x = BuildI(d, fr.ty, "ACTCON", fr.ia0, fr.sel, fr.val)
        \/ \E y \in iec104_s_asdu_clock(d, fr) : x = iec104_s_build_s_ack(y)
    BY <2>1 DEF iec104_s_frame_i_parse, iec104_s_build_yk_ack, iec104_s_build_yt_ack, Controls, d
  <2>7. Tells(x, dh)
    BY <1>0, <2>2, <2>3, <2>4, <2>5, <2>6
  <2>8. QED
    BY <2>7 DEF Tells, dh
<1>4. QED
  BY <1>0, <1>1, <1>2, <1>3 DEF Frames, UFrames, SFrames, IFrames

LEMMA StateMachineTells ==
  ASSUME NEW ch, NEW w, Tells(w, ch)
  PROVE  Tells(iec104_s_state_machine(w), ch)
<1>1. \A fn \in UFuncs : UFrame(fn) \in Told(ch)
  BY ToldFrames
<1>2. Tells(LinkStep(w), ch)
  <2>1. CASE w.st.init = "CONNECT_OK"
    <3> DEFINE u == iec104_s_build_u_ack(w, "STARTDT")
               v == iec104_s_build_init_finsh(u)
    <3>1. WorkOK(u)
      BY FramesBuilt DEF iec104_s_build_u_ack, WorkOK, UFuncs, Tells
    <3>2. u.out = Append(w.out, UFrame("STARTDT_ACK"))
      BY DEF iec104_s_build_u_ack, Tells, WorkOK
    <3>3. Tells(u, ch)
      BY <1>1, <3>1, <3>2, WritesTells DEF UFuncs
    <3> HIDE DEF u
    <3>4. Tells(v, ch)
      BY <3>3, BuildITells DEF iec104_s_build_init_finsh, AsduTypes, Reasons, Controls
    <3>5. LinkStep(w).out = v.out
      <4>1. LinkStep(w) = [v EXCEPT !.st.init = "IDLE", !.st.t_timer = 0, !.serv = "CONNECTED"]
        BY <2>1 DEF LinkStep, u
      <4> HIDE DEF v
      <4>2. QED
        BY <3>4, <4>1, Zenon DEF Tells, WorkOK
    <3>6. QED
      BY <3>4, <3>5, LinkStepOK DEF Tells
  <2>2. CASE w.st.init # "CONNECT_OK"
    <3>1. LinkStep(w).out = w.out
      BY <2>2 DEF LinkStep, Tells, WorkOK
    <3>2. QED
      BY <3>1, LinkStepOK DEF Tells
  <2>3. QED
    BY <2>1, <2>2
<1>3. ASSUME NEW x, Tells(x, ch) PROVE TesterStep(x).out \in Seq(Told(ch))
  <2>1. x.st.test \in TesterStates
    BY <1>3 DEF Tells, WorkOK, SlaveStation
  <2>2. TesterStep(x).out = x.out \/ TesterStep(x).out = Append(x.out, UFrame("TESTER"))
    BY <1>3, <2>1 DEF TesterStep, iec104_s_build_u, TesterStates, Tells, WorkOK
  <2>3. QED
    BY <1>1, <1>3, <2>2 DEF Tells, UFuncs
<1>4. QED
  BY <1>2, <1>3, StateMachineOK DEF iec104_s_state_machine, Tells
-----------------------------------------------------------------------------
(* What the master writes.                                                 *)
Asks(w, ch) == MWorkOK(w) /\ w.out \in Seq(Asked(ch)) /\ w.close = FALSE

LEMMA AcksAsk ==
  ASSUME NEW ch, NEW w, Asks(w, ch), NEW e \in MasterEvents
  PROVE  /\ Asks([w EXCEPT !.serv = e], ch) /\ Asks(iec104_m_build_s_ack(w), ch)
         /\ Asks(iec104_m_build_s_ack([w EXCEPT !.serv = e]), ch)
<1>1. ASSUME NEW x, Asks(x, ch) PROVE Asks(iec104_m_build_s_ack(x), ch)
  <2>1. SFrame(x.st.build_recv) \in Asked(ch)
    BY <1>1, AskedFrames DEF Asks, MWorkOK, MasterStation
  <2>2. MWorkOK(iec104_m_build_s_ack(x))
    BY <1>1, ReportOK DEF Asks, MasterEvents
  <2>3. /\ iec104_m_build_s_ack(x).out = Append(x.out, SFrame(x.st.build_recv))
        /\ iec104_m_build_s_ack(x).close = x.close
    BY <1>1 DEF iec104_m_build_s_ack, Asks, MWorkOK
  <2>4. QED
    BY <1>1, <2>1, <2>2, <2>3 DEF Asks
<1>2. Asks([w EXCEPT !.serv = e], ch)
  BY DEF Asks, MWorkOK
<1>3. QED
  BY <1>1, <1>2

LEMMA MasterParseAsks ==
  ASSUME NEW ch, NEW w, MWorkOK(w), w.out = <<>>, w.close = FALSE, NEW fr \in Told(ch)
  PROVE  iec104_m_frame_parse(w, fr).out \in Seq(Asked(ch)) /\ iec104_m_frame_parse(w, fr).close = FALSE
<1>0. Asks(w, ch) /\ fr \in Frames
  <2>1. w.out \in Seq(Asked(ch))
    BY EmptySeq
  <2>2. QED
    BY <2>1 DEF Asks, Told
<1>1. ASSUME NEW x, Asks(x, ch), iec104_m_frame_parse(w, fr) = [x EXCEPT !.st.t_timer = 0]
      PROVE  iec104_m_frame_parse(w, fr).out \in Seq(Asked(ch)) /\ iec104_m_frame_parse(w, fr).close = FALSE
  BY <1>1 DEF Asks, MWorkOK
<1>2. CASE fr.f = "U"
  <2>1. Asks(iec104_m_build_u_ack(w), ch)
    <3>1. UFrame("TESTER_ACK") \in Asked(ch) /\ UFrame("TESTER_ACK") \in Frames
      BY AskedFrames, FramesBuilt DEF UFuncs
    <3>2. QED
      BY <1>0, <3>1 DEF iec104_m_build_u_ack, Asks, MWorkOK
  <2>2. /\ Asks([w EXCEPT !.st.init = "CONNECT_OK"], ch) /\ Asks([w EXCEPT !.st.init = "DISCONNECT"], ch)
        /\ Asks([w EXCEPT !.st.test = "TESTER_STOP"], ch)
    BY <1>0 DEF Asks, MWorkOK, MasterStation, LinkStates, TesterStates
  <2>3. Asks(iec104_m_frame_u_parse(w, fr), ch)
    BY <1>0, <2>1, <2>2 DEF iec104_m_frame_u_parse
  <2>4. iec104_m_frame_parse(w, fr) = [iec104_m_frame_u_parse(w, fr) EXCEPT !.st.t_timer = 0]
    BY <1>2 DEF iec104_m_frame_parse
  <2>5. QED
    BY <1>1, <2>3, <2>4
<1>3. CASE fr.f = "S"
  <2>1. iec104_m_frame_parse(w, fr) = [w EXCEPT !.st.t_timer = 0]
    BY <1>3 DEF iec104_m_frame_parse
  <2>2. QED
    BY <1>0, <1>1, <2>1
<1>4. CASE fr.f = "I"
  <2>1. fr \in IFrames
    BY <1>0, <1>4 DEF Frames, UFrames, SFrames
  <2> DEFINE d == iec104_m_deal_sn(w, fr)
  <2>2. Asks(d, ch)
    <3>1. fr.ss + 1 \in 0 .. SnMod /\ fr.ss \in Sn \cup {-1} /\ fr.rs \in Sn
      BY <2>1, FrameAssumption DEF IFrames, Sn
    <3>2. MWorkOK(d) /\ d.out = w.out /\ d.close = w.close
      BY <3>1 DEF iec104_m_deal_sn, MWorkOK, MasterStation
    <3>3. QED
      BY <1>0, <3>2 DEF Asks
  <2> HIDE DEF d
  <2>3. \A e \in MasterEvents :
          /\ Asks([d EXCEPT !.serv = e], ch) /\ Asks(iec104_m_build_s_ack(d), ch)
          /\ Asks(iec104_m_build_s_ack([d EXCEPT !.serv = e]), ch)
    BY <2>2, AcksAsk
  <2>4. /\ Asks(iec104_m_asdu_call_all(d, fr), ch) /\ Asks(iec104_m_asdu_call_pulse(d, fr), ch)
        /\ Asks(iec104_m_asdu_clock(d, fr), ch)
    BY <2>2, <2>3
       DEF iec104_m_asdu_call_all, iec104_m_asdu_call_pulse, iec104_m_asdu_clock, MasterEvents
  <2>5. fr.ty \in Controls /\ fr.cot = "ACTCON" => Asks(Execute(d, fr), ch)
    <3> SUFFICES ASSUME fr.ty \in Controls, fr.cot = "ACTCON" PROVE Asks(Execute(d, fr), ch)
      OBVIOUS
    <3> DEFINE f == IFrame(fr.ty, "ACT", fr.ia0, FALSE, fr.val, d.st.build_send, d.st.build_recv)
    <3>1. <<fr.ty, fr.val>> \in ch
      BY <1>4 DEF Told
    <3>2. f \in Frames
      <4>1. d.st.build_send \in Sn /\ d.st.build_recv \in 0 .. SnMod
        BY <2>2 DEF Asks, MWorkOK, MasterStation
      <4>2. fr.ty \in AsduTypes /\ fr.ia0 \in BOOLEAN /\ fr.val \in {0, 1} /\ "ACT" \in Reasons
        BY <2>1 DEF IFrames, Reasons
      <4>3. QED
        BY <4>1, <4>2, FramesBuilt
    <3>3. f.f = "I" /\ f.ty = fr.ty /\ f.cot = "ACT" /\ f.val = fr.val /\ STOPDT.f = "U"
      BY DEF IFrame, STOPDT, UFrame
    <3>4. Execute(d, fr).out = Append(d.out, f) /\ Execute(d, fr).close = d.close
      BY <2>2 DEF Execute, Asks, MWorkOK
    <3>5. MWorkOK(Execute(d, fr))
      BY <2>1, <2>2, ExecuteOK DEF Asks
    <3> HIDE DEF f
    <3>6. f \in Asked(ch)
      BY <3>1, <3>2, <3>3 DEF Asked
    <3>7. QED
      BY <2>2, <3>4, <3>5, <3>6 DEF Asks
  <2>6. /\ fr.ty = "C_SC" => Asks(iec104_m_asdu_yk(d, fr), ch)
        /\ fr.ty = "C_SE" => Asks(iec104_m_asdu_yt(d, fr), ch)
    BY <2>3, <2>5
       DEF iec104_m_asdu_yk, iec104_m_asdu_yt, iec104_m_build_yk_ack, iec104_m_build_yt_ack,
           MasterEvents, Controls
  <2>7. \/ iec104_m_frame_i_parse(w, fr) = w
        \/ fr.ty = "C_SC" /\ iec104_m_frame_i_parse(w, fr) = iec104_m_asdu_yk(d, fr)
        \/ fr.ty = "C_SE" /\ iec104_m_frame_i_parse(w, fr) = iec104_m_asdu_yt(d, fr)
        \/ iec104_m_frame_i_parse(w, fr) \in
             {d, iec104_m_build_s_ack(d), iec104_m_asdu_call_all(d, fr), iec104_m_asdu_call_pulse(d, fr),
              iec104_m_asdu_clock(d, fr)}
    BY DEF iec104_m_frame_i_parse, d
  <2>8. "CLOCK_SYNC" \in MasterEvents
    BY DEF MasterEvents
  <2>9. Asks(iec104_m_frame_i_parse(w, fr), ch)
    BY <1>0, <2>2, <2>3, <2>4, <2>6, <2>7, <2>8
  <2>10. iec104_m_frame_parse(w, fr) = [iec104_m_frame_i_parse(w, fr) EXCEPT !.st.t_timer = 0]
    BY <1>4 DEF iec104_m_frame_parse
  <2>11. QED
    BY <1>1, <2>9, <2>10
<1>5. QED
  BY <1>0, <1>2, <1>3, <1>4 DEF Frames, UFrames, SFrames, IFrames

LEMMA MasterMachineAsks ==
  ASSUME NEW ch, NEW w, MWorkOK(w), w.out = <<>>
  PROVE  iec104_m_state_machine(w).out \in Seq(Asked(ch))
<1>0. UFrame("TESTER") \in Asked(ch) /\ w.out \in Seq(Asked(ch))
  BY AskedFrames, EmptySeq DEF UFuncs
<1>1. MLinkStep(w).out = w.out /\ MWorkOK(MLinkStep(w))
  <2>1. MLinkStep(w).out = w.out
    BY DEF MLinkStep, MWorkOK
  <2>2. QED
    BY <2>1, MLinkStepOK
<1>2. ASSUME NEW x, MWorkOK(x), x.out = w.out PROVE MTesterStep(x).out \in Seq(Asked(ch))
  <2>1. x.st.test \in TesterStates
    BY <1>2 DEF MWorkOK, MasterStation
  <2>2. MTesterStep(x).out = w.out \/ MTesterStep(x).out = Append(w.out, UFrame("TESTER"))
    BY <1>2, <2>1 DEF MTesterStep, iec104_m_build_u, TesterStates, MWorkOK
  <2> DEFINE o == w.out
  <2> HIDE DEF o
  <2>3. \A f \in Asked(ch) : Append(o, f) \in Seq(Asked(ch))
    <3>1. o \in Seq(Asked(ch))
      BY <1>0 DEF o
    <3>2. QED
      BY <3>1
  <2>4. QED
    BY <1>0, <2>2, <2>3 DEF o
<1>3. iec104_m_state_machine(w) = IF MLinkStep(w).st.init = "IDLE" THEN MTesterStep(MLinkStep(w))
                                  ELSE MLinkStep(w)
  BY DEF iec104_m_state_machine
<1>4. QED
  BY <1>0, <1>1, <1>2, <1>3
-----------------------------------------------------------------------------
(* What a step of the master does to the connections.                      *)
MasterWrote(q) ==
  \/ net' = MasterSent(net, m_client, q) /\ m_client' = m_client
  \/ net' = MasterClosed(MasterSent(net, m_client, q), m_client) /\ m_client' = NoConn

LEMMA MasterWroteEffect ==
  ASSUME LinkTypes, NEW q, MasterWrote(q), NEW c \in Conns, net[c].slv # "closed"
  PROVE  /\ c # m_client => net'[c] = net[c]
         /\ net'[c].cut = net[c].cut /\ net'[c].slv = net[c].slv
         /\ net'[c].down = net[c].down \/ net'[c].down = <<>>
         /\ \/ net'[c].up = net[c].up
            \/ c = m_client /\ ~net[c].cut /\ net'[c].up = net[c].up \o q
<1> DEFINE n == MasterSent(net, m_client, q)
<1>0. /\ DOMAIN net = Conns /\ DOMAIN net[c] = Fields
      /\ m_client \in Conns \cup {NoConn} /\ c # NoConn
      /\ m_client # NoConn => DOMAIN net[m_client] = Fields
  BY LinkAssumption DEF LinkTypes, NetOK, ConnRecord, Ends, Fields
<1>1. /\ DOMAIN n = Conns /\ DOMAIN n[c] = Fields
      /\ c # m_client => n[c] = net[c]
      /\ n[c].cut = net[c].cut /\ n[c].slv = net[c].slv /\ n[c].down = net[c].down
      /\ \/ n[c].up = net[c].up
         \/ c = m_client /\ ~net[c].cut /\ n[c].up = net[c].up \o q
  BY <1>0 DEF MasterSent, Fields
<1>2. net' = n \/ net' = MasterClosed(n, m_client)
  BY DEF MasterWrote
<1> HIDE DEF n
<1>3. CASE net' = n
  BY <1>1, <1>3
<1>4. CASE net' = MasterClosed(n, m_client) /\ c # m_client
  <2>1. net'[c] = n[c]
    BY <1>0, <1>1, <1>4 DEF MasterClosed
  <2>2. QED
    BY <1>1, <1>4, <2>1
<1>5. CASE net' = MasterClosed(n, m_client) /\ c = m_client
  <2>1. net' = [n EXCEPT ![c].mst = "closed", ![c].down = <<>>]
    BY <1>0, <1>1, <1>5 DEF MasterClosed
  <2>2. /\ net'[c].cut = n[c].cut /\ net'[c].slv = n[c].slv /\ net'[c].down = <<>>
        /\ net'[c].up = n[c].up
    BY <1>1, <2>1, Zenon DEF Fields
  <2>3. QED
    BY <1>1, <1>5, <2>2
<1>6. QED
  BY <1>2, <1>3, <1>4, <1>5

LEMMA ServesOn ==
  ASSUME NEW ch, NEW r, Serves(r, ch), NEW t,
         t.down = r.down \/ t.down = <<>>,
         NEW q, t.up = r.up \/ (q \in Seq(Asked(ch)) /\ t.up = r.up \o q)
  PROVE  Serves(t, ch)
<1>1. <<>> \in Seq(Told(ch))
  BY EmptySeq
<1>2. t.down \in Seq(Told(ch))
  BY <1>1, Zenon DEF Serves
<1>3. \A a, b \in Seq(Asked(ch)) : a \o b \in Seq(Asked(ch))
  BY ConcatProperties
<1>4. t.up \in Seq(Asked(ch))
  BY <1>3, Zenon DEF Serves
<1>5. QED
  BY <1>2, <1>4 DEF Serves

LEMMA OpensOn ==
  ASSUME NEW r, Opens(r), r.up \in Seq(Frames), NEW t, t.cut = r.cut, NEW q,
         t.up = r.up \/ (~r.cut /\ q \in Seq(Frames) /\ t.up = r.up \o q)
  PROVE  Opens(t)
<1>1. CASE t.up = r.up
  BY <1>1 DEF Opens
<1>2. CASE ~r.cut /\ q \in Seq(Frames) /\ t.up = r.up \o q
  <2>1. Len(r.up) > 0 /\ r.up[1] = STARTDT
    BY <1>2 DEF Opens
  <2>2. Len(t.up) = Len(r.up) + Len(q) /\ t.up[1] = r.up[1] /\ Len(q) \in Nat /\ Len(r.up) \in Nat
    BY <1>2, <2>1, ConcatProperties
  <2>3. QED
    BY <2>1, <2>2 DEF Opens
<1>3. QED
  BY <1>1, <1>2

LEMMA WaitsOn ==
  ASSUME NEW r, Waits(r), NEW t, t.cut = r.cut,
         t.down = r.down \/ t.down = <<>>,
         NEW q, t.up = r.up \/ (~r.cut /\ q \in Seq(Asked({})) /\ t.up = r.up \o q)
  PROVE  Waits(t)
<1>1. r.up \in Seq(Frames) /\ (q \in Seq(Asked({})) => q \in Seq(Frames))
  BY OnlyFrames DEF Waits
<1>2. Opens(t)
  BY <1>1, OpensOn DEF Waits
<1>3. Len(<<>>) = 0
  OBVIOUS
<1>4. Len(t.down) = 0
  BY <1>3, Zenon DEF Waits
<1>5. \A a, b \in Seq(Asked({})) : a \o b \in Seq(Asked({}))
  BY ConcatProperties
<1>6. t.up \in Seq(Asked({}))
  BY <1>5, Zenon DEF Waits
<1>7. QED
  BY <1>2, <1>4, <1>6 DEF Waits

(* What the invariant says of the records of the connections in use.       *)
LEMMA Installed ==
  ASSUME LinkInv
  PROVE  /\ s_client # NoConn => s_client \in Conns /\ net[s_client].slv = "open" /\ ~Pending(s_client)
         /\ \A c \in Conns : Pending(c) => net[c].slv # "closed" /\ c # s_client
BY Pointers, LinkAssumption

LEMMA MasterKeeps ==
  ASSUME TypeInv, LinkInv, CmdInv, NEW q \in Seq(Frames), MasterWrote(q),
         m_client # NoConn /\ m_client = s_client =>
           q \in Seq(Asked(chosen)) /\ (s.init = "INIT" => q \in Seq(Asked({}))),
         m_client # NoConn /\ Pending(m_client) => q \in Seq(Asked({})),
         m_pc' = "parse" => /\ m_pc = "parse"
                            /\ m_rbuf' = m_rbuf \/ (m_rbuf # <<>> /\ m_rbuf' = Tail(m_rbuf)),
         UNCHANGED <<backlog, s_client, acc, s, s_pc, s_rbuf, s_app, chosen>>
  PROVE  CmdInv'
<1>0. LinkTypes /\ m_client \in Conns \cup {NoConn}
  BY DEF TypeInv, LinkTypes, Ends
<1>1. \A c \in Conns : Pending(c)' <=> Pending(c)
  BY DEF Pending
<1>2. ASSUME NEW S, m_pc' = "parse", m_rbuf \in Seq(S) PROVE m_rbuf' \in Seq(S)
  <2>1. CASE m_rbuf' = m_rbuf
    BY <1>2, <2>1
  <2>2. CASE m_rbuf # <<>> /\ m_rbuf' = Tail(m_rbuf)
    BY <1>2, <2>2, HeadTailProperties
  <2>3. QED
    BY <1>2, <2>1, <2>2
<1>3. ASSUME NEW ch, Serving(ch), s_client # NoConn /\ m_client = s_client => q \in Seq(Asked(ch))
      PROVE  s_client # NoConn =>
               /\ Serves(net'[s_client], ch)
               /\ m_client' = s_client /\ m_pc' = "parse" => m_rbuf' \in Seq(Told(ch))
  <2> SUFFICES ASSUME s_client # NoConn
               PROVE  /\ Serves(net'[s_client], ch)
                      /\ m_client' = s_client /\ m_pc' = "parse" => m_rbuf' \in Seq(Told(ch))
    OBVIOUS
  <2>1. s_client \in Conns /\ net[s_client].slv # "closed"
    BY Installed
  <2>2. Serves(net[s_client], ch)
    BY <1>3 DEF Serving
  <2>3. Serves(net'[s_client], ch)
    <3>1. /\ net'[s_client].down = net[s_client].down \/ net'[s_client].down = <<>>
          /\ \/ net'[s_client].up = net[s_client].up
             \/ s_client = m_client /\ net'[s_client].up = net[s_client].up \o q
      BY <1>0, <2>1, MasterWroteEffect
    <3>2. \/ net'[s_client].up = net[s_client].up
          \/ q \in Seq(Asked(ch)) /\ net'[s_client].up = net[s_client].up \o q
      BY <1>3, <3>1
    <3>3. QED
      BY <2>2, <3>1, <3>2, ServesOn
  <2>4. ASSUME m_client' = s_client, m_pc' = "parse" PROVE m_rbuf' \in Seq(Told(ch))
    <3>1. m_client = s_client
      BY <2>4 DEF MasterWrote
    <3>2. m_rbuf \in Seq(Told(ch))
      BY <1>3, <2>4, <3>1 DEF Serving
    <3>3. QED
      BY <1>2, <2>4, <3>2
  <2>5. QED
    BY <2>3, <2>4
<1>4. Serving(chosen)'
  BY <1>3 DEF CmdInv, Serving
<1>5. Queued'
  <2> SUFFICES ASSUME NEW c \in Conns, Pending(c)
               PROVE  Waits(net'[c]) /\ (m_client' = c => m_pc' # "parse")
    BY <1>1 DEF Queued
  <2>1. Waits(net[c]) /\ (m_client = c => m_pc # "parse") /\ net[c].slv # "closed"
    BY Installed DEF CmdInv, Queued
  <2>2. /\ net'[c].cut = net[c].cut
        /\ net'[c].down = net[c].down \/ net'[c].down = <<>>
        /\ \/ net'[c].up = net[c].up
           \/ c = m_client /\ ~net[c].cut /\ net'[c].up = net[c].up \o q
    BY <1>0, <2>1, MasterWroteEffect
  <2>3. \/ net'[c].up = net[c].up
        \/ ~net[c].cut /\ q \in Seq(Asked({})) /\ net'[c].up = net[c].up \o q
    BY <2>2, LinkAssumption
  <2>4. Waits(net'[c])
    BY <2>1, <2>2, <2>3, WaitsOn
  <2>5. m_client' = c => m_client = c
    BY LinkAssumption DEF MasterWrote
  <2>6. QED
    BY <2>1, <2>4, <2>5
<1>6. Unstarted'
  <2> SUFFICES ASSUME s.init = "INIT"
               PROVE  /\ s_client # NoConn =>
                           /\ Serves(net'[s_client], {})
                           /\ m_client' = s_client /\ m_pc' = "parse" => m_rbuf' \in Seq(Told({}))
                      /\ s_pc = "parse" => s_rbuf \in Seq(Asked({}))
                      /\ s_client # NoConn =>
                           /\ s_pc = "parse" => s_rbuf[1] = STARTDT
                           /\ s_pc # "parse" => Opens(net'[s_client])
    BY DEF Unstarted, Serving, Parsing
  <2>1. /\ Serving({}) /\ (s_pc = "parse" => s_rbuf \in Seq(Asked({})))
        /\ s_client # NoConn => /\ s_pc = "parse" => s_rbuf[1] = STARTDT
                                /\ s_pc # "parse" => Opens(net[s_client])
    BY DEF CmdInv, Unstarted, Parsing
  <2>2. s_client # NoConn =>
          /\ Serves(net'[s_client], {})
          /\ m_client' = s_client /\ m_pc' = "parse" => m_rbuf' \in Seq(Told({}))
    BY <1>3, <2>1
  <2>3. s_client # NoConn /\ s_pc # "parse" => Opens(net'[s_client])
    <3> SUFFICES ASSUME s_client # NoConn, s_pc # "parse" PROVE Opens(net'[s_client])
      OBVIOUS
    <3>1. s_client \in Conns /\ net[s_client].slv # "closed"
      BY Installed
    <3>2. /\ net'[s_client].cut = net[s_client].cut
          /\ \/ net'[s_client].up = net[s_client].up
             \/ ~net[s_client].cut /\ net'[s_client].up = net[s_client].up \o q
      BY <1>0, <3>1, MasterWroteEffect
    <3>3. net[s_client].up \in Seq(Frames)
      BY <2>1, OnlyFrames DEF Serving, Serves
    <3>4. QED
      BY <2>1, <3>2, <3>3, OpensOn
  <2>4. QED
    BY <2>1, <2>2, <2>3
<1>7. Offered'
  <2> SUFFICES ASSUME m_client' # NoConn, net'[m_client'].slv = "none" PROVE Pending(m_client)'
    BY DEF Offered
  <2>1. m_client' = m_client /\ net' = MasterSent(net, m_client, q)
    BY DEF MasterWrote
  <2>2. net'[m_client].slv = net[m_client].slv
    BY <1>0, <2>1 DEF MasterSent, LinkTypes, NetOK, ConnRecord
  <2>3. Pending(m_client)
    BY <2>1, <2>2 DEF CmdInv, Offered
  <2>4. QED
    BY <2>1, <2>3 DEF Pending
<1>8. Parsing(chosen)' /\ Orphaned' /\ Steady'
  BY DEF CmdInv, Parsing, Orphaned, Steady
<1>9. QED
  BY <1>4, <1>5, <1>6, <1>7, <1>8 DEF CmdInv

(* A step that touches neither a queue nor a buffer.                       *)
LEMMA QuietKeeps ==
  ASSUME CmdInv, s'.init = s.init, s_app'.fr \in Told({}),
         UNCHANGED <<net, backlog, m_client, s_client, acc, m_pc, m_rbuf, s_pc, s_rbuf, chosen>>
  PROVE  CmdInv'
<1>1. Serving(chosen)' /\ Parsing(chosen)'
  BY DEF CmdInv, Serving, Parsing
<1>2. Queued' /\ Offered'
  BY DEF CmdInv, Queued, Offered, Pending
<1>3. Unstarted'
  BY DEF CmdInv, Unstarted, Serving, Parsing
<1>4. Orphaned' /\ Steady'
  BY DEF CmdInv, Orphaned, Steady
<1>5. QED
  BY <1>1, <1>2, <1>3, <1>4 DEF CmdInv

(* The history variable of a step in which the slave neither parses a      *)
(* frame nor resets.                                                       *)
LEMMA ChosenKept ==
  ASSUME TypeInv, Record, s_pc = "parse" => s_rbuf' = s_rbuf, ~SlaveResets
  PROVE  chosen' = chosen
<1>1. s_pc = "parse" => s_rbuf' # Tail(s_rbuf)
  <2> SUFFICES ASSUME s_pc = "parse" PROVE s_rbuf # Tail(s_rbuf)
    OBVIOUS
  <2>1. s_rbuf \in Seq(Frames) /\ s_rbuf # <<>>
    BY DEF TypeInv, SlaveTypes, SlaveTypeOK
  <2>2. Len(Tail(s_rbuf)) = Len(s_rbuf) - 1 /\ Len(s_rbuf) \in Nat
    BY <2>1, HeadTailProperties, LenProperties
  <2>3. QED
    BY <2>2
<1>2. ~SlaveHandles
  BY <1>1 DEF SlaveHandles
<1>3. QED
  BY <1>2 DEF Record

(* The master opens a connection: nobody has used it before.               *)
LEMMA OpenKeeps ==
  ASSUME TypeInv, LinkInv, CmdInv, NEW c \in Conns, MasterOpen(c),
         UNCHANGED <<s, s_pc, s_rbuf, s_app, chosen>>
  PROVE  CmdInv'
<1>0. DOMAIN net = Conns /\ DOMAIN net[c] = Fields /\ c # NoConn /\ backlog \in Seq(Conns)
  BY LinkAssumption DEF TypeInv, LinkTypes, NetOK, ConnRecord, Fields
<1>1. /\ net[c] = Fresh /\ net' = [net EXCEPT ![c].mst = "open", ![c].up = <<STARTDT>>]
      /\ backlog' = Append(backlog, c) /\ m_client' = c /\ m_pc' = "recv"
      /\ UNCHANGED <<s_client, acc, m_rbuf>>
  BY DEF MasterOpen, STARTDT
<1>2. net[c].mst = "none" /\ net[c].slv = "none" /\ net[c].down = <<>>
  BY <1>1 DEF Fresh
<1>3. c # s_client /\ c # acc.tcp /\ ~Pending(c)
  BY <1>2, Pointers
<1>4. /\ \A d \in Conns : d # c => net'[d] = net[d]
      /\ net'[c].up = <<STARTDT>> /\ net'[c].down = <<>> /\ net'[c].slv = "none"
  BY <1>0, <1>1, <1>2, Zenon DEF Fields
<1>5. \A d \in Conns : Pending(d)' => d = c \/ Pending(d)
  <2>1. \A i \in 1 .. Len(backlog') : backlog'[i] = c \/ \E j \in 1 .. Len(backlog) : backlog[j] = backlog'[i]
    <3>1. /\ Len(backlog') = Len(backlog) + 1 /\ backlog'[Len(backlog) + 1] = c /\ Len(backlog) \in Nat
          /\ \A i \in 1 .. Len(backlog) : backlog'[i] = backlog[i]
      BY <1>0, <1>1
    <3>2. \A i \in 1 .. Len(backlog') : i \in 1 .. Len(backlog) \/ i = Len(backlog) + 1
      BY <3>1
    <3>3. QED
      BY <3>1, <3>2
  <2>2. QED
    BY <1>1, <2>1 DEF Pending
<1>6. Pending(c)'
  <2>1. Len(backlog) + 1 \in 1 .. Len(backlog') /\ backlog'[Len(backlog) + 1] = c
    BY <1>0, <1>1
  <2>2. QED
    BY <2>1 DEF Pending
<1>7. Waits(net'[c])
  <2>1. STARTDT \in Asked({})
    BY AskedFrames DEF UFuncs, STARTDT
  <2>2. \A f \in Asked({}) : <<f>> \in Seq(Asked({})) /\ Len(<<f>>) = 1 /\ <<f>>[1] = f
    OBVIOUS
  <2>3. Len(<<>>) = 0
    OBVIOUS
  <2>4. Len(net'[c].up) > 0 /\ net'[c].up[1] = STARTDT /\ net'[c].up \in Seq(Asked({}))
    <3>1. <<STARTDT>> \in Seq(Asked({})) /\ Len(<<STARTDT>>) = 1 /\ <<STARTDT>>[1] = STARTDT /\ 1 > 0
      BY <2>1, <2>2
    <3>2. QED
      BY <1>4, <3>1, Zenon
  <2>5. Len(net'[c].down) = 0
    BY <1>4, <2>3, Zenon
  <2>6. QED
    BY <2>4, <2>5 DEF Waits, Opens
<1>8. s_client # NoConn => net'[s_client] = net[s_client] /\ m_client' # s_client
  BY <1>1, <1>3, <1>4, Installed
<1>9. Serving(chosen)' /\ Parsing(chosen)'
  BY <1>8, <1>1 DEF CmdInv, Serving, Parsing
<1>10. Queued'
  BY <1>1, <1>4, <1>5, <1>7 DEF CmdInv, Queued
<1>11. Unstarted'
  BY <1>8, <1>1 DEF CmdInv, Unstarted, Serving, Parsing
<1>12. Offered' /\ Orphaned' /\ Steady'
  BY <1>1, <1>6 DEF CmdInv, Offered, Orphaned, Steady, Pending
<1>13. QED
  BY <1>9, <1>10, <1>11, <1>12 DEF CmdInv

(* Reading takes a prefix of what the slave wrote.                         *)
LEMMA RecvKeeps ==
  ASSUME TypeInv, LinkInv, CmdInv, MasterRecv, UNCHANGED <<s, s_pc, s_rbuf, s_app, chosen>>
  PROVE  CmdInv'
<1>0. UNCHANGED <<backlog, m_client, s_client, acc>>
  BY DEF MasterRecv
<1>1. CASE m_pc' = "state_machine" /\ UNCHANGED net
  <2>1. Serving(chosen)' /\ Parsing(chosen)'
    BY <1>0, <1>1 DEF CmdInv, Serving, Parsing
  <2>2. Queued' /\ Offered'
    BY <1>0, <1>1 DEF CmdInv, Queued, Offered, Pending
  <2>3. Unstarted'
    BY <1>0, <1>1 DEF CmdInv, Unstarted, Serving, Parsing
  <2>4. Orphaned' /\ Steady'
    BY <1>0 DEF CmdInv, Orphaned, Steady
  <2>5. QED
    BY <2>1, <2>2, <2>3, <2>4 DEF CmdInv
<1>2. CASE \E k \in 1 .. Len(MasterInbox) :
             /\ m_rbuf' = SubSeq(MasterInbox, 1, k)
             /\ net' = [net EXCEPT ![m_client].down = SubSeq(@, k + 1, Len(@))]
             /\ m_pc' = "parse"
  <2>1. PICK k \in 1 .. Len(MasterInbox) :
             /\ m_rbuf' = SubSeq(MasterInbox, 1, k)
             /\ net' = [net EXCEPT ![m_client].down = SubSeq(@, k + 1, Len(@))]
             /\ m_pc' = "parse"
    BY <1>2
  <2>2. m_client \in Conns /\ m_client # NoConn
    BY <2>1 DEF MasterInbox, TypeInv, LinkTypes, Ends
  <2>3. /\ DOMAIN net = Conns /\ DOMAIN net[m_client] = Fields /\ net[m_client].down \in Seq(Frames)
    BY <2>2 DEF TypeInv, LinkTypes, NetOK, ConnRecord, Fields
  <2>4. k \in 1 .. Len(net[m_client].down) /\ m_rbuf' = SubSeq(net[m_client].down, 1, k)
    BY <2>1, <2>2 DEF MasterInbox
  <2>5. /\ \A d \in Conns : d # m_client => net'[d] = net[d]
        /\ net'[m_client].down = SubSeq(net[m_client].down, k + 1, Len(net[m_client].down))
        /\ net'[m_client].up = net[m_client].up /\ net'[m_client].cut = net[m_client].cut
        /\ net'[m_client].slv = net[m_client].slv
    BY <2>1, <2>2, <2>3 DEF Fields
  <2>6. ~Pending(m_client)
    BY <2>2, <2>4 DEF CmdInv, Queued, Waits
  <2>7. ASSUME NEW ch, Serving(ch), s_client # NoConn
        PROVE  /\ Serves(net'[s_client], ch)
               /\ m_client = s_client => m_rbuf' \in Seq(Told(ch))
    <3>1. s_client \in Conns /\ Serves(net[s_client], ch)
      BY <2>7, Installed DEF Serving
    <3>2. CASE s_client = m_client
      <4> DEFINE w == net[m_client].down
      <4>1. w \in Seq(Told(ch)) /\ k \in 1 .. Len(w)
        BY <2>4, <3>1, <3>2 DEF Serves
      <4> HIDE DEF w
      <4>2. SubSeq(w, 1, k) \in Seq(Told(ch)) /\ SubSeq(w, k + 1, Len(w)) \in Seq(Told(ch))
        BY <4>1
      <4>3. QED
        BY <2>4, <2>5, <3>1, <3>2, <4>2 DEF Serves, w
    <3>3. CASE s_client # m_client
      BY <2>5, <3>1, <3>3
    <3>4. QED
      BY <3>2, <3>3
  <2>8. Serving(chosen)' /\ Parsing(chosen)'
    BY <1>0, <2>7 DEF CmdInv, Serving, Parsing
  <2>9. Queued'
    BY <1>0, <2>5, <2>6 DEF CmdInv, Queued, Pending
  <2>10. s_client # NoConn /\ Opens(net[s_client]) => Opens(net'[s_client])
    BY <2>5, Installed DEF Opens
  <2>11. Unstarted'
    <3> SUFFICES ASSUME s.init = "INIT"
                 PROVE  /\ Serving({})' /\ Parsing({})'
                        /\ s_client # NoConn =>
                             /\ s_pc = "parse" => s_rbuf[1] = STARTDT
                             /\ s_pc # "parse" => Opens(net'[s_client])
      BY <1>0 DEF Unstarted
    <3>1. /\ Serving({}) /\ Parsing({})
          /\ s_client # NoConn => /\ s_pc = "parse" => s_rbuf[1] = STARTDT
                                  /\ s_pc # "parse" => Opens(net[s_client])
      BY DEF CmdInv, Unstarted
    <3>2. Serving({})'
      BY <1>0, <2>7, <3>1 DEF Serving
    <3>3. Parsing({})'
      BY <3>1 DEF Parsing
    <3>4. QED
      BY <2>10, <3>1, <3>2, <3>3
  <2>12. Offered' /\ Orphaned' /\ Steady'
    BY <1>0, <2>2, <2>5 DEF CmdInv, Offered, Orphaned, Steady, Pending
  <2>13. QED
    BY <2>8, <2>9, <2>11, <2>12 DEF CmdInv
<1>3. QED
  BY <1>1, <1>2 DEF MasterRecv

LEMMA MasterCommands ==
  ASSUME TypeInv, LinkInv, CmdInv, MasterStep
  PROVE  CmdInv'
<1>0. UNCHANGED <<s, s_pc, s_rbuf, s_app, chosen, s_client, acc>>
  <2>1. UNCHANGED <<s, s_pc, s_rbuf, s_app, s_client, acc>>
    BY DEF MasterStep, slaveVars, MasterExec, MasterApp, MasterStateMachine, MasterOpenFails, MasterRecv,
           MasterParse, MasterOpen, CmdPut, CmdSend, CmdBegin, linkVars
  <2>2. ~SlaveResets
    BY <2>1 DEF SlaveResets
  <2>3. QED
    BY <2>1, <2>2, ChosenKept DEF MasterStep
<1>1. MWorkOK(MWork) /\ MWork.out = <<>> /\ MWork.close = FALSE
  BY MasterWorkTyped DEF TypeInv, MWork
<1>2. ASSUME NEW w, MasterInstall(w) PROVE MasterWrote(w.out)
  BY <1>2 DEF MasterInstall, MasterWrote
<1>3. CASE MasterStateMachine
  <2> DEFINE w == iec104_m_state_machine(MWork)
  <2>1. \A ch : w.out \in Seq(Asked(ch))
    BY <1>1, MasterMachineAsks
  <2>2. MasterWrote(w.out) /\ m_pc' = "recv" /\ backlog' = backlog
    BY <1>2, <1>3 DEF MasterStateMachine
  <2> HIDE DEF w
  <2>3. w.out \in Seq(Frames)
    BY <2>1, OnlyFrames
  <2>4. QED
    BY <1>0, <2>1, <2>2, <2>3, MasterKeeps
<1>4. CASE MasterParse
  <2> DEFINE w == iec104_m_frame_parse(MWork, Head(m_rbuf))
  <2>1. /\ MasterWrote(w.out) /\ m_rbuf' = Tail(m_rbuf) /\ m_pc = "parse" /\ backlog' = backlog
    BY <1>2, <1>4 DEF MasterParse
  <2>2. m_rbuf # <<>> /\ m_rbuf \in Seq(Frames)
    BY <2>1 DEF TypeInv, MasterTypes, MasterTypeOK
  <2>3. ASSUME NEW ch, m_rbuf \in Seq(Told(ch)) PROVE w.out \in Seq(Asked(ch))
    <3>1. Head(m_rbuf) \in Told(ch)
      BY <2>2, <2>3, HeadTailProperties
    <3>2. QED
      BY <1>1, <3>1, MasterParseAsks
  <2>4. w.out \in Seq(Frames)
    <3>1. Head(m_rbuf) \in Frames
      BY <2>2, HeadTailProperties
    <3>2. MWorkOK(w)
      BY <1>1, <3>1, MasterParseOK
    <3>3. QED
      BY <3>2 DEF MWorkOK
  <2> HIDE DEF w
  <2>5. m_client # NoConn /\ m_client = s_client =>
          w.out \in Seq(Asked(chosen)) /\ (s.init = "INIT" => w.out \in Seq(Asked({})))
    BY <2>1, <2>3 DEF CmdInv, Serving, Unstarted
  <2>6. m_client # NoConn => ~Pending(m_client)
    BY <2>1 DEF CmdInv, Queued, TypeInv, LinkTypes, Ends
  <2>7. QED
    BY <1>0, <2>1, <2>2, <2>4, <2>5, <2>6, MasterKeeps
<1>5. CASE CmdSend
  <2> DEFINE f == CmdFrame(m_app.op, m_app.sn, m_app.rs)
  <2>1. \A ch : f \in Asked(ch)
    <3>1. m_app.op \in MasterOps /\ m_app.sn \in Sn /\ m_app.rs \in 0 .. SnMod
      BY <1>5 DEF CmdSend, TypeInv, MasterTypes, MasterTypeOK
    <3>2. QED
      BY <3>1, AskedFrames
  <2>2. /\ MasterWrote(<<f>>) /\ m_rbuf' = m_rbuf /\ m_pc' = m_pc /\ backlog' = backlog
    BY <1>5 DEF CmdSend, MasterWrote
  <2> HIDE DEF f
  <2>3. \A ch : <<f>> \in Seq(Asked(ch))
    BY <2>1
  <2>4. <<f>> \in Seq(Frames)
    BY <2>3, OnlyFrames
  <2>5. QED
    BY <1>0, <2>2, <2>3, <2>4, MasterKeeps
<1>6. CASE MasterRecv
  BY <1>0, <1>6, RecvKeeps
<1>7. CASE \E c \in Conns : MasterOpen(c)
  BY <1>0, <1>7, OpenKeeps
<1>8. CASE MasterOpenFails \/ CmdPut \/ \E op \in MasterOps : CmdBegin(op)
  <2>1. UNCHANGED <<net, backlog, m_client, s_client, acc, m_rbuf>>
    BY <1>8 DEF MasterOpenFails, CmdPut, CmdBegin, linkVars
  <2>2. m_pc' = m_pc \/ (m_pc = "state_machine" /\ m_pc' = "recv")
    BY <1>8 DEF MasterOpenFails, CmdPut, CmdBegin
  <2>3. Serving(chosen)' /\ Parsing(chosen)'
    BY <1>0, <2>1, <2>2 DEF CmdInv, Serving, Parsing
  <2>4. Queued' /\ Offered'
    BY <1>0, <2>1, <2>2 DEF CmdInv, Queued, Offered, Pending
  <2>5. Unstarted'
    BY <1>0, <2>1, <2>2 DEF CmdInv, Unstarted, Serving, Parsing
  <2>6. Orphaned' /\ Steady'
    BY <1>0, <2>1 DEF CmdInv, Orphaned, Steady
  <2>7. QED
    BY <2>3, <2>4, <2>5, <2>6 DEF CmdInv
<1>9. QED
  BY <1>3, <1>4, <1>5, <1>6, <1>7, <1>8 DEF MasterStep, MasterExec, MasterApp
-----------------------------------------------------------------------------
(* What the slave writes on port->client.                                  *)
LEMMA SlaveSentEffect ==
  ASSUME LinkTypes, NEW q, NEW c \in Conns
  PROVE  /\ c # s_client => SlaveSent(net, s_client, q)[c] = net[c]
         /\ SlaveSent(net, s_client, q)[c].up = net[c].up
         /\ SlaveSent(net, s_client, q)[c].cut = net[c].cut
         /\ SlaveSent(net, s_client, q)[c].slv = net[c].slv
         /\ \/ SlaveSent(net, s_client, q)[c].down = net[c].down
            \/ SlaveSent(net, s_client, q)[c].down = net[c].down \o q
<1>0. /\ DOMAIN net = Conns /\ DOMAIN net[c] = Fields
      /\ s_client \in Conns \cup {NoConn}
  BY DEF LinkTypes, NetOK, ConnRecord, Ends, Fields
<1>1. QED
  BY <1>0, LinkAssumption DEF SlaveSent, Fields

LEMMA SlaveKeeps ==
  ASSUME TypeInv, LinkInv, CmdInv, NEW q, net' = SlaveSent(net, s_client, q),
         UNCHANGED <<backlog, m_client, s_client, acc, m_pc, m_rbuf>>
  PROVE  /\ \A ch : Serving(ch) /\ (s_client # NoConn => q \in Seq(Told(ch))) => Serving(ch)'
         /\ Queued' /\ Offered'
         /\ s_client # NoConn /\ Opens(net[s_client]) => Opens(net'[s_client])
<1>0. LinkTypes
  BY DEF TypeInv
<1>1. ASSUME NEW ch, Serving(ch), s_client # NoConn, q \in Seq(Told(ch)) PROVE Serves(net'[s_client], ch)
  <2>1. s_client \in Conns /\ Serves(net[s_client], ch)
    BY <1>1, Installed DEF Serving
  <2>2. /\ net'[s_client].up = net[s_client].up
        /\ \/ net'[s_client].down = net[s_client].down
           \/ net'[s_client].down = net[s_client].down \o q
    BY <1>0, <2>1, SlaveSentEffect
  <2>3. \A a, b \in Seq(Told(ch)) : a \o b \in Seq(Told(ch))
    BY ConcatProperties
  <2>4. QED
    BY <1>1, <2>1, <2>2, <2>3 DEF Serves
<1>2. \A ch : Serving(ch) /\ (s_client # NoConn => q \in Seq(Told(ch))) => Serving(ch)'
  BY <1>1 DEF Serving
<1>3. \A c \in Conns : Pending(c) => net'[c] = net[c]
  BY <1>0, SlaveSentEffect, Installed
<1>4. Queued'
  BY <1>3 DEF CmdInv, Queued, Pending
<1>5. m_client # NoConn => net'[m_client].slv = net[m_client].slv
  BY <1>0, SlaveSentEffect DEF LinkTypes, Ends
<1>6. Offered'
  BY <1>5 DEF CmdInv, Offered, Pending
<1>7. s_client # NoConn /\ Opens(net[s_client]) => Opens(net'[s_client])
  BY <1>0, SlaveSentEffect, Installed DEF Opens
<1>8. QED
  BY <1>2, <1>4, <1>6, <1>7

LEMMA WorkReady == TypeInv => WorkOK(Work) /\ Work.st = s /\ Work.out = <<>> /\ ~Work.close
<1>1. TypeInv => WorkOK(Work)
  BY WorkTyped DEF TypeInv
<1>2. QED
  BY <1>1 DEF Work

LEMMA NeverStopped ==
  ASSUME NEW w, WorkOK(w), w.st.init # "DISCONNECT"
  PROVE  iec104_s_state_machine(w).st.init # "DISCONNECT"
<1>1. WorkOK(LinkStep(w)) /\ LinkStep(w).st.init # "DISCONNECT"
  <2>1. LinkStep(w).st.init # "DISCONNECT"
    BY DEF LinkStep, WorkOK, SlaveStation, iec104_s_build_init_finsh, BuildI, iec104_s_build_u_ack
  <2>2. QED
    BY <2>1, LinkStepOK
<1>2. ASSUME NEW x, WorkOK(x), x.st.init # "DISCONNECT" PROVE TesterStep(x).st.init # "DISCONNECT"
  <2>1. x.st.test \in TesterStates
    BY <1>2 DEF WorkOK, SlaveStation
  <2>2. QED
    BY <1>2, <2>1 DEF TesterStep, iec104_s_build_u, TesterStates, WorkOK, SlaveStation
<1>3. QED
  BY <1>1, <1>2 DEF iec104_s_state_machine

-----------------------------------------------------------------------------
(* The exec thread of the slave.                                           *)
LEMMA ParseCommands ==
  ASSUME TypeInv, LinkInv, CmdInv, SlaveParse, Record, UNCHANGED <<m_pc, m_rbuf>>
  PROVE  CmdInv'
<1> DEFINE fr == Head(s_rbuf)
<1>1. PICK x \in iec104_s_frame_parse(Work, fr) : SlaveInstall(x)
  BY DEF SlaveParse
<1>2. /\ s_pc = "parse" /\ s_rbuf' = Tail(s_rbuf) /\ s_pc' \in {"state_machine", "parse"}
      /\ UNCHANGED <<backlog, m_client, acc, s_app>>
  BY DEF SlaveParse
<1>3. s_rbuf \in Seq(Frames) /\ s_rbuf # <<>>
  BY <1>2 DEF TypeInv, SlaveTypes, SlaveTypeOK
<1>4. ASSUME NEW ch, s_rbuf \in Seq(Asked(ch))
      PROVE  fr \in Asked(ch) /\ s_rbuf' \in Seq(Asked(ch))
  BY <1>2, <1>3, <1>4, HeadTailProperties
<1>5. fr \in Frames /\ fr = s_rbuf[1]
  BY <1>3, HeadTailProperties
<1> HIDE DEF fr
<1>6. fr \in Asked(chosen) /\ s_rbuf' \in Seq(Asked(chosen)) /\ fr # STOPDT
  <2>1. s_rbuf \in Seq(Asked(chosen))
    BY <1>2 DEF CmdInv, Parsing
  <2>2. QED
    BY <1>4, <2>1 DEF Asked
<1>7. /\ ~x.close /\ s' = x.st
      /\ fr = STARTDT => s'.init = "CONNECT_OK"
      /\ fr # STARTDT => s'.init = s.init
  BY <1>1, <1>5, <1>6, WorkReady, ParseEffect DEF SlaveInstall
<1>8. net' = SlaveSent(net, s_client, x.out) /\ s_client' = s_client
  BY <1>1, <1>7 DEF SlaveInstall
<1>9. ASSUME NEW ch, fr \in Asked(ch) PROVE x.out \in Seq(Told(ch \cup Selected(fr)))
  BY <1>1, <1>9, WorkReady, ParseTells
<1>10. Queued' /\ Offered' /\ \A ch : Serving(ch) /\ x.out \in Seq(Told(ch)) => Serving(ch)'
  BY <1>2, <1>8, SlaveKeeps
<1>11. s'.init = "INIT" => s.init = "INIT" /\ s_client = NoConn
  BY <1>2, <1>5, <1>7 DEF CmdInv, Unstarted
<1>12. Unstarted'
  <2> SUFFICES ASSUME s'.init = "INIT" PROVE Serving({})' /\ Parsing({})' /\ s_client' = NoConn
    BY DEF Unstarted
  <2>1. s_client' = NoConn /\ s_rbuf \in Seq(Asked({}))
    BY <1>2, <1>8, <1>11 DEF CmdInv, Unstarted, Parsing
  <2>2. QED
    BY <1>4, <2>1 DEF Serving, Parsing
<1>13. Serving(chosen)' /\ Parsing(chosen)'
  <2>1. CASE SlaveResets
    <3>1. chosen' = {} /\ s.init = "INIT" /\ s'.init # "INIT"
      BY <1>2, <2>1 DEF Record, SlaveResets
    <3>2. fr = STARTDT /\ Serving({}) /\ s_rbuf \in Seq(Asked({}))
      BY <1>2, <1>7, <3>1 DEF CmdInv, Unstarted, Parsing
    <3>3. Selected(fr) = {}
      BY <3>2 DEF Selected, Selects, Command, STARTDT, UFrame
    <3>4. x.out \in Seq(Told({} \cup Selected(fr))) /\ s_rbuf' \in Seq(Asked({}))
      BY <1>4, <1>9, <3>2
    <3>5. x.out \in Seq(Told({}))
      BY <3>3, <3>4
    <3>6. Serving({})'
      BY <1>10, <3>2, <3>5
    <3>7. QED
      BY <3>1, <3>4, <3>6 DEF Serving, Parsing
  <2>2. CASE ~SlaveResets
    <3>1. chosen' = chosen \cup Selected(fr)
      <4>1. SlaveHandles
        BY <1>2 DEF SlaveHandles
      <4>2. QED
        BY <2>2, <4>1 DEF Record, Selected, fr
    <3>2. ASSUME NEW dh, dh = chosen \cup Selected(fr)
          PROVE  Serving(dh)' /\ s_rbuf' \in Seq(Asked(dh))
      <4>1. x.out \in Seq(Told(dh)) /\ chosen \subseteq dh
        BY <1>6, <1>9, <3>2
      <4>2. Serving(dh) /\ s_rbuf' \in Seq(Asked(dh))
        BY <1>6, <4>1, MoreChosen DEF CmdInv, Serving, Serves
      <4>3. QED
        BY <1>10, <4>1, <4>2
    <3>3. PICK dh : dh = chosen \cup Selected(fr)
      OBVIOUS
    <3>4. Serving(dh)' /\ s_rbuf' \in Seq(Asked(dh)) /\ chosen' = dh
      BY <3>1, <3>2, <3>3
    <3>5. QED
      BY <3>4 DEF Serving, Parsing
  <2>3. QED
    BY <2>1, <2>2
<1>14. Orphaned' /\ Steady'
  BY <1>2, <1>7, <1>8 DEF CmdInv, Orphaned, Steady
<1>15. QED
  BY <1>10, <1>12, <1>13, <1>14 DEF CmdInv

LEMMA StateMachineCommands ==
  ASSUME TypeInv, LinkInv, MasterLinked, CmdInv, SlaveStateMachine, Record, UNCHANGED <<m_pc, m_rbuf>>
  PROVE  CmdInv'
<1> DEFINE x == iec104_s_state_machine(Work)
<1>1. /\ SlaveInstall(x) /\ s_pc = "state_machine" /\ s_pc' = "recv"
      /\ UNCHANGED <<backlog, m_client, acc, s_rbuf, s_app>>
  BY DEF SlaveStateMachine
<1>2. \A ch : x.out \in Seq(Told(ch))
  <2>1. \A ch : Tells(Work, ch)
    BY WorkReady, EmptySeq DEF Tells
  <2>2. QED
    BY <2>1, StateMachineTells DEF Tells
<1>3. /\ s' = x.st /\ s'.init # "DISCONNECT"
      /\ s.init = "INIT" => ~x.close /\ s'.init = "OPEN"
      /\ s.init # "INIT" /\ ~x.close => s'.init # "INIT"
  <2>1. s' = x.st /\ s.init # "DISCONNECT"
    BY <1>1 DEF SlaveInstall, CmdInv, Steady
  <2>2. QED
    BY <2>1, WorkReady, NeverStopped, StateMachineEffect
<1>4. WorkOK(x)
  BY WorkReady, StateMachineOK
<1> HIDE DEF x
<1>5. Orphaned' /\ Steady' /\ Parsing(chosen)' /\ Parsing({})'
  BY <1>1, <1>3 DEF CmdInv, Orphaned, Steady, Parsing
<1>6. CASE ~x.close
  <2>1. net' = SlaveSent(net, s_client, x.out) /\ s_client' = s_client
    BY <1>1, <1>6 DEF SlaveInstall
  <2>2. Queued' /\ Offered' /\ \A ch : Serving(ch) => Serving(ch)'
    BY <1>1, <1>2, <2>1, SlaveKeeps
  <2>3. Unstarted'
    BY <1>3, <1>6 DEF Unstarted
  <2>4. Serving(chosen)'
    <3>1. CASE s.init = "INIT"
      <4>1. chosen' = {}
        BY <1>3, <3>1 DEF Record, SlaveResets
      <4>2. Serving({})'
        BY <2>2, <3>1 DEF CmdInv, Unstarted
      <4>3. QED
        BY <4>1, <4>2 DEF Serving
    <3>2. CASE s.init # "INIT"
      <4>1. ~SlaveResets
        BY <1>1, <3>2 DEF SlaveResets
      <4>2. chosen' = chosen
        BY <1>1, <4>1, ChosenKept
      <4>3. QED
        BY <2>2, <4>2 DEF CmdInv, Serving
    <3>3. QED
      BY <3>1, <3>2
  <2>5. QED
    BY <1>5, <2>2, <2>3, <2>4 DEF CmdInv
<1>7. CASE x.close
  <2>1. /\ s_client' = NoConn /\ \A c \in Conns : c # s_client => net'[c] = net[c]
    BY <1>1, <1>4, <1>7, InstallEffect DEF TypeInv
  <2>2. Serving(chosen)' /\ Unstarted'
    BY <1>5, <2>1 DEF Serving, Unstarted
  <2>3. Queued'
    <3>1. \A c \in Conns : Pending(c) => net'[c] = net[c]
      BY <2>1, Installed
    <3>2. QED
      BY <1>1, <3>1 DEF CmdInv, Queued, Pending
  <2>4. Offered'
    <3>1. m_client # NoConn /\ m_client = s_client => net'[m_client].slv # "none"
      <4> SUFFICES ASSUME m_client # NoConn, m_client = s_client PROVE net'[m_client].slv # "none"
        OBVIOUS
      <4> DEFINE n == SlaveSent(net, s_client, x.out)
      <4>1. m_client \in Conns /\ net[m_client].mst = "open" /\ Shaped(net)
        BY DEF MasterLinked, Ends, LinkInv
      <4>2. Shaped(n) /\ n[m_client].mst = "open"
        BY <4>1, SentKeeps DEF SameEnds
      <4>3. net' = SlaveClosed(n, m_client)
        BY <1>1, <1>7 DEF SlaveInstall
      <4> HIDE DEF n
      <4>4. net' = [n EXCEPT ![m_client].slv = "closed", ![m_client].up = <<>>]
        BY <4>2, <4>3 DEF SlaveClosed
      <4>5. net'[m_client].slv = "closed"
        BY <4>1, <4>2, <4>4, Zenon DEF Shaped, Fields
      <4>6. QED
        BY <4>5
    <3>2. m_client # NoConn /\ m_client # s_client => net'[m_client] = net[m_client]
      BY <2>1 DEF TypeInv, LinkTypes, Ends
    <3>3. QED
      BY <1>1, <3>1, <3>2 DEF CmdInv, Offered, Pending
  <2>5. QED
    BY <1>5, <2>2, <2>3, <2>4 DEF CmdInv
<1>8. QED
  BY <1>6, <1>7

(* Reading takes a prefix of what the master wrote: the first frame of a   *)
(* connection is STARTDT.                                                  *)
LEMMA SlaveRecvKeeps ==
  ASSUME TypeInv, LinkInv, CmdInv, SlaveRecv, UNCHANGED <<m_pc, m_rbuf, chosen>>
  PROVE  CmdInv'
<1>0. UNCHANGED <<backlog, m_client, s_client, acc, s, s_app>> /\ s_pc = "recv"
  BY DEF SlaveRecv
<1>1. CASE s_pc' = "state_machine" /\ UNCHANGED <<net, s_rbuf>>
  <2>1. Serving(chosen)' /\ Parsing(chosen)'
    BY <1>0, <1>1 DEF CmdInv, Serving, Parsing
  <2>2. Queued' /\ Offered'
    BY <1>0, <1>1 DEF CmdInv, Queued, Offered, Pending
  <2>3. Unstarted'
    BY <1>0, <1>1 DEF CmdInv, Unstarted, Serving, Parsing
  <2>4. Orphaned' /\ Steady'
    BY <1>0, <1>1 DEF CmdInv, Orphaned, Steady
  <2>5. QED
    BY <2>1, <2>2, <2>3, <2>4 DEF CmdInv
<1>2. CASE \E k \in 1 .. Len(SlaveInbox) :
             /\ s_rbuf' = SubSeq(SlaveInbox, 1, k)
             /\ net' = [net EXCEPT ![s_client].up = SubSeq(@, k + 1, Len(@))]
             /\ s_pc' = "parse"
  <2>1. PICK k \in 1 .. Len(SlaveInbox) :
             /\ s_rbuf' = SubSeq(SlaveInbox, 1, k)
             /\ net' = [net EXCEPT ![s_client].up = SubSeq(@, k + 1, Len(@))]
             /\ s_pc' = "parse"
    BY <1>2
  <2>2. s_client \in Conns /\ s_client # NoConn
    BY <2>1 DEF SlaveInbox, TypeInv, LinkTypes, Ends
  <2>3. /\ DOMAIN net = Conns /\ DOMAIN net[s_client] = Fields /\ net[s_client].up \in Seq(Frames)
    BY <2>2 DEF TypeInv, LinkTypes, NetOK, ConnRecord, Fields
  <2>4. k \in 1 .. Len(net[s_client].up) /\ s_rbuf' = SubSeq(net[s_client].up, 1, k)
    BY <2>1, <2>2 DEF SlaveInbox
  <2>5. /\ \A d \in Conns : d # s_client => net'[d] = net[d]
        /\ net'[s_client].up = SubSeq(net[s_client].up, k + 1, Len(net[s_client].up))
        /\ net'[s_client].down = net[s_client].down /\ net'[s_client].slv = net[s_client].slv
    BY <2>1, <2>2, <2>3 DEF Fields
  <2>6. ASSUME NEW ch, Serving(ch) PROVE Serving(ch)' /\ Parsing(ch)'
    <3>1. Serves(net[s_client], ch)
      BY <2>2, <2>6 DEF Serving
    <3> DEFINE w == net[s_client].up
    <3>2. w \in Seq(Asked(ch)) /\ k \in 1 .. Len(w)
      BY <2>4, <3>1 DEF Serves
    <3> HIDE DEF w
    <3>3. SubSeq(w, 1, k) \in Seq(Asked(ch)) /\ SubSeq(w, k + 1, Len(w)) \in Seq(Asked(ch))
      BY <3>2
    <3>4. Serves(net'[s_client], ch) /\ s_rbuf' \in Seq(Asked(ch))
      BY <2>4, <2>5, <3>1, <3>3 DEF Serves, w
    <3>5. QED
      BY <1>0, <2>6, <3>4 DEF Serving, Parsing
  <2>7. Serving(chosen)' /\ Parsing(chosen)'
    BY <2>6 DEF CmdInv, Serving, Parsing
  <2>8. Queued' /\ Offered'
    <3>1. \A c \in Conns : Pending(c) => net'[c] = net[c]
      BY <2>5, Installed
    <3>2. m_client # NoConn => net'[m_client].slv = net[m_client].slv
      BY <2>5 DEF TypeInv, LinkTypes, Ends
    <3>3. QED
      BY <1>0, <3>1, <3>2 DEF CmdInv, Queued, Offered, Pending
  <2>9. Unstarted'
    <3> SUFFICES ASSUME s.init = "INIT"
                 PROVE  Serving({})' /\ Parsing({})' /\ s_rbuf'[1] = STARTDT
      BY <1>0, <2>1 DEF Unstarted
    <3>1. Serving({}) /\ Opens(net[s_client])
      BY <1>0, <2>2 DEF CmdInv, Unstarted
    <3>2. net[s_client].up[1] = STARTDT
      BY <2>3, <2>4, <3>1 DEF Opens
    <3>3. s_rbuf'[1] = net[s_client].up[1]
      BY <2>3, <2>4
    <3>4. QED
      BY <2>6, <3>1, <3>2, <3>3
  <2>10. Orphaned' /\ Steady'
    BY <1>0, <2>2 DEF CmdInv, Orphaned, Steady
  <2>11. QED
    BY <2>7, <2>8, <2>9, <2>10 DEF CmdInv
<1>3. QED
  BY <1>1, <1>2 DEF SlaveRecv

-----------------------------------------------------------------------------
(* The accept thread, and the other steps.                                 *)

(* The callback closes port->client: what it had queued is of no use, and  *)
(* what it confirmed must not serve another connection.                    *)
LEMMA AcceptKeeps ==
  ASSUME TypeInv, LinkInv, MasterLinked, CmdInv, AcceptClient, UNCHANGED <<m_pc, m_rbuf, chosen>>
  PROVE  CmdInv'
<1> DEFINE c == Head(backlog)
           n == [net EXCEPT ![c].slv = "open"]
<1>1. /\ acc.pc = "accept" /\ backlog # <<>> /\ s_client' = NoConn /\ backlog' = Tail(backlog)
      /\ acc' = [pc |-> IF s_client = NoConn THEN "conn" ELSE "sleep", tcp |-> c]
      /\ net' = SlaveClosed(n, s_client)
      /\ UNCHANGED <<m_client, s, s_pc, s_rbuf, s_app>>
  BY DEF AcceptClient, slaveVars
<1>2. backlog \in Seq(Conns) /\ c \in Conns /\ c = backlog[1] /\ Len(backlog) > 0
  BY <1>1, HeadTailProperties DEF LinkInv
<1>3. /\ DOMAIN net = Conns /\ \A d \in Conns : DOMAIN net[d] = Fields
      /\ s_client \in Conns \cup {NoConn}
  BY DEF LinkInv, Shaped, Held
<1> HIDE DEF c
<1>4. Pending(c) /\ c # s_client
  <2>1. Pending(c)
    BY <1>2 DEF Pending
  <2>2. QED
    BY <1>2, <2>1, Installed
<1>5. /\ DOMAIN n = Conns /\ \A d \in Conns : DOMAIN n[d] = Fields
      /\ \A d \in Conns : d # c => n[d] = net[d]
      /\ n[c].slv = "open" /\ n[c].up = net[c].up /\ n[c].down = net[c].down
      /\ n[c].cut = net[c].cut /\ n[c].mst = net[c].mst
  BY <1>2, <1>3 DEF Fields
<1> HIDE DEF n
<1>6. /\ \A d \in Conns : d # s_client => net'[d] = n[d]
      /\ s_client # NoConn /\ n[s_client].mst = "open" => net'[s_client].slv = "closed"
  BY <1>1, <1>3, <1>5, Zenon DEF SlaveClosed, Fields
<1>7. \A d \in Conns : Pending(d)' => Pending(d)
  <2>1. acc'.tcp = c
    BY <1>1
  <2>2. \A i \in 1 .. Len(backlog') : i + 1 \in 1 .. Len(backlog) /\ backlog'[i] = backlog[i + 1]
    BY <1>1, <1>2
  <2>3. QED
    BY <1>4, <2>1, <2>2 DEF Pending
<1>8. \A d \in Conns : Pending(d) /\ d # c => Pending(d)'
  <2>1. acc.tcp = NoConn
    BY <1>1, Pointers
  <2>2. \A i \in 1 .. Len(backlog) : i = 1 \/ (i - 1 \in 1 .. Len(backlog') /\ backlog'[i - 1] = backlog[i])
    BY <1>1, <1>2
  <2>3. QED
    BY <1>2, <2>1, <2>2, LinkAssumption DEF Pending
<1>9. \A d \in Conns : Pending(d) => d # s_client
  BY Installed
<1>10. \A d \in Conns : Pending(d)' => Waits(net'[d]) /\ (m_client = d => m_pc # "parse")
  <2> SUFFICES ASSUME NEW d \in Conns, Pending(d)' PROVE Waits(net'[d]) /\ (m_client = d => m_pc # "parse")
    OBVIOUS
  <2>1. Pending(d) /\ d # s_client
    BY <1>7, <1>9
  <2>2. Waits(net[d]) /\ (m_client = d => m_pc # "parse")
    BY <2>1 DEF CmdInv, Queued
  <2>3. net'[d].up = net[d].up /\ net'[d].down = net[d].down /\ net'[d].cut = net[d].cut
    BY <1>5, <1>6, <2>1
  <2>4. QED
    BY <2>2, <2>3 DEF Waits, Opens
<1>11. Queued'
  BY <1>1, <1>10 DEF Queued
<1>12. Serving(chosen)' /\ Parsing(chosen)'
  BY <1>1 DEF CmdInv, Serving, Parsing
<1>13. Unstarted'
  BY <1>1 DEF CmdInv, Unstarted, Serving, Parsing
<1>14. Orphaned'
  <2>1. s_pc = "parse" => s_client # NoConn
    BY <1>1 DEF CmdInv, Orphaned
  <2>2. QED
    BY <1>1, <2>1 DEF Orphaned
<1>15. Offered'
  <2> SUFFICES ASSUME m_client # NoConn, net'[m_client].slv = "none" PROVE Pending(m_client)'
    BY <1>1 DEF Offered
  <2>1. m_client \in Conns /\ net[m_client].mst = "open"
    BY DEF MasterLinked, Ends
  <2>2. m_client # c /\ m_client # s_client
    <3>1. n[m_client].mst = "open"
      BY <1>5, <2>1
    <3>2. m_client # s_client
      BY <1>6, <3>1
    <3>3. QED
      BY <1>5, <1>6, <2>1, <3>2
  <2>3. net[m_client].slv = "none"
    BY <1>5, <1>6, <2>1, <2>2
  <2>4. Pending(m_client)
    BY <2>3 DEF CmdInv, Offered
  <2>5. m_client' = m_client
    BY <1>1
  <2>6. QED
    BY <1>8, <2>1, <2>2, <2>4, <2>5 DEF Pending
<1>16. Steady'
  BY <1>1 DEF CmdInv, Steady
<1>17. QED
  BY <1>11, <1>12, <1>13, <1>14, <1>15, <1>16 DEF CmdInv

(* The rest of the callback: it installs the connection once the exec      *)
(* thread has left recv_buf, and iec104_s_reset_param has forgotten what   *)
(* was selected before.                                                    *)
LEMMA InstallKeeps ==
  ASSUME SleepOutlastsParse, TypeInv, LinkInv, CmdInv, Record, UNCHANGED <<m_pc, m_rbuf>>,
         AcceptWake \/ AcceptConnected \/ AcceptInstall
  PROVE  CmdInv'
<1>0. /\ UNCHANGED <<net, backlog, m_client, s_pc, s_rbuf, s_app>>
      /\ acc.pc # "accept" /\ s_client = NoConn
  BY DEF AcceptWake, AcceptConnected, AcceptInstall, slaveVars, LinkInv, Held
<1>1. s_pc # "parse"
  BY <1>0 DEF AcceptWake, AcceptConnected, AcceptInstall, CmdInv, Orphaned
<1>2. CASE AcceptWake \/ AcceptConnected
  <2>1. s_client' = NoConn /\ acc'.tcp = acc.tcp
    BY <1>0, <1>2 DEF AcceptWake, AcceptConnected, LinkInv
  <2>2. Serving(chosen)' /\ Parsing(chosen)' /\ Orphaned'
    BY <1>0, <1>1, <2>1 DEF Serving, Parsing, Orphaned
  <2>3. Queued' /\ Offered'
    BY <1>0, <2>1 DEF CmdInv, Queued, Offered, Pending
  <2>4. Unstarted'
    BY <1>0, <1>1, <2>1 DEF Unstarted, Serving, Parsing
  <2>5. Steady'
    <3>1. s'.init \in {s.init, "INIT"}
      BY <1>2, Zenon DEF AcceptWake, AcceptConnected, slaveVars, iec104_s_reset_param,
                         TypeInv, SlaveTypes, SlaveTypeOK, SlaveStation
    <3>2. QED
      BY <1>0, <3>1 DEF CmdInv, Steady
  <2>6. QED
    BY <2>2, <2>3, <2>4, <2>5 DEF CmdInv
<1>3. CASE AcceptInstall
  <2>1. s_client' = acc.tcp /\ acc'.tcp = NoConn /\ s' = s
    BY <1>3 DEF AcceptInstall, slaveVars
  <2>2. acc.tcp \in Conns /\ Pending(acc.tcp)
    BY <1>0, Pointers DEF Pending, LinkInv, Held
  <2>3. Waits(net[acc.tcp]) /\ (m_client = acc.tcp => m_pc # "parse")
    BY <2>2 DEF CmdInv, Queued
  <2>4. \A ch : Serving(ch)' /\ Parsing(ch)'
    <3> SUFFICES ASSUME NEW ch PROVE Serves(net[acc.tcp], ch)
      BY <1>0, <1>1, <2>1, <2>3 DEF Serving, Parsing
    <3>1. net[acc.tcp].down \in Seq(Told(ch))
      <4>1. net[acc.tcp].down \in Seq(Frames) /\ Len(net[acc.tcp].down) = 0
        BY <2>2, <2>3 DEF Waits, TypeInv, LinkTypes, NetOK, ConnRecord
      <4>2. net[acc.tcp].down = <<>>
        BY <4>1, EmptySeq
      <4>3. QED
        BY <4>2, EmptySeq, Zenon
    <3>2. net[acc.tcp].up \in Seq(Asked(ch))
      BY <2>3, MoreChosen DEF Waits
    <3>3. QED
      BY <3>1, <3>2 DEF Serves
  <2>5. Queued'
    <3>1. \A d \in Conns : Pending(d)' => Pending(d)
      BY <1>0, <2>1, LinkAssumption DEF Pending
    <3>2. QED
      BY <1>0, <3>1 DEF CmdInv, Queued
  <2>6. Offered'
    <3> SUFFICES ASSUME m_client # NoConn, net[m_client].slv = "none" PROVE Pending(m_client)'
      BY <1>0 DEF Offered
    <3>1. m_client \in Conns /\ Pending(m_client)
      BY DEF CmdInv, Offered, TypeInv, LinkTypes, Ends
    <3>2. m_client # acc.tcp
      BY <3>1, Pointers
    <3>3. QED
      BY <1>0, <3>1, <3>2 DEF Pending
  <2>7. Unstarted'
    BY <1>0, <1>1, <2>1, <2>3, <2>4 DEF Unstarted, Waits
  <2>8. Orphaned' /\ Steady'
    BY <1>0, <1>1, <2>1 DEF CmdInv, Orphaned, Steady
  <2>9. QED
    BY <2>4, <2>5, <2>6, <2>7, <2>8 DEF CmdInv
<1>4. QED
  BY <1>2, <1>3

LEMMA SlaveCommands ==
  ASSUME SleepOutlastsParse, TypeInv, LinkInv, MasterLinked, CmdInv, SlaveStep
  PROVE  CmdInv'
<1>0. Record /\ UNCHANGED <<m_pc, m_rbuf>>
  BY DEF SlaveStep, masterVars
<1>1. CASE SlaveStateMachine
  BY <1>0, <1>1, StateMachineCommands
<1>2. CASE SlaveParse
  BY <1>0, <1>2, ParseCommands
<1>3. CASE SlaveRecv \/ AcceptClient \/ SlaveApp
  <2>1. ~SlaveResets /\ (s_pc = "parse" => s_rbuf' = s_rbuf)
    BY <1>3 DEF SlaveResets, SlaveRecv, AcceptClient, SlaveApp, SponBegin, SponPut, SponSend, slaveVars, linkVars,
                TypeInv, SlaveTypes, SlaveTypeOK, SlaveStation
  <2>2. chosen' = chosen
    BY <1>0, <2>1, ChosenKept
  <2>3. CASE SlaveRecv \/ AcceptClient
    BY <1>0, <2>2, <2>3, SlaveRecvKeeps, AcceptKeeps
  <2>4. CASE SponBegin \/ SponPut
    <3>1. UNCHANGED <<net, backlog, m_client, s_client, acc, s_pc, s_rbuf>>
      BY <2>4 DEF SponBegin, SponPut, linkVars
    <3>2. s'.init = s.init
      BY <2>4 DEF SponBegin, SponPut, TypeInv, SlaveTypes, SlaveTypeOK, SlaveStation
    <3>3. s_app'.fr \in Told({})
      <4>1. CASE SponBegin
        BY <4>1 DEF SponBegin, CmdInv, Steady, TypeInv, SlaveTypes, SlaveTypeOK
      <4>2. CASE SponPut
        <5>1. PICK ty \in SponTypes :
                s_app' = [s_app EXCEPT !.pc = "send",
                            !.fr = IFrame(ty, "SPONT", FALSE, FALSE, 0, s_app.sn, s.build_recv)]
          BY <4>2 DEF SponPut
        <5> DEFINE f == IFrame(ty, "SPONT", FALSE, FALSE, 0, s_app.sn, s.build_recv)
        <5>2. ty \in AsduTypes /\ s_app.sn \in Sn /\ s.build_recv \in 0 .. SnMod /\ "SPONT" \in Reasons
          BY SlaveAssumption DEF AsduTypes, TypeInv, SlaveTypes, SlaveTypeOK, SlaveStation, Reasons
        <5>3. f \in Frames
          BY <5>2, FramesBuilt
        <5>4. f.f = "I" /\ f.cot = "SPONT"
          BY DEF IFrame
        <5>5. s_app'.fr = f
          BY <5>1 DEF TypeInv, SlaveTypes, SlaveTypeOK
        <5> HIDE DEF f
        <5>6. QED
          BY <5>3, <5>4, <5>5, ToldFrames
      <4>3. QED
        BY <2>4, <4>1, <4>2
    <3>4. QED
      BY <1>0, <2>2, <3>1, <3>2, <3>3, QuietKeeps
  <2>5. CASE SponSend
    <3>1. /\ net' = SlaveSent(net, s_client, <<s_app.fr>>)
          /\ UNCHANGED <<backlog, m_client, s_client, acc, s, s_pc, s_rbuf>>
          /\ s_app' = AppIdle
      BY <2>5 DEF SponSend
    <3>2. \A ch : <<s_app.fr>> \in Seq(Told(ch))
      <4>1. \A ch : s_app.fr \in Told(ch)
        BY DEF CmdInv, Steady, Told
      <4>2. QED
        BY <4>1
    <3>3. /\ \A ch : Serving(ch) => Serving(ch)'
          /\ Queued' /\ Offered'
          /\ s_client # NoConn /\ Opens(net[s_client]) => Opens(net'[s_client])
      BY <1>0, <3>1, <3>2, SlaveKeeps
    <3>4. Serving(chosen)' /\ Parsing(chosen)'
      BY <2>2, <3>1, <3>3 DEF CmdInv, Serving, Parsing
    <3>5. Unstarted'
      <4>1. Parsing({}) => Parsing({})'
        BY <3>1 DEF Parsing
      <4>2. QED
        BY <3>1, <3>3, <4>1 DEF CmdInv, Unstarted
    <3>6. Orphaned' /\ Steady'
      <4>1. UFrame("TESTER") \in Told({})
        BY ToldFrames DEF UFuncs
      <4>2. QED
        BY <3>1, <4>1 DEF CmdInv, Orphaned, Steady, AppIdle
    <3>7. QED
      BY <3>3, <3>4, <3>5, <3>6 DEF CmdInv
  <2>6. QED
    BY <1>3, <2>3, <2>4, <2>5 DEF SlaveApp
<1>4. CASE AcceptWake \/ AcceptConnected \/ AcceptInstall
  <2>1. QED
    BY <1>0, <1>4, InstallKeeps
<1>5. QED
  BY <1>1, <1>2, <1>3, <1>4 DEF SlaveStep, SlaveExec, SlaveAccept

(* A connection the network drops loses what it carries.                   *)
LEMMA CutCommands ==
  ASSUME TypeInv, LinkInv, CmdInv, NEW c \in Conns, LinkCut(c),
         UNCHANGED <<m_pc, m_rbuf, s, s_pc, s_rbuf, s_app, chosen>>
  PROVE  CmdInv'
<1>1. /\ net[c].slv = "open"
      /\ net' = [net EXCEPT ![c].cut = TRUE, ![c].up = <<>>, ![c].down = <<>>]
      /\ UNCHANGED <<backlog, m_client, s_client, acc>>
  BY DEF LinkCut
<1>2. DOMAIN net = Conns /\ DOMAIN net[c] = Fields
  BY DEF LinkInv, Shaped
<1>3. /\ \A d \in Conns : d # c => net'[d] = net[d]
      /\ net'[c].cut = TRUE /\ net'[c].up = <<>> /\ net'[c].down = <<>> /\ net'[c].slv = net[c].slv
  BY <1>1, <1>2, Zenon DEF Fields
<1>4. \A ch : Serves(net'[c], ch) /\ Waits(net'[c])
  <2>1. \A S : <<>> \in Seq(S)
    BY EmptySeq
  <2>2. Len(<<>>) = 0
    OBVIOUS
  <2>3. Len(net'[c].up) = 0 /\ Len(net'[c].down) = 0 /\ net'[c].cut
    BY <1>3, <2>2, Zenon
  <2>4. QED
    BY <1>3, <2>1, <2>3, Zenon DEF Serves, Waits, Opens
<1>5. \A ch : Serving(ch) => Serving(ch)'
  BY <1>1, <1>3, <1>4, Installed DEF Serving
<1>6. Serving(chosen)' /\ Parsing(chosen)'
  BY <1>5 DEF CmdInv, Serving, Parsing
<1>7. Queued' /\ Offered'
  <2>1. m_client # NoConn => net'[m_client].slv = net[m_client].slv
    BY <1>3 DEF TypeInv, LinkTypes, Ends
  <2>2. QED
    BY <1>1, <1>3, <1>4, <2>1 DEF CmdInv, Queued, Offered, Pending
<1>8. Unstarted'
  <2>1. s_client # NoConn /\ Opens(net[s_client]) => Opens(net'[s_client])
    <3>1. Opens(net'[c])
      BY <1>4 DEF Waits
    <3>2. QED
      BY <1>3, <3>1, Installed
  <2>2. Parsing({}) => Parsing({})'
    BY DEF Parsing
  <2>3. QED
    BY <1>1, <1>5, <2>1, <2>2 DEF CmdInv, Unstarted
<1>9. Orphaned' /\ Steady'
  BY <1>1 DEF CmdInv, Orphaned, Steady
<1>10. QED
  BY <1>6, <1>7, <1>8, <1>9 DEF CmdInv

LEMMA CmdNext ==
  ASSUME SleepOutlastsParse, TypeInv, SocketInv, CmdInv, [Next]_vars
  PROVE  CmdInv'
<1>0. LinkInv /\ MasterLinked
  BY DEF SocketInv
<1>1. CASE MasterStep
  BY <1>0, <1>1, MasterCommands
<1>2. CASE SlaveStep
  BY <1>0, <1>2, SlaveCommands
<1>3. CASE Cut
  <2>1. PICK c \in Conns : LinkCut(c)
    BY <1>3 DEF Cut
  <2>2. UNCHANGED <<m_pc, m_rbuf, s, s_pc, s_rbuf, s_app, acc>> /\ Record
    BY <1>3, <2>1 DEF Cut, masterVars, slaveVars, LinkCut
  <2>3. chosen' = chosen
    <3>1. ~SlaveResets
      BY <2>2 DEF SlaveResets
    <3>2. QED
      BY <2>2, <3>1, ChosenKept
  <2>4. QED
    BY <1>0, <2>1, <2>2, <2>3, CutCommands
<1>4. CASE Tick
  <2>1. /\ UNCHANGED <<net, backlog, m_client, s_client, acc, m_pc, m_rbuf, s_pc, s_rbuf, s_app>>
        /\ s' = SlaveAged(s) /\ Record
    BY <1>4 DEF Tick, linkVars
  <2>2. s'.init = s.init
    BY <2>1 DEF SlaveAged, TypeInv, SlaveTypes, SlaveTypeOK, SlaveStation
  <2>3. chosen' = chosen
    <3>1. ~SlaveResets
      BY <2>1, <2>2 DEF SlaveResets
    <3>2. QED
      BY <2>1, <3>1, ChosenKept
  <2>4. s_app'.fr \in Told({})
    BY <2>1 DEF CmdInv, Steady
  <2>5. QED
    BY <2>1, <2>2, <2>3, <2>4, QuietKeeps
<1>5. CASE UNCHANGED vars
  <2>1. UNCHANGED <<net, backlog, m_client, s_client, acc, m_pc, m_rbuf, s, s_pc, s_rbuf, s_app, chosen>>
    BY <1>5 DEF vars, linkVars, masterVars, slaveVars, histVars
  <2>2. s_app'.fr \in Told({})
    BY <2>1 DEF CmdInv, Steady
  <2>3. QED
    BY <2>1, <2>2, QuietKeeps
<1>6. QED
  BY <1>1, <1>2, <1>3, <1>4, <1>5 DEF Next

LEMMA CmdStart == Init => CmdInv
<1> SUFFICES ASSUME Init PROVE CmdInv
  OBVIOUS
<1>1. /\ s_client = NoConn /\ m_client = NoConn /\ backlog = <<>> /\ acc.tcp = NoConn
      /\ s_pc = "state_machine" /\ s.init = "INIT" /\ s_app = AppIdle
  BY DEF Init, LinkInit, SlaveInit
<1>2. \A c \in Conns : ~Pending(c)
  BY <1>1, LinkAssumption DEF Pending
<1>3. UFrame("TESTER") \in Told({})
  BY ToldFrames DEF UFuncs
<1>4. QED
  BY <1>1, <1>2, <1>3
     DEF CmdInv, Serving, Parsing, Queued, Unstarted, Orphaned, Offered, Steady, AppIdle

(* What the slave passes to set_val_cb it was first asked to select, and   *)
(* confirmed, since its last iec104_s_reset_param: whatever the            *)
(* application calls, the connections and the network do, provided the     *)
(* accept callback's sleep outlasts the parsing of one recv_buf.           *)
THEOREM SelectedFirst == SleepOutlastsParse => (Spec => []SelectBeforeExecute)
<1>1. TypeInv /\ CmdInv => SelectBeforeExecute
  <2> SUFFICES ASSUME TypeInv, CmdInv, s_pc = "parse", Executes(Head(s_rbuf))
               PROVE  <<Head(s_rbuf).ty, Head(s_rbuf).val>> \in chosen
    BY DEF SelectBeforeExecute
  <2>1. s_rbuf \in Seq(Asked(chosen)) /\ s_rbuf # <<>>
    BY DEF CmdInv, Parsing, TypeInv, SlaveTypes
  <2>2. Head(s_rbuf) \in Asked(chosen)
    BY <2>1, HeadTailProperties
  <2> DEFINE fr == Head(s_rbuf)
  <2> HIDE DEF fr
  <2>3. fr \in Asked(chosen) /\ Executes(fr)
    BY <2>2 DEF fr
  <2>4. fr.f = "I" /\ fr.ty \in Controls /\ ~fr.sel
    BY <2>3 DEF Executes, Command, Controls, iec104_s_asdu_yk, iec104_s_asdu_yt
  <2>5. <<fr.ty, fr.val>> \in chosen
    BY <2>3, <2>4 DEF Asked
  <2>6. QED
    BY <2>5 DEF fr
<1>2. Init => TypeInv /\ SocketInv /\ CmdInv
  BY TypeStart, SocketStart, CmdStart
<1>3. SleepOutlastsParse /\ TypeInv /\ SocketInv /\ CmdInv /\ [Next]_vars => (TypeInv /\ SocketInv /\ CmdInv)'
  BY TypeNext, SocketNext, CmdNext
<1>4. SUFFICES ASSUME SleepOutlastsParse PROVE Spec => []SelectBeforeExecute
  OBVIOUS
<1>5. TypeInv /\ SocketInv /\ CmdInv /\ [Next]_vars => (TypeInv /\ SocketInv /\ CmdInv)'
  BY <1>3, <1>4
<1>6. QED
  BY <1>1, <1>2, <1>5, PTL DEF Spec

-----------------------------------------------------------------------------
(* A command is executed at most once.  The frames of the commands are     *)
(* counted: a step may turn a selection into its confirmation, that into   *)
(* an execution, and that into the execution itself, one into one; no step *)
(* makes two of one, and what is lost is only lost (OnceInv).              *)

(* The slave serves the master's connection.                               *)
Served == m_client # NoConn /\ s_client = m_client

(* Reading moves the front of the queue into the buffer.                   *)
LEMMA ReadKeeps ==
  ASSUME NEW q \in Seq(Frames), NEW k \in 1 .. Len(q)
  PROVE  SubSeq(q, 1, k) \o SubSeq(q, k + 1, Len(q)) = q
<1>1. Len(q) \in Nat /\ k \in 1 .. Len(q) + 1 /\ k \in 0 .. Len(q) /\ 1 \in 1 .. k + 1
  BY LenProperties
<1>2. SubSeq(q, 1, k) \o SubSeq(q, k + 1, Len(q)) = SubSeq(q, 1, Len(q))
  BY <1>1, ConcatAdjacentSubSeq
<1>3. QED
  BY <1>2, SubSeqFull

(* What a pass of the slave's exec thread does to the connections.         *)
SlaveWrote(q) ==
  \/ net' = SlaveSent(net, s_client, q) /\ s_client' = s_client
  \/ net' = SlaveClosed(SlaveSent(net, s_client, q), s_client) /\ s_client' = NoConn

LEMMA SlaveWroteEffect ==
  ASSUME TypeInv, LinkInv, MasterLinked, NEW q \in Seq(Frames), SlaveWrote(q)
  PROVE  /\ \A c \in Conns : c # s_client => net'[c] = net[c]
         /\ s_client' = s_client \/ s_client' = NoConn
         /\ s_client' # NoConn => \A c \in Conns : net'[c].up = net[c].up
         /\ s_client # NoConn /\ s_client = m_client =>
              /\ net'[m_client].up = IF s_client' = NoConn THEN <<>> ELSE net[m_client].up
              /\ net'[m_client].down = net[m_client].down
                   \/ net'[m_client].down = net[m_client].down \o q
<1> DEFINE n == SlaveSent(net, s_client, q)
<1>0. /\ LinkTypes /\ Shaped(net) /\ s_client \in Conns \cup {NoConn} /\ NoConn \notin Conns
      /\ m_client # NoConn => m_client \in Conns /\ net[m_client].mst = "open"
  BY LinkAssumption DEF TypeInv, LinkInv, Held, MasterLinked, Ends
<1>1. /\ \A c \in Conns : c # s_client => n[c] = net[c]
      /\ \A c \in Conns : n[c].up = net[c].up
      /\ \A c \in Conns : n[c].down = net[c].down \/ n[c].down = net[c].down \o q
      /\ Shaped(n) /\ SameEnds(n, net)
  BY <1>0, SlaveSentEffect, SentKeeps
<1> HIDE DEF n
<1>2. CASE net' = n /\ s_client' = s_client
  BY <1>0, <1>1, <1>2
<1>3. CASE net' = SlaveClosed(n, s_client) /\ s_client' = NoConn
  <2>1. \A c \in Conns : c # s_client => net'[c] = n[c]
    BY <1>0, <1>1, <1>3, SlaveClosedEnds
  <2>2. s_client # NoConn /\ s_client = m_client =>
          net'[m_client].up = <<>> /\ net'[m_client].down = n[m_client].down
    <3> SUFFICES ASSUME s_client # NoConn, s_client = m_client
                 PROVE  net'[m_client].up = <<>> /\ net'[m_client].down = n[m_client].down
      OBVIOUS
    <3>1. m_client \in Conns /\ n[m_client].mst = "open"
      BY <1>0, <1>1 DEF SameEnds
    <3>2. net' = [n EXCEPT ![m_client].slv = "closed", ![m_client].up = <<>>]
      BY <1>3, <3>1 DEF SlaveClosed
    <3>3. DOMAIN n = Conns /\ DOMAIN n[m_client] = Fields
      BY <1>1, <3>1 DEF Shaped
    <3>4. QED
      BY <3>1, <3>2, <3>3 DEF Fields
  <2>3. QED
    BY <1>0, <1>1, <1>3, <2>1, <2>2
<1>4. QED
  BY <1>2, <1>3 DEF SlaveWrote, n

(* The positions of the frames of a queue that belong to S, and their number. *)
Hits(q, S) == {i \in 1 .. Len(q) : q[i] \in S}
Count(q, S) == Cardinality(Hits(q, S))

LEMMA CountFinite ==
  ASSUME NEW T, NEW q \in Seq(T), NEW S
  PROVE  IsFiniteSet(Hits(q, S)) /\ Count(q, S) = Cardinality(Hits(q, S)) /\ Count(q, S) \in Nat
<1>1. IsFiniteSet(1 .. Len(q)) /\ Hits(q, S) \in SUBSET (1 .. Len(q))
  BY FS_Interval, LenProperties DEF Hits
<1>2. IsFiniteSet(Hits(q, S))
  BY <1>1, FS_Subset
<1>3. QED
  BY <1>2, FS_CardinalityType DEF Count, Hits

LEMMA CountNone ==
  ASSUME NEW T, NEW q \in Seq(T), NEW S, \A i \in 1 .. Len(q) : q[i] \notin S
  PROVE  Count(q, S) = 0
<1>1. Hits(q, S) = {}
  BY DEF Hits
<1>2. QED
  BY <1>1, CountFinite, FS_EmptySet

LEMMA CountConcat ==
  ASSUME NEW T, NEW q \in Seq(T), NEW r \in Seq(T), NEW S
  PROVE  Count(q \o r, S) = Count(q, S) + Count(r, S)
<1> DEFINE n == Len(q)
           A == Hits(q, S)
           B == Hits(r, S)
           D == {j \in n + 1 .. n + Len(r) : (q \o r)[j] \in S}
<1>1. n \in Nat /\ Len(r) \in Nat /\ Len(q \o r) = n + Len(r) /\ q \o r \in Seq(T)
  BY LenProperties, ConcatProperties
<1>2. /\ \A j \in 1 .. n : (q \o r)[j] = q[j]
      /\ \A j \in 1 .. Len(r) : (q \o r)[n + j] = r[j]
  BY <1>1, ConcatProperties
<1>3. Hits(q \o r, S) = A \cup D /\ A \cap D = {}
  BY <1>1, <1>2 DEF Hits
<1>4. IsFiniteSet(A) /\ IsFiniteSet(B) /\ Cardinality(B) = Count(r, S) /\ Cardinality(A) = Count(q, S)
  BY CountFinite
<1>5. ExistsBijection(B, D)
  <2> DEFINE f == [j \in B |-> n + j]
  <2>1. \A j \in B : j \in 1 .. Len(r) /\ n + j \in D
    BY <1>1, <1>2 DEF Hits
  <2>2. \A d \in D : d - n \in B /\ n + (d - n) = d
    BY <1>1, <1>2 DEF Hits
  <2>3. f \in [B -> D] /\ \A a, b \in B : f[a] = f[b] => a = b
    BY <1>1, <2>1
  <2>4. \A d \in D : \E j \in B : f[j] = d
    BY <2>2
  <2>5. f \in Bijection(B, D)
    BY <2>3, <2>4 DEF Bijection, Injection, Surjection, IsInjective
  <2>6. QED
    BY <2>5 DEF ExistsBijection
<1>6. IsFiniteSet(D) /\ Cardinality(D) = Cardinality(B)
  BY <1>4, <1>5, FS_Bijection
<1>7. Count(q \o r, S) = Cardinality(A \cup D)
  BY <1>1, <1>3, CountFinite
<1> HIDE DEF A, B, D, n
<1>8. Cardinality(A \cup D) = Cardinality(A) + Cardinality(D)
  <2>1. Cardinality(A \cup D) = Cardinality(A) + Cardinality(D) - Cardinality(A \cap D)
    BY <1>4, <1>6, FS_Union
  <2>2. Cardinality(A \cap D) = 0
    BY <1>3, FS_EmptySet
  <2>3. Cardinality(A) \in Nat /\ Cardinality(D) \in Nat
    BY <1>4, <1>6, FS_CardinalityType
  <2>4. QED
    BY <2>1, <2>2, <2>3
<1>9. QED
  BY <1>4, <1>6, <1>7, <1>8

LEMMA CountOne ==
  ASSUME NEW T, NEW q \in Seq(T), Len(q) = 1, NEW S
  PROVE  /\ q[1] \in S => Count(q, S) = 1
         /\ q[1] \notin S => Count(q, S) = 0
<1>1. CASE q[1] \in S
  <2>1. Hits(q, S) = {1}
    BY <1>1 DEF Hits
  <2>2. Count(q, S) = Cardinality({1})
    BY <2>1, CountFinite
  <2>3. QED
    BY <1>1, <2>2, FS_Singleton
<1>2. CASE q[1] \notin S
  <2>1. \A i \in 1 .. Len(q) : q[i] \notin S
    BY <1>2
  <2>2. QED
    BY <1>2, <2>1, CountNone
<1>3. QED
  BY <1>1, <1>2

LEMMA Singletons ==
  ASSUME NEW T, NEW f \in T
  PROVE  \E q \in Seq(T) : q = <<f>> /\ Len(q) = 1 /\ q[1] = f
<1>1. <<f>> \in Seq(T) /\ Len(<<f>>) = 1 /\ <<f>>[1] = f
  OBVIOUS
<1>2. QED
  BY <1>1, Zenon

LEMMA CountAppend ==
  ASSUME NEW T, NEW q \in Seq(T), NEW f \in T, NEW S
  PROVE  /\ Append(q, f) \in Seq(T)
         /\ f \in S => Count(Append(q, f), S) = Count(q, S) + 1
         /\ f \notin S => Count(Append(q, f), S) = Count(q, S)
<1>1. PICK r \in Seq(T) : r = <<f>> /\ Len(r) = 1 /\ r[1] = f
  BY Singletons
<1>2. Append(q, f) = q \o r
  BY <1>1, AppendIsConcat, Zenon
<1>3. Append(q, f) \in Seq(T)
  OBVIOUS
<1>4. Count(Append(q, f), S) = Count(q, S) + Count(r, S) /\ Count(q, S) \in Nat
  <2>1. Count(q \o r, S) = Count(q, S) + Count(r, S)
    BY <1>1, CountConcat, Zenon
  <2>2. Count(q, S) \in Nat
    BY CountFinite, Zenon
  <2>3. QED
    BY <1>2, <2>1, <2>2, Zenon
<1>5. r[1] = f /\ Len(r) = 1
  BY <1>1
<1>6. (f \in S => Count(r, S) = 1) /\ (f \notin S => Count(r, S) = 0)
  BY <1>5, CountOne, Zenon
<1>7. QED
  BY <1>3, <1>4, <1>6

LEMMA CountTail ==
  ASSUME NEW T, NEW q \in Seq(T), q # <<>>, NEW S
  PROVE  /\ Head(q) \in T /\ Tail(q) \in Seq(T) /\ Count(Tail(q), S) \in Nat
         /\ Head(q) \in S => Count(q, S) = Count(Tail(q), S) + 1
         /\ Head(q) \notin S => Count(q, S) = Count(Tail(q), S)
<1>1. Head(q) \in T /\ Tail(q) \in Seq(T) /\ q = <<Head(q)>> \o Tail(q)
  BY HeadTailProperties
<1>2. PICK r \in Seq(T) : r = <<Head(q)>> /\ Len(r) = 1 /\ r[1] = Head(q)
  BY <1>1, Singletons
<1>3. q = r \o Tail(q)
  BY <1>1, <1>2, Zenon
<1>4. Count(q, S) = Count(r, S) + Count(Tail(q), S) /\ Count(Tail(q), S) \in Nat
  <2>1. Count(r \o Tail(q), S) = Count(r, S) + Count(Tail(q), S)
    BY <1>1, <1>2, CountConcat, Zenon
  <2>2. Count(Tail(q), S) \in Nat
    BY <1>1, CountFinite, Zenon
  <2>3. QED
    BY <1>3, <2>1, <2>2, Zenon
<1>5. r[1] = Head(q) /\ Len(r) = 1
  BY <1>2
<1>6. (Head(q) \in S => Count(r, S) = 1) /\ (Head(q) \notin S => Count(r, S) = 0)
  BY <1>5, CountOne, Zenon
<1>7. QED
  BY <1>1, <1>4, <1>6

LEMMA CountEmpty == \A q, S : q = <<>> => Count(q, S) = 0
<1>1. <<>> \in Seq(Frames) /\ Len(<<>>) = 0
  BY EmptySeq
<1> SUFFICES ASSUME NEW q, NEW S, q = <<>> PROVE Count(q, S) = 0
  OBVIOUS
<1>2. q \in Seq(Frames) /\ Len(q) = 0
  BY <1>1, Zenon
<1>3. \A i \in 1 .. Len(q) : q[i] \notin S
  BY <1>2
<1>4. QED
  BY <1>2, <1>3, CountNone, Zenon

LEMMA CountWider ==
  ASSUME NEW T, NEW q \in Seq(T), NEW S, NEW R, S \subseteq R
  PROVE  Count(q, S) <= Count(q, R)
<1>1. Hits(q, S) \subseteq Hits(q, R)
  BY DEF Hits
<1>2. IsFiniteSet(Hits(q, R)) /\ Count(q, S) = Cardinality(Hits(q, S)) /\ Count(q, R) = Cardinality(Hits(q, R))
  BY CountFinite
<1>3. QED
  BY <1>1, <1>2, FS_Subset

(* Reading a part of a queue splits what is counted in it.                 *)
LEMMA CountRead ==
  ASSUME NEW q \in Seq(Frames), NEW k \in 1 .. Len(q), NEW S
  PROVE  Count(SubSeq(q, 1, k), S) + Count(SubSeq(q, k + 1, Len(q)), S) = Count(q, S)
<1> DEFINE a == SubSeq(q, 1, k)
           b == SubSeq(q, k + 1, Len(q))
<1>1. a \in Seq(Frames) /\ b \in Seq(Frames)
  OBVIOUS
<1>2. a \o b = q
  BY ReadKeeps
<1> HIDE DEF a, b
<1>3. Count(a \o b, S) = Count(a, S) + Count(b, S)
  BY <1>1, CountConcat
<1>4. QED
  BY <1>2, <1>3 DEF a, b

-----------------------------------------------------------------------------
(* The frames of an open command (C_SC with sco 0): its selection and its  *)
(* execution on the way up, its confirmation on the way down.  The frames  *)
(* of other commands travel beside them, in any number.                    *)
AnyCommand == Controls \X {0, 1}
Plain == Asked(AnyCommand)
Commands == {fr \in Frames : fr.f = "I" /\ fr.ty = "C_SC" /\ fr.val = 0}
Executions == {fr \in Commands : ~fr.sel}
Confirmations == {fr \in Commands : fr.cot = "ACTCON" /\ fr.sel}

LEMMA PlainFrames ==
  /\ \A fr \in Plain : fr \in Frames
  /\ \A fr \in Plain : fr \notin Commands /\ fr.f = "I" => fr.ty # "C_SC" \/ fr.val # 0
  /\ \A fr \in Plain : fr.f # "I" \/ fr.ty \notin Controls => fr \in Asked({})
  /\ \A fr \in Told({}) : fr \in Frames /\ fr \notin Confirmations
  /\ \A fr \in Asked({}) : fr \notin Executions
<1>1. \A fr \in Plain : fr \in Frames
  BY DEF Plain, Asked
<1>2. \A fr \in Plain : fr \notin Commands /\ fr.f = "I" => fr.ty # "C_SC" \/ fr.val # 0
  BY <1>1 DEF Commands
<1>3. \A fr \in Plain : fr.f # "I" \/ fr.ty \notin Controls => fr \in Asked({})
  BY DEF Plain, Asked
<1>4. \A fr \in Told({}) : fr \in Frames /\ fr \notin Confirmations
  BY DEF Told, Confirmations, Commands, Controls
<1>5. \A fr \in Asked({}) : fr \notin Executions
  BY DEF Asked, Executions, Commands, Controls
<1>6. QED
  BY <1>1, <1>2, <1>3, <1>4, <1>5

(* A queue of frames of S has none of R.                                   *)
LEMMA NoneCounted ==
  ASSUME NEW S, NEW q \in Seq(S), NEW R, \A fr \in S : fr \notin R
  PROVE  Count(q, R) = 0
<1>1. \A i \in 1 .. Len(q) : q[i] \notin R
  OBVIOUS
<1>2. QED
  BY <1>1, CountNone

LEMMA PlainBuilt ==
  /\ \A fn \in UFuncs \ {"STOPDT"} : UFrame(fn) \in Plain \ Commands
  /\ \A rs \in 0 .. SnMod : SFrame(rs) \in Plain \ Commands
  /\ \A op \in MasterOps, ss \in Sn, rs \in 0 .. SnMod :
       CmdFrame(op, ss, rs) \in Plain /\ (op # "yk0" => CmdFrame(op, ss, rs) \notin Commands)
<1>1. ASSUME NEW fn \in UFuncs \ {"STOPDT"} PROVE UFrame(fn) \in Plain \ Commands
  <2>1. UFrame(fn) \in Plain /\ UFrame(fn).f # "I"
    BY AskedFrames DEF UFrame, Plain
  <2>2. QED
    BY <2>1 DEF Commands
<1>2. ASSUME NEW rs \in 0 .. SnMod PROVE SFrame(rs) \in Plain \ Commands
  <2>1. SFrame(rs) \in Plain /\ SFrame(rs).f # "I"
    BY AskedFrames DEF SFrame, Plain
  <2>2. QED
    BY <2>1 DEF Commands
<1>3. ASSUME NEW op \in MasterOps, NEW ss \in Sn, NEW rs \in 0 .. SnMod
      PROVE  CmdFrame(op, ss, rs) \in Plain /\ (op # "yk0" => CmdFrame(op, ss, rs) \notin Commands)
  <2> DEFINE fr == CmdFrame(op, ss, rs)
  <2>1. op \in {"call_all", "call_pulse", "yk0", "yk1", "yt"}
    BY MasterAssumption
  <2>2. op # "yk0" => fr.ty # "C_SC" \/ fr.val # 0
    BY <2>1 DEF CmdFrame, IFrame
  <2>3. fr \in Plain
    BY AskedFrames DEF Plain
  <2> HIDE DEF fr
  <2>4. fr \in Plain /\ (op # "yk0" => fr \notin Commands)
    BY <2>2, <2>3 DEF Commands
  <2>5. QED
    BY <2>4 DEF fr
<1>4. QED
  BY <1>1, <1>2, <1>3

-----------------------------------------------------------------------------
(* What the stations answer.                                               *)

(* One frame at most, and none of S.                                       *)
LEMMA OneCounted ==
  ASSUME NEW T, NEW f \in T, NEW q, q = Append(<<>>, f), NEW S
  PROVE  /\ q \in Seq(T) /\ Count(q, S) \in {0, 1}
         /\ f \notin S => Count(q, S) = 0
<1>1. q \in Seq(T) /\ Len(q) = 1 /\ q[1] = f
  OBVIOUS
<1>2. (f \in S => Count(q, S) = 1) /\ (f \notin S => Count(q, S) = 0)
  BY <1>1, CountOne, Zenon
<1>3. QED
  BY <1>1, <1>2

(* The slave confirms a selection with one frame, and what it says else    *)
(* confirms none.                                                          *)
LEMMA SlaveConfirms ==
  ASSUME NEW w, WorkOK(w), w.out = <<>>, NEW fr \in Plain, NEW x \in iec104_s_frame_parse(w, fr)
  PROVE  /\ x.out \in Seq(Told(AnyCommand)) /\ Count(x.out, Confirmations) \in {0, 1}
         /\ fr \notin Commands \/ ~fr.sel => Count(x.out, Confirmations) = 0
<1>1. CASE fr.f # "I" \/ fr.ty \notin Controls
  <2>1. fr \in Asked({})
    BY <1>1, PlainFrames
  <2>2. Selected(fr) = {}
    BY <1>1 DEF Selected, Selects, Command, Controls
  <2>3. x.out \in Seq(Told({} \cup Selected(fr)))
    BY <2>1, ParseTells
  <2>4. x.out \in Seq(Told({}))
    BY <2>2, <2>3
  <2>5. Count(x.out, Confirmations) = 0
    BY <2>4, PlainFrames, NoneCounted
  <2>6. x.out \in Seq(Told(AnyCommand))
    BY <2>4, MoreChosen
  <2>7. QED
    BY <2>5, <2>6
<1>2. CASE fr.f = "I" /\ fr.ty \in Controls
  <2>1. fr \in Frames
    BY PlainFrames
  <2>2. fr \in IFrames
    BY <1>2, <2>1 DEF Frames, UFrames, SFrames
  <2> DEFINE d == iec104_s_deal_sn(w, fr)
             f == IFrame(fr.ty, "ACTCON", fr.ia0, fr.sel, fr.val, d.st.build_send, d.st.build_recv)
  <2>3. WorkOK(d) /\ d.out = <<>>
    <3>1. fr.ss + 1 \in 0 .. SnMod
      BY <2>2, FrameAssumption DEF IFrames, Sn
    <3>2. QED
      BY <3>1 DEF iec104_s_deal_sn, WorkOK, SlaveStation
  <2>4. x = w \/ x = BuildI(d, fr.ty, "ACTCON", fr.ia0, fr.sel, fr.val)
    BY <1>2 DEF iec104_s_frame_parse, iec104_s_frame_i_parse, iec104_s_build_yk_ack,
                iec104_s_build_yt_ack, Controls
  <2>5. f \in Told(AnyCommand) /\ (f \in Confirmations => fr \in Commands /\ fr.sel)
    <3>1. f \in Frames
      <4>1. d.st.build_send \in Sn /\ d.st.build_recv \in 0 .. SnMod
        BY <2>3 DEF WorkOK, SlaveStation
      <4>2. fr.ty \in AsduTypes /\ "ACTCON" \in Reasons
            /\ fr.ia0 \in BOOLEAN /\ fr.sel \in BOOLEAN /\ fr.val \in {0, 1}
        BY <2>2 DEF IFrames, Reasons
      <4> HIDE DEF d
      <4>3. QED
        BY <4>1, <4>2, FramesBuilt
    <3>2. f.ty = fr.ty /\ f.val = fr.val /\ f.sel = fr.sel
      BY DEF IFrame
    <3>3. <<f.ty, f.val>> \in AnyCommand
      <4>1. fr.val \in {0, 1}
        BY <2>2 DEF IFrames
      <4> HIDE DEF f
      <4>2. QED
        BY <1>2, <3>2, <4>1 DEF AnyCommand
    <3> HIDE DEF f
    <3>4. QED
      BY <1>2, <2>1, <3>1, <3>2, <3>3 DEF Told, Confirmations, Commands
  <2>6. BuildI(d, fr.ty, "ACTCON", fr.ia0, fr.sel, fr.val).out = Append(d.out, f)
    BY <2>3 DEF BuildI, WorkOK
  <2> HIDE DEF d, f
  <2>7. CASE x = w
    <3>1. Count(x.out, Confirmations) = 0
      BY <2>7, CountEmpty
    <3>2. x.out \in Seq(Told(AnyCommand))
      BY <2>7, EmptySeq
    <3>3. QED
      BY <3>1, <3>2
  <2>8. CASE x = BuildI(d, fr.ty, "ACTCON", fr.ia0, fr.sel, fr.val)
    <3>1. x.out = Append(<<>>, f)
      BY <2>3, <2>6, <2>8
    <3>2. /\ x.out \in Seq(Told(AnyCommand)) /\ Count(x.out, Confirmations) \in {0, 1}
          /\ f \notin Confirmations => Count(x.out, Confirmations) = 0
      BY <2>5, <3>1, OneCounted
    <3>3. QED
      BY <2>5, <3>2
  <2>9. QED
    BY <2>4, <2>7, <2>8
<1>3. QED
  BY <1>1, <1>2

LEMMA SlaveMachineConfirms ==
  ASSUME NEW w, WorkOK(w), w.out = <<>>
  PROVE  /\ iec104_s_state_machine(w).out \in Seq(Told(AnyCommand))
         /\ Count(iec104_s_state_machine(w).out, Confirmations) = 0
<1> DEFINE q == iec104_s_state_machine(w).out
<1>1. Tells(w, {})
  BY EmptySeq DEF Tells
<1>2. q \in Seq(Told({}))
  BY <1>1, StateMachineTells DEF Tells
<1> HIDE DEF q
<1>3. q \in Seq(Told(AnyCommand)) /\ Count(q, Confirmations) = 0
  BY <1>2, PlainFrames, NoneCounted, MoreChosen
<1>4. QED
  BY <1>3 DEF q

(* The master executes what it is told is selected, and writes no command  *)
(* otherwise.                                                              *)
Mute(w) == w.out = <<>> \/ \E f \in Plain \ Commands : w.out = Append(<<>>, f)

LEMMA MuteCounts ==
  ASSUME NEW w, Mute(w)
  PROVE  w.out \in Seq(Plain) /\ Count(w.out, Commands) = 0
<1>1. CASE w.out = <<>>
  <2>1. Count(w.out, Commands) = 0
    BY <1>1, CountEmpty
  <2>2. w.out \in Seq(Plain)
    BY <1>1, EmptySeq
  <2>3. QED
    BY <2>1, <2>2
<1>2. ASSUME NEW f \in Plain \ Commands, w.out = Append(<<>>, f)
      PROVE  w.out \in Seq(Plain) /\ Count(w.out, Commands) = 0
  BY <1>2, OneCounted
<1>3. QED
  BY <1>1, <1>2 DEF Mute

LEMMA MasterExecutes ==
  ASSUME NEW w, MWorkOK(w), w.out = <<>>, NEW fr \in Told(AnyCommand)
  PROVE  /\ iec104_m_frame_parse(w, fr).out \in Seq(Plain)
         /\ Count(iec104_m_frame_parse(w, fr).out, Commands) \in {0, 1}
         /\ fr \notin Confirmations => Count(iec104_m_frame_parse(w, fr).out, Commands) = 0
<1> DEFINE q == iec104_m_frame_parse(w, fr).out
<1>0. fr \in Frames
  BY DEF Told
<1>1. CASE fr.f # "I"
  <2>1. UFrame("TESTER_ACK") \in Plain \ Commands
    BY PlainBuilt DEF UFuncs
  <2>2. q = w.out \/ q = Append(w.out, UFrame("TESTER_ACK"))
    <3>1. CASE fr.f = "U"
      <4>1. /\ iec104_m_frame_u_parse(w, fr).out = w.out
               \/ iec104_m_frame_u_parse(w, fr).out = Append(w.out, UFrame("TESTER_ACK"))
            /\ DOMAIN iec104_m_frame_u_parse(w, fr) = {"st", "out", "close", "serv"}
        BY DEF iec104_m_frame_u_parse, iec104_m_build_u_ack, MWorkOK
      <4>2. iec104_m_frame_parse(w, fr) = [iec104_m_frame_u_parse(w, fr) EXCEPT !.st.t_timer = 0]
        BY <3>1 DEF iec104_m_frame_parse
      <4>3. QED
        BY <4>1, <4>2
    <3>2. CASE fr.f = "S"
      <4>1. iec104_m_frame_parse(w, fr) = [w EXCEPT !.st.t_timer = 0]
        BY <3>2 DEF iec104_m_frame_parse
      <4>2. QED
        BY <4>1 DEF MWorkOK
    <3>3. QED
      BY <1>0, <1>1, <3>1, <3>2 DEF Frames, UFrames, SFrames, IFrames
  <2>3. Mute([out |-> q])
    BY <2>1, <2>2 DEF Mute
  <2> HIDE DEF q
  <2>4. q \in Seq(Plain) /\ Count(q, Commands) = 0
    BY <2>3, MuteCounts
  <2>5. QED
    BY <2>4 DEF q
<1>2. CASE fr.f = "I"
  <2>1. fr \in IFrames
    BY <1>0, <1>2 DEF Frames, UFrames, SFrames
  <2> DEFINE d == iec104_m_deal_sn(w, fr)
             x == iec104_m_frame_i_parse(w, fr)
  <2>2. MWorkOK(d) /\ d.out = <<>>
    <3>1. fr.ss + 1 \in 0 .. SnMod /\ fr.ss \in Sn \cup {-1} /\ fr.rs \in Sn
      BY <2>1, FrameAssumption DEF IFrames, Sn
    <3>2. QED
      BY <3>1 DEF iec104_m_deal_sn, MWorkOK, MasterStation
  <2>3. q = x.out
    <3>1. iec104_m_frame_parse(w, fr) = [x EXCEPT !.st.t_timer = 0]
      BY <1>2 DEF iec104_m_frame_parse
    <3>2. MWorkOK(x)
      BY <2>1, MasterAsduOK
    <3> HIDE DEF x
    <3>3. QED
      BY <3>1, <3>2 DEF MWorkOK
  <2> HIDE DEF q, x, d
  <2>4. \/ x = w
        \/ fr.ty = "C_SC" /\ x = iec104_m_asdu_yk(d, fr)
        \/ fr.ty = "C_SE" /\ x = iec104_m_asdu_yt(d, fr)
        \/ x \in {d, iec104_m_build_s_ack(d), iec104_m_asdu_call_all(d, fr),
                  iec104_m_asdu_call_pulse(d, fr), iec104_m_asdu_clock(d, fr)}
    <3>1. \/ iec104_m_frame_i_parse(w, fr) = w
          \/ fr.ty = "C_SC" /\ iec104_m_frame_i_parse(w, fr) = iec104_m_asdu_yk(d, fr)
          \/ fr.ty = "C_SE" /\ iec104_m_frame_i_parse(w, fr) = iec104_m_asdu_yt(d, fr)
          \/ iec104_m_frame_i_parse(w, fr) \in
               {d, iec104_m_build_s_ack(d), iec104_m_asdu_call_all(d, fr),
                iec104_m_asdu_call_pulse(d, fr), iec104_m_asdu_clock(d, fr)}
      BY DEF iec104_m_frame_i_parse, d
    <3>2. QED
      BY <3>1 DEF x
  <2>5. /\ Mute(w) /\ Mute(d)
        /\ \A e \in MasterEvents :
             /\ Mute([d EXCEPT !.serv = e]) /\ Mute(iec104_m_build_s_ack(d))
             /\ Mute(iec104_m_build_s_ack([d EXCEPT !.serv = e]))
    <3>1. SFrame(d.st.build_recv) \in Plain \ Commands
      BY <2>2, PlainBuilt DEF MWorkOK, MasterStation
    <3>2. ASSUME NEW e \in MasterEvents
          PROVE  /\ [d EXCEPT !.serv = e].out = <<>>
                 /\ iec104_m_build_s_ack(d).out = Append(<<>>, SFrame(d.st.build_recv))
                 /\ iec104_m_build_s_ack([d EXCEPT !.serv = e]).out = Append(<<>>, SFrame(d.st.build_recv))
      BY <2>2 DEF iec104_m_build_s_ack, MWorkOK
    <3>3. QED
      BY <2>2, <3>1, <3>2, Zenon DEF Mute
  <2>6. ASSUME fr.ty \in Controls, fr.cot = "ACTCON", x = Execute(d, fr),
               fr.ty = "C_SC" /\ fr.val = 0 => fr.sel
        PROVE  \E f \in Plain : x.out = Append(<<>>, f) /\ (f \in Commands => fr \in Confirmations)
    <3> DEFINE f == IFrame(fr.ty, "ACT", fr.ia0, FALSE, fr.val, d.st.build_send, d.st.build_recv)
    <3>1. f \in Frames
      <4>1. d.st.build_send \in Sn /\ d.st.build_recv \in 0 .. SnMod
        BY <2>2 DEF MWorkOK, MasterStation
      <4>2. fr.ty \in AsduTypes /\ fr.ia0 \in BOOLEAN /\ fr.val \in {0, 1} /\ "ACT" \in Reasons
        BY <2>1 DEF IFrames, Reasons
      <4>3. QED
        BY <4>1, <4>2, FramesBuilt
    <3>2. f.f = "I" /\ f.ty = fr.ty /\ f.cot = "ACT" /\ f.val = fr.val /\ STOPDT.f = "U"
      BY DEF IFrame, STOPDT, UFrame
    <3>3. fr.val \in {0, 1}
      BY <2>1 DEF IFrames
    <3>4. x.out = Append(d.out, f)
      BY <2>2, <2>6 DEF Execute, MWorkOK
    <3> HIDE DEF f
    <3>5. <<f.ty, f.val>> \in AnyCommand
      BY <2>6, <3>2, <3>3 DEF AnyCommand
    <3>6. f \in Plain
      BY <3>1, <3>2, <3>5 DEF Plain, Asked
    <3>7. f \in Commands => fr \in Confirmations
      BY <1>0, <1>2, <2>6, <3>2 DEF Confirmations, Commands
    <3>8. QED
      BY <2>2, <3>4, <3>6, <3>7
  <2>7. CASE \/ fr.ty = "C_SC" /\ x = iec104_m_asdu_yk(d, fr)
             \/ fr.ty = "C_SE" /\ x = iec104_m_asdu_yt(d, fr)
    <3>1. \/ \E e \in MasterEvents : x = [d EXCEPT !.serv = e]
          \/ /\ fr.ty \in Controls /\ fr.cot = "ACTCON" /\ x = Execute(d, fr)
             /\ fr.ty = "C_SC" /\ fr.val = 0 => fr.sel
      BY <2>7 DEF iec104_m_asdu_yk, iec104_m_build_yk_ack, iec104_m_asdu_yt, iec104_m_build_yt_ack,
                  MasterEvents, Controls
    <3>2. CASE \E e \in MasterEvents : x = [d EXCEPT !.serv = e]
      <4>1. Mute(x)
        BY <2>5, <3>2
      <4>2. QED
        BY <2>3, <4>1, MuteCounts DEF q
    <3>3. CASE /\ fr.ty \in Controls /\ fr.cot = "ACTCON" /\ x = Execute(d, fr)
               /\ fr.ty = "C_SC" /\ fr.val = 0 => fr.sel
      <4>1. PICK f \in Plain : x.out = Append(<<>>, f) /\ (f \in Commands => fr \in Confirmations)
        BY <2>6, <3>3
      <4>2. /\ x.out \in Seq(Plain) /\ Count(x.out, Commands) \in {0, 1}
            /\ f \notin Commands => Count(x.out, Commands) = 0
        BY <4>1, OneCounted
      <4>3. QED
        BY <2>3, <4>1, <4>2 DEF q
    <3>4. QED
      BY <3>1, <3>2, <3>3
  <2>9. CASE x = w \/ x \in {d, iec104_m_build_s_ack(d), iec104_m_asdu_call_all(d, fr),
                  iec104_m_asdu_call_pulse(d, fr), iec104_m_asdu_clock(d, fr)}
    <3>1. /\ Mute(iec104_m_asdu_call_all(d, fr)) /\ Mute(iec104_m_asdu_call_pulse(d, fr))
          /\ Mute(iec104_m_asdu_clock(d, fr))
      BY <2>5 DEF iec104_m_asdu_call_all, iec104_m_asdu_call_pulse, iec104_m_asdu_clock, MasterEvents
    <3>2. "CLOCK_SYNC" \in MasterEvents
      BY DEF MasterEvents
    <3>3. Mute(x)
      BY <2>5, <2>9, <3>1, <3>2
    <3>4. QED
      BY <2>3, <3>3, MuteCounts DEF q
  <2>10. QED
    BY <2>4, <2>7, <2>9
<1>3. QED
  BY <1>1, <1>2

LEMMA MasterMachineMute ==
  ASSUME NEW w, MWorkOK(w), w.out = <<>>
  PROVE  Mute(iec104_m_state_machine(w))
<1>1. UFrame("TESTER") \in Plain \ Commands
  BY PlainBuilt DEF UFuncs
<1>2. MLinkStep(w).out = <<>> /\ MWorkOK(MLinkStep(w))
  <2>1. MLinkStep(w).out = w.out
    BY DEF MLinkStep, MWorkOK
  <2>2. QED
    BY <2>1, MLinkStepOK
<1>3. ASSUME NEW x, MWorkOK(x), x.out = <<>> PROVE Mute(MTesterStep(x))
  <2>1. x.st.test \in TesterStates
    BY <1>3 DEF MWorkOK, MasterStation
  <2>2. MTesterStep(x).out = x.out \/ MTesterStep(x).out = Append(x.out, UFrame("TESTER"))
    BY <1>3, <2>1 DEF MTesterStep, iec104_m_build_u, TesterStates, MWorkOK
  <2>3. QED
    BY <1>1, <1>3, <2>2 DEF Mute
<1>4. Mute(MLinkStep(w))
  BY <1>2 DEF Mute
<1>5. QED
  BY <1>2, <1>3, <1>4 DEF iec104_m_state_machine

-----------------------------------------------------------------------------
(* Where an open command the application has given may be: in the         *)
(* application thread's hand, as a selection or an execution on its way to *)
(* the slave, in the frames the slave is parsing, or as the confirmation   *)
(* of its selection on the way back or in the frames the master is         *)
(* parsing.  Of what comes on a connection the master has left, only the   *)
(* executions count: a confirmation of the slave no longer reaches the     *)
(* master.                                                                 *)
Hand == IF m_app.pc # "idle" /\ m_app.op = "yk0" THEN 1 ELSE 0
Reading == IF s_pc # "parse" THEN 0
           ELSE IF Served THEN Count(s_rbuf, Commands) ELSE Count(s_rbuf, Executions)
Behind == IF s_client = NoConn \/ s_client = m_client THEN 0
          ELSE Count(net[s_client].up, Executions)
Travelling == IF m_client = NoConn THEN 0
              ELSE Count(net[m_client].up, Commands) + Count(net[m_client].down, Confirmations)
Answering == IF m_pc # "parse" THEN 0 ELSE Count(m_rbuf, Confirmations)

NetPlain(n) == \A c \in Conns : n[c].up \in Seq(Plain) /\ n[c].down \in Seq(Told(AnyCommand))
PlainQueues == NetPlain(net) /\ m_rbuf \in Seq(Told(AnyCommand)) /\ s_rbuf \in Seq(Plain)

(* What was executed and what may still be is no more than was commanded.  *)
OnceInv ==
  /\ PlainQueues
  /\ execs + Hand + Reading + Behind + Travelling + Answering <= opened

OnceTypes ==
  /\ Hand \in {0, 1} /\ Reading \in Nat /\ Behind \in Nat /\ Travelling \in Nat /\ Answering \in Nat
  /\ execs \in Nat /\ opened \in Nat

LEMMA PlainCounts ==
  /\ \A q \in Seq(Plain) : \A S : Count(q, S) \in Nat
  /\ \A q \in Seq(Told(AnyCommand)) : \A S : Count(q, S) \in Nat
  /\ \A q \in Seq(Plain) : Count(q, Executions) <= Count(q, Commands)
<1>1. \A q \in Seq(Plain) : \A S : Count(q, S) \in Nat
  BY CountFinite
<1>2. \A q \in Seq(Told(AnyCommand)) : \A S : Count(q, S) \in Nat
  BY CountFinite
<1>3. Executions \subseteq Commands
  BY DEF Executions
<1>4. QED
  BY <1>1, <1>2, <1>3, CountWider

LEMMA OnceTyped == TypeInv /\ PlainQueues => OnceTypes
<1> SUFFICES ASSUME TypeInv, PlainQueues PROVE OnceTypes
  OBVIOUS
<1>1. /\ m_client # NoConn => m_client \in Conns
      /\ s_client # NoConn => s_client \in Conns
      /\ execs \in Nat /\ opened \in Nat
  BY MasterAssumption DEF TypeInv, LinkTypes, Ends, HistTypes, MasterTypes, MasterTypeOK
<1>2. Reading \in Nat /\ Answering \in Nat
  BY PlainCounts DEF Reading, Answering, PlainQueues
<1>3. Behind \in Nat /\ Travelling \in Nat
  <2>1. \A c \in Conns : /\ Count(net[c].up, Executions) \in Nat /\ Count(net[c].up, Commands) \in Nat
                         /\ Count(net[c].down, Confirmations) \in Nat
    BY PlainCounts DEF PlainQueues, NetPlain
  <2>2. QED
    BY <1>1, <2>1 DEF Behind, Travelling
<1>4. Hand \in {0, 1}
  BY DEF Hand
<1>5. QED
  BY <1>1, <1>2, <1>3, <1>4 DEF OnceTypes

LEMMA OnceTypedNext ==
  ASSUME TypeInv', PlainQueues'
  PROVE  OnceTypes'
BY OnceTyped, PTL

LEMMA PlainSent ==
  ASSUME LinkTypes, NetPlain(net), NEW q
  PROVE  /\ q \in Seq(Plain) => NetPlain(MasterSent(net, m_client, q))
         /\ q \in Seq(Told(AnyCommand)) => NetPlain(SlaveSent(net, s_client, q))
<1>0. /\ DOMAIN net = Conns /\ \A c \in Conns : DOMAIN net[c] = Fields
      /\ m_client \in Conns \cup {NoConn} /\ s_client \in Conns \cup {NoConn}
  BY DEF LinkTypes, NetOK, ConnRecord, Ends, Fields
<1>1. \A S : \A a, b \in Seq(S) : a \o b \in Seq(S)
  BY ConcatProperties
<1>2. \A c \in Conns :
        /\ \/ MasterSent(net, m_client, q)[c].up = net[c].up
           \/ MasterSent(net, m_client, q)[c].up = net[c].up \o q
        /\ MasterSent(net, m_client, q)[c].down = net[c].down
  BY <1>0 DEF MasterSent, Fields
<1>3. \A c \in Conns :
        /\ \/ SlaveSent(net, s_client, q)[c].down = net[c].down
           \/ SlaveSent(net, s_client, q)[c].down = net[c].down \o q
        /\ SlaveSent(net, s_client, q)[c].up = net[c].up
  BY <1>0 DEF SlaveSent, Fields
<1>4. QED
  BY <1>1, <1>2, <1>3, Zenon DEF NetPlain

LEMMA PlainClosed ==
  ASSUME NEW n, Shaped(n), NetPlain(n), NEW c \in Conns \cup {NoConn}
  PROVE  NetPlain(MasterClosed(n, c)) /\ NetPlain(SlaveClosed(n, c))
<1>0. DOMAIN n = Conns /\ \A d \in Conns : DOMAIN n[d] = Fields
  BY DEF Shaped
<1>1. /\ <<>> \in Seq(Plain) /\ <<>> \in Seq(Told(AnyCommand))
      /\ Fresh.up = <<>> /\ Fresh.down = <<>>
  BY EmptySeq DEF Fresh
<1>2. \A d \in Conns :
        /\ MasterClosed(n, c)[d].up = n[d].up \/ MasterClosed(n, c)[d].up = <<>>
        /\ MasterClosed(n, c)[d].down = n[d].down \/ MasterClosed(n, c)[d].down = <<>>
  BY <1>0, <1>1, Zenon DEF MasterClosed, Fields
<1>3. \A d \in Conns :
        /\ SlaveClosed(n, c)[d].up = n[d].up \/ SlaveClosed(n, c)[d].up = <<>>
        /\ SlaveClosed(n, c)[d].down = n[d].down \/ SlaveClosed(n, c)[d].down = <<>>
  BY <1>0, <1>1, Zenon DEF SlaveClosed, Fields
<1>4. QED
  BY <1>1, <1>2, <1>3, Zenon DEF NetPlain

LEMMA ReadingKept ==
  ASSUME PlainQueues, Served' => Served, UNCHANGED <<s_pc, s_rbuf>>
  PROVE  Reading' <= Reading
<1>1. /\ Count(s_rbuf, Executions) <= Count(s_rbuf, Commands)
      /\ Count(s_rbuf, Executions) \in Nat /\ Count(s_rbuf, Commands) \in Nat
  BY PlainCounts DEF PlainQueues
<1>2. QED
  BY <1>1 DEF Reading

LEMMA NotExecuted ==
  ASSUME TypeInv, Record, s_pc = "parse" => s_rbuf' = s_rbuf
  PROVE  execs' = execs
<1>1. s_pc = "parse" => s_rbuf' # Tail(s_rbuf)
  <2> SUFFICES ASSUME s_pc = "parse" PROVE s_rbuf # Tail(s_rbuf)
    OBVIOUS
  <2>1. s_rbuf \in Seq(Frames) /\ s_rbuf # <<>>
    BY DEF TypeInv, SlaveTypes, SlaveTypeOK
  <2>2. Len(Tail(s_rbuf)) = Len(s_rbuf) - 1 /\ Len(s_rbuf) \in Nat
    BY <2>1, HeadTailProperties, LenProperties
  <2>3. QED
    BY <2>2
<1>2. ~SlaveHandles
  BY <1>1 DEF SlaveHandles
<1>3. QED
  BY <1>2 DEF Record

(* What the application has in hand it was counted for.                    *)
LEMMA NotOpened ==
  ASSUME Record, m_app' = m_app \/ m_app.pc # "idle"
  PROVE  opened' = opened
BY DEF Record, GivesOpen

(* A queue with what was appended to it, or without.                       *)
LEMMA CountWritten ==
  ASSUME NEW T, NEW a \in Seq(T), NEW b \in Seq(T), NEW r, r = a \/ r = a \o b, NEW S
  PROVE  Count(r, S) \in Nat /\ Count(r, S) <= Count(a, S) + Count(b, S)
<1>1. Count(a \o b, S) = Count(a, S) + Count(b, S) /\ Count(a, S) \in Nat /\ Count(b, S) \in Nat
  BY CountConcat, CountFinite
<1>2. Count(r, S) = Count(a, S) \/ Count(r, S) = Count(a \o b, S)
  BY Zenon
<1>3. QED
  BY <1>1, <1>2

(* What a station writes, and the connection it may give up.               *)
LEMMA MasterWroteOnce ==
  ASSUME TypeInv, LinkInv, PlainQueues, NEW q \in Seq(Plain), MasterWrote(q), s_client' = s_client
  PROVE  /\ NetPlain(net') /\ (Served' => Served)
         /\ Behind' + Travelling' <= Behind + Travelling + Count(q, Commands)
<1>0. /\ LinkTypes /\ Shaped(net) /\ NetPlain(net) /\ OnceTypes
      /\ m_client \in Conns \cup {NoConn} /\ s_client \in Conns \cup {NoConn}
  BY OnceTyped DEF TypeInv, LinkInv, PlainQueues, LinkTypes, Ends
<1> DEFINE n == MasterSent(net, m_client, q)
<1>1. /\ Shaped(n) /\ NetPlain(n)
      /\ \/ net' = n /\ m_client' = m_client
         \/ net' = MasterClosed(n, m_client) /\ m_client' = NoConn
  BY <1>0, SentKeeps, PlainSent DEF MasterWrote
<1>2. m_client # NoConn =>
        /\ n[m_client].up = net[m_client].up \/ n[m_client].up = net[m_client].up \o q
        /\ n[m_client].down = net[m_client].down
  BY <1>0 DEF MasterSent, Shaped, Fields
<1> HIDE DEF n
<1>3. NetPlain(net')
  <2>1. NetPlain(n) /\ NetPlain(MasterClosed(n, m_client))
    BY <1>0, <1>1, PlainClosed
  <2>2. net' = n \/ net' = MasterClosed(n, m_client)
    BY <1>1
  <2>3. QED
    BY <2>1, <2>2
<1>4. Served' => Served
  BY <1>1, LinkAssumption DEF Served
<1>5. /\ \A r, t \in Seq(Plain) : \A S : Count(r \o t, S) = Count(r, S) + Count(t, S)
      /\ Count(q, Executions) <= Count(q, Commands)
      /\ Count(q, Executions) \in Nat /\ Count(q, Commands) \in Nat
      /\ \A c \in Conns : /\ Count(net[c].up, Executions) <= Count(net[c].up, Commands)
                          /\ Count(net[c].up, Executions) \in Nat /\ Count(net[c].up, Commands) \in Nat
                          /\ Count(net[c].down, Confirmations) \in Nat
                          /\ net[c].up \in Seq(Plain)
  <2>1. \A r, t \in Seq(Plain) : \A S : Count(r \o t, S) = Count(r, S) + Count(t, S)
    BY CountConcat
  <2>2. QED
    BY <1>0, <2>1, PlainCounts DEF NetPlain
<1>6. CASE net' = n /\ m_client' = m_client
  <2>1. Travelling' <= Travelling + Count(q, Commands) /\ Travelling' \in Nat
    <3>1. CASE m_client = NoConn
      BY <1>0, <1>5, <1>6, <3>1 DEF Travelling
    <3>2. CASE m_client # NoConn
      <4>1. /\ net'[m_client].down = net[m_client].down /\ net[m_client].up \in Seq(Plain)
            /\ net'[m_client].up = net[m_client].up \/ net'[m_client].up = net[m_client].up \o q
        BY <1>0, <1>2, <1>5, <1>6, <3>2
      <4>2. Count(net'[m_client].up, Commands) <= Count(net[m_client].up, Commands) + Count(q, Commands)
            /\ Count(net'[m_client].up, Commands) \in Nat
        BY <4>1, CountWritten
      <4>3. /\ Travelling = Count(net[m_client].up, Commands) + Count(net[m_client].down, Confirmations)
            /\ Travelling' = Count(net'[m_client].up, Commands) + Count(net[m_client].down, Confirmations)
        BY <1>6, <3>2, <4>1 DEF Travelling
      <4>4. /\ Count(net[m_client].up, Commands) \in Nat /\ Count(net[m_client].down, Confirmations) \in Nat
            /\ Count(q, Commands) \in Nat
        BY <1>0, <1>5, <3>2
      <4>5. QED
        BY <4>2, <4>3, <4>4
    <3>3. QED
      BY <3>1, <3>2
  <2>2. Behind' = Behind
    <3>1. s_client # NoConn /\ s_client # m_client => net'[s_client] = net[s_client]
      BY <1>0, <1>6 DEF n, MasterSent
    <3>2. QED
      BY <1>6, <3>1 DEF Behind
  <2>3. QED
    BY <1>0, <1>3, <1>4, <1>5, <2>1, <2>2 DEF OnceTypes
<1>7. CASE net' = MasterClosed(n, m_client) /\ m_client' = NoConn
  <2>1. Travelling' = 0
    BY <1>7 DEF Travelling
  <2>2. Behind' <= Behind + Travelling + Count(q, Commands) /\ Behind' \in Nat
    <3>1. CASE s_client = NoConn
      BY <1>0, <1>5, <1>7, <3>1 DEF Behind, OnceTypes
    <3>2. CASE s_client # NoConn
      <4>1. /\ s_client \in Conns /\ net[s_client].slv # "closed"
        BY <3>2, Installed
      <4>2. /\ s_client # m_client => net'[s_client] = net[s_client]
            /\ \/ net'[s_client].up = net[s_client].up
               \/ s_client = m_client /\ net'[s_client].up = net[s_client].up \o q
        BY <1>0, <4>1, MasterWroteEffect, OnlyFrames
      <4>3. Behind' = Count(net'[s_client].up, Executions)
        BY <1>7, <3>2 DEF Behind
      <4>4. CASE s_client # m_client
        <5>1. Behind' = Behind
          BY <3>2, <4>2, <4>3, <4>4 DEF Behind
        <5>2. QED
          BY <1>0, <1>5, <5>1 DEF OnceTypes
      <4>5. CASE s_client = m_client
        <5>1. /\ Behind = 0
              /\ Travelling = Count(net[s_client].up, Commands) + Count(net[s_client].down, Confirmations)
          BY <3>2, <4>5 DEF Behind, Travelling
        <5>2. /\ Count(net'[s_client].up, Executions) <= Count(net[s_client].up, Executions) + Count(q, Executions)
              /\ Count(net'[s_client].up, Executions) \in Nat
          BY <1>5, <4>1, <4>2, CountWritten
        <5>3. Count(net'[s_client].up, Executions) <= Count(net[s_client].up, Commands) + Count(q, Commands)
          BY <1>5, <4>1, <5>2
        <5>4. QED
          BY <1>5, <4>1, <4>3, <5>1, <5>2, <5>3
      <4>6. QED
        BY <4>4, <4>5
    <3>3. QED
      BY <3>1, <3>2
  <2>3. QED
    BY <1>0, <1>3, <1>4, <1>5, <2>1, <2>2 DEF OnceTypes
<1>8. QED
  BY <1>1, <1>6, <1>7

LEMMA SlaveWroteOnce ==
  ASSUME TypeInv, LinkInv, MasterLinked, PlainQueues, NEW q \in Seq(Told(AnyCommand)), SlaveWrote(q),
         m_client' = m_client
  PROVE  /\ NetPlain(net') /\ (Served' => Served) /\ Behind' <= Behind
         /\ Travelling' <= Travelling + (IF Served THEN Count(q, Confirmations) ELSE 0)
<1>0. /\ LinkTypes /\ Shaped(net) /\ NetPlain(net) /\ OnceTypes /\ q \in Seq(Frames)
      /\ m_client \in Conns \cup {NoConn} /\ s_client \in Conns \cup {NoConn}
  BY OnceTyped, OnlyFrames DEF TypeInv, LinkInv, PlainQueues, LinkTypes, Ends
<1>1. NetPlain(net')
  <2> DEFINE n == SlaveSent(net, s_client, q)
  <2>1. Shaped(n) /\ NetPlain(n) /\ (net' = n \/ net' = SlaveClosed(n, s_client))
    BY <1>0, SentKeeps, PlainSent DEF SlaveWrote
  <2> HIDE DEF n
  <2>2. NetPlain(SlaveClosed(n, s_client))
    BY <1>0, <2>1, PlainClosed
  <2>3. QED
    BY <2>1, <2>2
<1>2. /\ \A c \in Conns : c # s_client => net'[c] = net[c]
      /\ s_client' = s_client \/ s_client' = NoConn
      /\ s_client' # NoConn => \A c \in Conns : net'[c].up = net[c].up
      /\ s_client # NoConn /\ s_client = m_client =>
           /\ net'[m_client].up = IF s_client' = NoConn THEN <<>> ELSE net[m_client].up
           /\ net'[m_client].down = net[m_client].down
                \/ net'[m_client].down = net[m_client].down \o q
  BY <1>0, SlaveWroteEffect
<1>3. Served' => Served
  BY <1>2 DEF Served
<1>4. Behind' <= Behind
  <2>1. CASE s_client' = NoConn
    BY <1>0, <2>1 DEF Behind, OnceTypes
  <2>2. CASE s_client' # NoConn
    <3>1. Behind' = Behind
      BY <1>0, <1>2, <2>2 DEF Behind
    <3>2. QED
      BY <1>0, <3>1 DEF OnceTypes
  <2>3. QED
    BY <2>1, <2>2
<1>5. Travelling' <= Travelling + (IF Served THEN Count(q, Confirmations) ELSE 0)
  <2>1. CASE m_client = NoConn
    BY <2>1 DEF Travelling, Served
  <2>2. CASE m_client # NoConn /\ m_client # s_client
    <3>1. Travelling' = Travelling
      BY <1>0, <1>2, <2>2 DEF Travelling
    <3>2. QED
      BY <1>0, <2>2, <3>1 DEF OnceTypes, Served
  <2>3. CASE m_client # NoConn /\ m_client = s_client
    <3> DEFINE u == net[m_client].up
               d == net[m_client].down
               u1 == net'[m_client].up
               d1 == net'[m_client].down
    <3>1. /\ Travelling = Count(u, Commands) + Count(d, Confirmations)
          /\ Travelling' = Count(u1, Commands) + Count(d1, Confirmations)
          /\ Served
      BY <2>3 DEF Travelling, Served
    <3>2. u \in Seq(Plain) /\ d \in Seq(Told(AnyCommand))
      BY <1>0, <2>3 DEF NetPlain
    <3>3. u1 = u \/ u1 = <<>>
      BY <1>2, <2>3
    <3>4. d1 = d \/ d1 = d \o q
      BY <1>2, <2>3
    <3> HIDE DEF u, d, u1, d1
    <3>5. Count(u1, Commands) <= Count(u, Commands) /\ Count(u1, Commands) \in Nat /\ Count(u, Commands) \in Nat
      BY <3>2, <3>3, PlainCounts, CountEmpty
    <3>6. Count(d1, Confirmations) <= Count(d, Confirmations) + Count(q, Confirmations)
          /\ Count(d1, Confirmations) \in Nat /\ Count(d, Confirmations) \in Nat
          /\ Count(q, Confirmations) \in Nat
      BY <3>2, <3>4, CountWritten, PlainCounts
    <3>7. QED
      BY <3>1, <3>5, <3>6
  <2>4. QED
    BY <2>1, <2>2, <2>3
<1>6. QED
  BY <1>1, <1>3, <1>4, <1>5

(* The numbers of the sum, before and after a step.                        *)
LEMMA Summands ==
  ASSUME OnceTypes, OnceTypes'
  PROVE  /\ \E h \in {0, 1}, r \in Nat, b \in Nat, t \in Nat, a \in Nat, e \in Nat, n \in Nat :
              /\ h = Hand /\ r = Reading /\ b = Behind /\ t = Travelling /\ a = Answering
              /\ e = execs /\ n = opened
         /\ \E h \in {0, 1}, r \in Nat, b \in Nat, t \in Nat, a \in Nat, e \in Nat, n \in Nat :
              /\ h = Hand' /\ r = Reading' /\ b = Behind' /\ t = Travelling' /\ a = Answering'
              /\ e = execs' /\ n = opened'
BY DEF OnceTypes

(* The sum does not grow when c commands, given up by the application or   *)
(* the master, went on their way ...                                       *)
LEMMA SumWritten ==
  ASSUME OnceTypes, OnceTypes', NEW c \in Nat,
         execs + Hand + Reading + Behind + Travelling + Answering <= opened,
         execs' = execs, opened' = opened, Reading' <= Reading,
         Behind' + Travelling' <= Behind + Travelling + c,
         Hand' + Answering' + c <= Hand + Answering
  PROVE  execs' + Hand' + Reading' + Behind' + Travelling' + Answering' <= opened'
<1>1. PICK h \in {0, 1}, r \in Nat, b \in Nat, t \in Nat, a \in Nat, e \in Nat, n \in Nat :
        /\ h = Hand /\ r = Reading /\ b = Behind /\ t = Travelling /\ a = Answering
        /\ e = execs /\ n = opened
  BY Summands
<1>2. PICK h1 \in {0, 1}, r1 \in Nat, b1 \in Nat, t1 \in Nat, a1 \in Nat, e1 \in Nat, n1 \in Nat :
        /\ h1 = Hand' /\ r1 = Reading' /\ b1 = Behind' /\ t1 = Travelling' /\ a1 = Answering'
        /\ e1 = execs' /\ n1 = opened'
  BY Summands
<1>3. /\ e1 = e /\ n1 = n /\ r1 <= r /\ b1 + t1 <= b + t + c /\ h1 + a1 + c <= h + a
      /\ e + h + r + b + t + a <= n
  BY <1>1, <1>2, Zenon
<1>4. e1 + h1 + r1 + b1 + t1 + a1 <= n1
  BY <1>3
<1>5. QED
  BY <1>1, <1>2, <1>4, Zenon

(* ... when the slave executes or confirms a command it was parsing ...    *)
LEMMA SumParsed ==
  ASSUME OnceTypes, OnceTypes', NEW c \in Nat, NEW d \in Nat,
         execs + Hand + Reading + Behind + Travelling + Answering <= opened,
         opened' = opened, Hand' = Hand, Answering' = Answering, execs' <= execs + d,
         Behind' <= Behind, Travelling' <= Travelling + c, Reading' + c + d <= Reading
  PROVE  execs' + Hand' + Reading' + Behind' + Travelling' + Answering' <= opened'
<1>1. PICK h \in {0, 1}, r \in Nat, b \in Nat, t \in Nat, a \in Nat, e \in Nat, n \in Nat :
        /\ h = Hand /\ r = Reading /\ b = Behind /\ t = Travelling /\ a = Answering
        /\ e = execs /\ n = opened
  BY Summands
<1>2. PICK h1 \in {0, 1}, r1 \in Nat, b1 \in Nat, t1 \in Nat, a1 \in Nat, e1 \in Nat, n1 \in Nat :
        /\ h1 = Hand' /\ r1 = Reading' /\ b1 = Behind' /\ t1 = Travelling' /\ a1 = Answering'
        /\ e1 = execs' /\ n1 = opened'
  BY Summands
<1>3. /\ n1 = n /\ h1 = h /\ a1 = a /\ e1 <= e + d /\ b1 <= b /\ t1 <= t + c /\ r1 + c + d <= r
      /\ e + h + r + b + t + a <= n
  BY <1>1, <1>2, Zenon
<1>4. e1 + h1 + r1 + b1 + t1 + a1 <= n1
  BY <1>3
<1>5. QED
  BY <1>1, <1>2, <1>4, Zenon

(* ... and when commands are only read, lost, or given.                    *)
LEMMA SumKept ==
  ASSUME OnceTypes, OnceTypes',
         execs + Hand + Reading + Behind + Travelling + Answering <= opened,
         execs' = execs,
         \/ Hand' = Hand /\ opened' = opened
         \/ Hand = 0 /\ opened' = opened + 1,
         \/ Reading' <= Reading /\ Behind' <= Behind /\ Travelling' <= Travelling /\ Answering' = Answering
         \/ Reading' <= Reading /\ Behind' = Behind /\ Travelling' + Answering' = Travelling + Answering
         \/ Reading' <= Reading /\ Behind' <= Behind + Travelling /\ Travelling' = 0 /\ Answering' = Answering
         \/ Reading' + Travelling' = Reading + Travelling /\ Behind' = Behind /\ Answering' = Answering
         \/ Reading' + Behind' = Reading + Behind /\ Travelling' = Travelling /\ Answering' = Answering
  PROVE  execs' + Hand' + Reading' + Behind' + Travelling' + Answering' <= opened'
<1>1. PICK h \in {0, 1}, r \in Nat, b \in Nat, t \in Nat, a \in Nat, e \in Nat, n \in Nat :
        /\ h = Hand /\ r = Reading /\ b = Behind /\ t = Travelling /\ a = Answering
        /\ e = execs /\ n = opened
  BY Summands
<1>2. PICK h1 \in {0, 1}, r1 \in Nat, b1 \in Nat, t1 \in Nat, a1 \in Nat, e1 \in Nat, n1 \in Nat :
        /\ h1 = Hand' /\ r1 = Reading' /\ b1 = Behind' /\ t1 = Travelling' /\ a1 = Answering'
        /\ e1 = execs' /\ n1 = opened'
  BY Summands
<1>3. e1 = e /\ e + h + r + b + t + a <= n
  BY <1>1, <1>2, Zenon
<1>4. h1 <= h + (n1 - n)
  <2>1. (h1 = h /\ n1 = n) \/ (h = 0 /\ n1 = n + 1)
    BY <1>1, <1>2, Zenon
  <2>2. QED
    BY <2>1
<1>5. r1 + b1 + t1 + a1 <= r + b + t + a
  <2>1. \/ r1 <= r /\ b1 <= b /\ t1 <= t /\ a1 = a
        \/ r1 <= r /\ b1 = b /\ t1 + a1 = t + a
        \/ r1 <= r /\ b1 <= b + t /\ t1 = 0 /\ a1 = a
        \/ r1 + t1 = r + t /\ b1 = b /\ a1 = a
        \/ r1 + b1 = r + b /\ t1 = t /\ a1 = a
    BY <1>1, <1>2, Zenon
  <2>2. QED
    BY <2>1
<1>6. e1 + h1 + r1 + b1 + t1 + a1 <= n1
  BY <1>3, <1>4, <1>5
<1>7. QED
  BY <1>1, <1>2, <1>6, Zenon

(* A step of the master that writes what the application had in hand, or   *)
(* answers a confirmation.                                                 *)
LEMMA MasterRest ==
  ASSUME TypeInv, OnceInv, MasterStep
  PROVE  execs' = execs /\ UNCHANGED <<s_client, s_pc, s_rbuf>>
<1>1. UNCHANGED <<s_client, s_pc, s_rbuf>>
  BY DEF MasterStep, slaveVars, MasterExec, MasterApp, MasterStateMachine, MasterOpenFails, MasterRecv,
         MasterParse, MasterOpen, CmdPut, CmdSend, CmdBegin, linkVars
<1>2. QED
  BY <1>1, NotExecuted DEF MasterStep

LEMMA MasterPassOnce ==
  ASSUME TypeInv, TypeInv', LinkInv, OnceInv, MasterStep, m_rbuf' \in Seq(Told(AnyCommand)),
         NEW q \in Seq(Plain), MasterWrote(q), opened' = opened,
         Hand' + Answering' + Count(q, Commands) <= Hand + Answering
  PROVE  OnceInv'
<1>1. execs' = execs /\ UNCHANGED <<s_client, s_pc, s_rbuf>>
  BY MasterRest
<1>2. /\ NetPlain(net') /\ (Served' => Served)
      /\ Behind' + Travelling' <= Behind + Travelling + Count(q, Commands)
  BY <1>1, MasterWroteOnce DEF OnceInv
<1>3. PlainQueues'
  BY <1>1, <1>2 DEF OnceInv, PlainQueues, NetPlain
<1>4. OnceTypes /\ OnceTypes' /\ Count(q, Commands) \in Nat
  BY <1>3, OnceTyped, OnceTypedNext, PlainCounts DEF OnceInv
<1>5. Reading' <= Reading
  BY <1>1, <1>2, ReadingKept DEF OnceInv
<1>6. execs + Hand + Reading + Behind + Travelling + Answering <= opened
  BY DEF OnceInv
<1>7. execs' + Hand' + Reading' + Behind' + Travelling' + Answering' <= opened'
  BY <1>1, <1>2, <1>4, <1>5, <1>6, SumWritten, Zenon
<1>8. QED
  BY <1>3, <1>7 DEF OnceInv

LEMMA MasterOnce ==
  ASSUME TypeInv, TypeInv', LinkInv, OnceInv, MasterStep
  PROVE  OnceInv'
<1>0. /\ execs' = execs /\ UNCHANGED <<s_client, s_pc, s_rbuf>>
      /\ PlainQueues /\ OnceTypes
      /\ execs + Hand + Reading + Behind + Travelling + Answering <= opened
      /\ m_rbuf \in Seq(Told(AnyCommand)) /\ NetPlain(net)
  BY MasterRest, OnceTyped DEF OnceInv, PlainQueues
<1>given. m_app' = m_app \/ m_app.pc # "idle" => opened' = opened
  <2>1. Record
    BY DEF MasterStep
  <2>2. QED
    BY <2>1, NotOpened
<1>1. MWorkOK(MWork) /\ MWork.out = <<>>
  BY MasterWorkTyped DEF TypeInv, MWork
<1>2. ASSUME NEW w, MasterInstall(w) PROVE MasterWrote(w.out)
  BY <1>2 DEF MasterInstall, MasterWrote
<1>3. CASE MasterStateMachine
  <2> DEFINE w == iec104_m_state_machine(MWork)
  <2>1. w.out \in Seq(Plain) /\ Count(w.out, Commands) = 0
    BY <1>1, MasterMachineMute, MuteCounts
  <2>2. MasterWrote(w.out) /\ m_pc = "state_machine" /\ m_pc' = "recv"
        /\ UNCHANGED <<m_rbuf, m_app, opened>>
    BY <1>2, <1>3, <1>given DEF MasterStateMachine
  <2> HIDE DEF w
  <2>3. Hand' = Hand /\ Answering' = Answering
    BY <2>2 DEF Hand, Answering
  <2>4. Hand' + Answering' + Count(w.out, Commands) <= Hand + Answering
    BY <1>0, <2>1, <2>3 DEF OnceTypes
  <2>5. m_rbuf' \in Seq(Told(AnyCommand))
    BY <1>0, <2>2
  <2>6. QED
    BY <2>1, <2>2, <2>4, <2>5, MasterPassOnce
<1>4. CASE MasterParse
  <2> DEFINE fr == Head(m_rbuf)
             w == iec104_m_frame_parse(MWork, fr)
  <2>1. MasterWrote(w.out) /\ m_pc = "parse" /\ m_rbuf' = Tail(m_rbuf) /\ m_pc' \in {"state_machine", "parse"}
        /\ UNCHANGED <<m_app, opened>>
    BY <1>2, <1>4, <1>given DEF MasterParse
  <2>2. m_rbuf # <<>>
    BY <2>1 DEF TypeInv, MasterTypes
  <2>3. /\ fr \in Told(AnyCommand) /\ m_rbuf' \in Seq(Told(AnyCommand)) /\ Count(m_rbuf', Confirmations) \in Nat
        /\ fr \in Confirmations => Count(m_rbuf, Confirmations) = Count(m_rbuf', Confirmations) + 1
        /\ fr \notin Confirmations => Count(m_rbuf, Confirmations) = Count(m_rbuf', Confirmations)
    BY <1>0, <2>1, <2>2, CountTail
  <2> HIDE DEF fr
  <2>4. /\ w.out \in Seq(Plain) /\ Count(w.out, Commands) \in {0, 1}
        /\ fr \notin Confirmations => Count(w.out, Commands) = 0
    BY <1>1, <2>3, MasterExecutes
  <2> HIDE DEF w
  <2>5. /\ Hand' = Hand /\ Answering = Count(m_rbuf, Confirmations)
        /\ Answering' = 0 \/ Answering' = Count(m_rbuf', Confirmations)
    BY <2>1 DEF Hand, Answering
  <2>6. Hand' + Answering' + Count(w.out, Commands) <= Hand + Answering
    <3>1. PICK h \in Nat, k \in Nat, j \in Nat :
            h = Hand /\ k = Count(m_rbuf', Confirmations) /\ j = Count(w.out, Commands)
      BY <1>0, <2>3, <2>4 DEF OnceTypes
    <3>2. j = 0 \/ (j = 1 /\ Answering = k + 1)
      BY <2>3, <2>4, <2>5, <3>1
    <3>3. Answering \in {k, k + 1} /\ Answering' \in {0, k} /\ Hand' = h
      BY <2>3, <2>5, <3>1
    <3>4. QED
      BY <3>1, <3>2, <3>3
  <2>7. QED
    BY <2>1, <2>3, <2>4, <2>6, MasterPassOnce
<1>5. CASE CmdSend
  <2> DEFINE f == CmdFrame(m_app.op, m_app.sn, m_app.rs)
  <2>1. /\ m_app.pc = "send" /\ m_app.op \in MasterOps /\ m_app.sn \in Sn /\ m_app.rs \in 0 .. SnMod
        /\ MasterWrote(<<f>>) /\ m_app' = CmdIdle /\ UNCHANGED <<m_pc, m_rbuf, opened>>
    BY <1>5, <1>given DEF CmdSend, MasterWrote, TypeInv, MasterTypes, MasterTypeOK
  <2>2. f \in Plain /\ (m_app.op # "yk0" => f \notin Commands)
    BY <2>1, PlainBuilt
  <2> HIDE DEF f
  <2>3. PICK q \in Seq(Plain) : q = <<f>> /\ Len(q) = 1 /\ q[1] = f
    BY <2>2, Singletons
  <2>4. (f \in Commands => Count(q, Commands) = 1) /\ (f \notin Commands => Count(q, Commands) = 0)
    <3>1. Len(q) = 1 /\ q[1] = f
      BY <2>3
    <3>2. QED
      BY <3>1, CountOne, Zenon
  <2>5. Hand' = 0 /\ Answering' = Answering /\ (m_app.op = "yk0" => Hand = 1)
    BY <2>1 DEF Hand, Answering, CmdIdle
  <2>6. Hand' + Answering' + Count(q, Commands) <= Hand + Answering
    BY <1>0, <2>2, <2>4, <2>5 DEF OnceTypes
  <2>7. MasterWrote(q) /\ m_rbuf' \in Seq(Told(AnyCommand)) /\ opened' = opened
    <3>1. MasterWrote(q)
      BY <2>1, <2>3, Zenon
    <3>2. QED
      BY <1>0, <2>1, <3>1
  <2>8. QED
    BY <2>6, <2>7, MasterPassOnce
<1>6. CASE MasterRecv
  <2>1. CASE MasterInbox = <<>> /\ m_pc' = "state_machine" /\ UNCHANGED <<net, m_rbuf>>
    <3>1. UNCHANGED <<m_client, m_app, opened>> /\ m_pc = "recv"
      BY <1>6, <1>given DEF MasterRecv
    <3>2. PlainQueues' /\ Hand' = Hand /\ Reading' = Reading /\ Behind' = Behind
          /\ Travelling' = Travelling /\ Answering' = Answering
      BY <1>0, <2>1, <3>1 DEF PlainQueues, Hand, Served, Reading, Behind, Travelling, Answering
    <3>3. QED
      BY <1>0, <3>1, <3>2 DEF OnceInv
  <2>2. CASE \E k \in 1 .. Len(MasterInbox) :
               /\ m_rbuf' = SubSeq(MasterInbox, 1, k)
               /\ net' = [net EXCEPT ![m_client].down = SubSeq(@, k + 1, Len(@))]
               /\ m_pc' = "parse"
    <3>1. PICK k \in 1 .. Len(MasterInbox) :
               /\ m_rbuf' = SubSeq(MasterInbox, 1, k)
               /\ net' = [net EXCEPT ![m_client].down = SubSeq(@, k + 1, Len(@))]
               /\ m_pc' = "parse"
      BY <2>2
    <3>2. m_client \in Conns /\ m_client # NoConn /\ UNCHANGED <<m_client, m_app, opened>> /\ m_pc = "recv"
      BY <1>6, <1>given, <3>1 DEF MasterRecv, MasterInbox, TypeInv, LinkTypes, Ends
    <3>3. DOMAIN net = Conns /\ DOMAIN net[m_client] = Fields
      BY <3>2 DEF TypeInv, LinkTypes, NetOK, ConnRecord, Fields
    <3> DEFINE d == net[m_client].down
               a == SubSeq(d, 1, k)
               b == SubSeq(d, k + 1, Len(d))
    <3>4. /\ k \in 1 .. Len(d) /\ m_rbuf' = a /\ net'[m_client].down = b
          /\ \A c \in Conns : c # m_client => net'[c] = net[c]
          /\ \A c \in Conns : net'[c].up = net[c].up
      BY <3>1, <3>2, <3>3 DEF MasterInbox, Fields
    <3>5. d \in Seq(Told(AnyCommand)) /\ d \in Seq(Frames)
      BY <1>0, <3>2, OnlyFrames DEF NetPlain
    <3> HIDE DEF d
    <3>6. a \in Seq(Told(AnyCommand)) /\ b \in Seq(Told(AnyCommand))
      BY <3>4, <3>5
    <3>7. Count(a, Confirmations) + Count(b, Confirmations) = Count(d, Confirmations)
      BY <3>4, <3>5, CountRead
    <3> HIDE DEF a, b
    <3>8. PlainQueues'
      BY <1>0, <3>4, <3>6 DEF PlainQueues, NetPlain
    <3>9. OnceTypes'
      BY <3>8, OnceTypedNext
    <3>10. Hand' = Hand /\ Reading' = Reading
      BY <1>0, <3>2 DEF Hand, Reading, Served
    <3>11. Behind' = Behind
      BY <1>0, <3>2, <3>4 DEF Behind, TypeInv, LinkTypes, Ends
    <3>12. /\ Answering = 0 /\ Answering' = Count(a, Confirmations)
           /\ Travelling = Count(net[m_client].up, Commands) + Count(d, Confirmations)
           /\ Travelling' = Count(net[m_client].up, Commands) + Count(b, Confirmations)
      BY <3>1, <3>2, <3>4 DEF Answering, Travelling, d
    <3>13. /\ Count(net[m_client].up, Commands) \in Nat /\ Count(a, Confirmations) \in Nat
           /\ Count(b, Confirmations) \in Nat
      BY <1>0, <3>2, <3>6, PlainCounts DEF NetPlain
    <3>14. Travelling' + Answering' = Travelling + Answering
      BY <3>7, <3>12, <3>13
    <3>15. execs' + Hand' + Reading' + Behind' + Travelling' + Answering' <= opened'
      <4>1. execs' = execs /\ opened' = opened /\ Reading' <= Reading
        BY <1>0, <3>2, <3>10 DEF OnceTypes
      <4>2. QED
        BY <1>0, <3>9, <3>10, <3>11, <3>14, <4>1, SumKept, Zenon
    <3>16. QED
      BY <3>8, <3>15 DEF OnceInv
  <2>3. QED
    BY <1>6, <2>1, <2>2 DEF MasterRecv
<1>7. CASE \E c \in Conns : MasterOpen(c)
  <2>1. PICK c \in Conns : MasterOpen(c)
    BY <1>7
  <2>2. /\ m_pc = "state_machine" /\ m_pc' = "recv" /\ m_client' = c
        /\ net[c] = Fresh /\ net' = [net EXCEPT ![c].mst = "open", ![c].up = <<UFrame("STARTDT")>>]
        /\ UNCHANGED <<m_rbuf, m_app, opened>>
    BY <1>given, <2>1 DEF MasterOpen
  <2>3. /\ DOMAIN net = Conns /\ DOMAIN net[c] = Fields /\ c # NoConn /\ s_client \in Conns \cup {NoConn}
        /\ m_client \in Conns \cup {NoConn}
    BY LinkAssumption DEF TypeInv, LinkTypes, NetOK, ConnRecord, Fields, Ends
  <2>4. PICK q \in Seq(Plain) : q = <<UFrame("STARTDT")>> /\ Len(q) = 1 /\ q[1] = UFrame("STARTDT")
    <3>1. UFrame("STARTDT") \in Plain
      BY PlainBuilt DEF UFuncs
    <3>2. QED
      BY <3>1, Singletons
  <2>5. Count(q, Commands) = 0
    <3>1. q[1] \notin Commands /\ Len(q) = 1
      BY <2>4, PlainBuilt DEF UFuncs
    <3>2. QED
      BY <3>1, CountOne, Zenon
  <2>6. /\ net'[c].up = q /\ net'[c].down = <<>>
        /\ \A e \in Conns : e # c => net'[e] = net[e]
    <3>1. net'[c].up = <<UFrame("STARTDT")>> /\ net'[c].down = net[c].down
      BY <2>2, <2>3, Zenon DEF Fields
    <3>2. net[c].down = <<>>
      BY <2>2 DEF Fresh
    <3>3. \A e \in Conns : e # c => net'[e] = net[e]
      BY <2>2, <2>3, Zenon
    <3>4. QED
      BY <2>4, <3>1, <3>2, <3>3, Zenon
  <2>7. s_client # c
    BY <2>2, <2>3, Installed DEF Fresh
  <2>8. PlainQueues'
    <3>1. <<>> \in Seq(Told(AnyCommand))
      BY EmptySeq
    <3>2. NetPlain(net')
      BY <1>0, <2>4, <2>6, <3>1, Zenon DEF NetPlain
    <3>3. QED
      BY <1>0, <2>2, <3>2 DEF PlainQueues, NetPlain
  <2>9. OnceTypes'
    BY <2>8, OnceTypedNext
  <2>10. Hand' = Hand /\ Answering' = Answering /\ Travelling' = 0
    <3>1. Count(net'[c].down, Confirmations) = 0 /\ Count(net'[c].up, Commands) = 0
      BY <2>5, <2>6, CountEmpty, Zenon
    <3>2. QED
      BY <2>2, <2>3, <3>1 DEF Hand, Answering, Travelling
  <2>11. Reading' <= Reading
    BY <1>0, <2>2, <2>7, ReadingKept DEF Served
  <2>12. Behind' <= Behind + Travelling
    <3>1. CASE s_client = NoConn
      BY <1>0, <3>1 DEF Behind, OnceTypes
    <3>2. CASE s_client # NoConn /\ s_client # m_client
      <4>1. Behind' = Behind
        BY <1>0, <2>2, <2>3, <2>6, <2>7, <3>2 DEF Behind
      <4>2. QED
        BY <1>0, <4>1 DEF OnceTypes
    <3>3. CASE s_client # NoConn /\ s_client = m_client
      <4>1. /\ Behind' = Count(net[s_client].up, Executions)
            /\ Travelling = Count(net[s_client].up, Commands) + Count(net[s_client].down, Confirmations)
        BY <1>0, <2>2, <2>3, <2>6, <2>7, <3>3 DEF Behind, Travelling
      <4>2. /\ Count(net[s_client].up, Executions) <= Count(net[s_client].up, Commands)
            /\ Count(net[s_client].up, Executions) \in Nat /\ Count(net[s_client].up, Commands) \in Nat
            /\ Count(net[s_client].down, Confirmations) \in Nat
        BY <1>0, <2>3, <3>3, PlainCounts DEF NetPlain
      <4>3. Behind = 0
        BY <3>3 DEF Behind
      <4>4. QED
        BY <4>1, <4>2, <4>3
    <3>4. QED
      BY <3>1, <3>2, <3>3
  <2>13. execs' + Hand' + Reading' + Behind' + Travelling' + Answering' <= opened'
    <3>1. execs' = execs /\ opened' = opened
      BY <1>0, <2>2
    <3>2. QED
      BY <1>0, <2>9, <2>10, <2>11, <2>12, <3>1, SumKept, Zenon
  <2>14. QED
    BY <2>8, <2>13 DEF OnceInv
<1>8. CASE MasterOpenFails \/ CmdPut \/ \E op \in MasterOps : CmdBegin(op)
  <2>1. /\ UNCHANGED <<net, m_client, m_rbuf>>
        /\ m_pc' = m_pc \/ (m_pc = "state_machine" /\ m_pc' = "recv")
    BY <1>8 DEF MasterOpenFails, CmdPut, CmdBegin, linkVars
  <2>2. PlainQueues' /\ Reading' = Reading /\ Behind' = Behind /\ Travelling' = Travelling
        /\ Answering' = Answering
    BY <1>0, <2>1 DEF PlainQueues, NetPlain, Served, Reading, Behind, Travelling, Answering
  <2>3. \/ Hand' = Hand /\ opened' = opened
        \/ Hand = 0 /\ opened' = opened + 1
    <3>1. CASE MasterOpenFails
      BY <1>given, <3>1 DEF MasterOpenFails, Hand
    <3>2. CASE CmdPut
      <4>1. m_app'.pc = "send" /\ m_app'.op = m_app.op /\ m_app.pc = "put" /\ opened' = opened
        BY <1>given, <3>2 DEF CmdPut, TypeInv, MasterTypes, MasterTypeOK
      <4>2. QED
        BY <4>1 DEF Hand
    <3>3. CASE \E op \in MasterOps : CmdBegin(op)
      <4>1. PICK op \in MasterOps : CmdBegin(op)
        BY <3>3
      <4>2. m_app.pc = "idle" /\ m_app'.pc = "put" /\ m_app'.op = op
        BY <4>1 DEF CmdBegin
      <4>3. Hand = 0 /\ (op = "yk0" => Hand' = 1) /\ (op # "yk0" => Hand' = 0)
        BY <4>2 DEF Hand
      <4>4. Record
        BY DEF MasterStep
      <4>5. (op = "yk0" => opened' = opened + 1) /\ (op # "yk0" => opened' = opened)
        BY <4>2, <4>4 DEF Record, GivesOpen
      <4>6. QED
        BY <4>3, <4>5
    <3>4. QED
      BY <1>8, <3>1, <3>2, <3>3
  <2>4. OnceTypes'
    BY <2>2, OnceTypedNext
  <2>5. Reading' <= Reading /\ Behind' <= Behind /\ Travelling' <= Travelling /\ execs' = execs
    BY <1>0, <2>2 DEF OnceTypes
  <2>6. execs' + Hand' + Reading' + Behind' + Travelling' + Answering' <= opened'
    BY <1>0, <2>2, <2>3, <2>4, <2>5, SumKept, Zenon
  <2>7. QED
    BY <2>2, <2>6 DEF OnceInv
<1>9. QED
  BY <1>3, <1>4, <1>5, <1>6, <1>7, <1>8 DEF MasterStep, MasterExec, MasterApp

-----------------------------------------------------------------------------
(* The steps of the slave.                                                 *)
LEMMA SlaveRest ==
  ASSUME SlaveStep
  PROVE  UNCHANGED <<m_client, m_pc, m_rbuf, m_app, opened>>
<1>1. UNCHANGED <<m_client, m_pc, m_rbuf, m_app>>
  BY DEF SlaveStep, masterVars, SlaveExec, SlaveStateMachine, SlaveRecv, SlaveParse, SlaveAccept, AcceptClient,
         AcceptWake, AcceptConnected, AcceptInstall, SlaveApp, SponBegin, SponPut, SponSend, linkVars
<1>2. Record
  BY DEF SlaveStep
<1>3. QED
  BY <1>1, <1>2, NotOpened

LEMMA MasterSame ==
  ASSUME UNCHANGED <<m_pc, m_rbuf, m_app, opened>>
  PROVE  Hand' = Hand /\ Answering' = Answering /\ opened' = opened
BY DEF Hand, Answering

(* A step that moves no frame and changes no client.                       *)
LEMMA OnceQuiet ==
  ASSUME OnceInv, execs' = execs,
         UNCHANGED <<net, m_client, s_client, m_pc, m_rbuf, s_pc, s_rbuf, m_app, opened>>
  PROVE  OnceInv'
<1>1. /\ PlainQueues' /\ Hand' = Hand /\ Reading' = Reading /\ Behind' = Behind
      /\ Travelling' = Travelling /\ Answering' = Answering
  BY DEF OnceInv, PlainQueues, NetPlain, Hand, Served, Reading, Behind, Travelling, Answering
<1>2. opened' = opened
  OBVIOUS
<1>3. QED
  BY <1>1, <1>2 DEF OnceInv

LEMMA SlavePassOnce ==
  ASSUME TypeInv, TypeInv', LinkInv, MasterLinked, OnceInv, SlaveStep, s_rbuf' \in Seq(Plain),
         NEW q \in Seq(Told(AnyCommand)), SlaveWrote(q), NEW d \in Nat, execs' <= execs + d,
         NEW c \in Nat, c = IF Served THEN Count(q, Confirmations) ELSE 0,
         Reading' + c + d <= Reading
  PROVE  OnceInv'
<1>1. /\ UNCHANGED <<m_client, m_pc, m_rbuf, m_app, opened>>
      /\ Hand' = Hand /\ Answering' = Answering /\ opened' = opened
  BY SlaveRest, MasterSame
<1>2. NetPlain(net') /\ Behind' <= Behind /\ Travelling' <= Travelling + c
  BY <1>1, SlaveWroteOnce DEF OnceInv
<1>3. PlainQueues'
  BY <1>1, <1>2 DEF OnceInv, PlainQueues, NetPlain
<1>4. OnceTypes /\ OnceTypes'
  BY <1>3, OnceTyped, OnceTypedNext DEF OnceInv
<1>5. execs + Hand + Reading + Behind + Travelling + Answering <= opened
  BY DEF OnceInv
<1>6. execs' + Hand' + Reading' + Behind' + Travelling' + Answering' <= opened'
  BY <1>1, <1>2, <1>4, <1>5, SumParsed, Zenon
<1>7. QED
  BY <1>3, <1>6 DEF OnceInv

(* The slave takes a frame from recv_buf: an execution counts as executed, *)
(* a selection as confirmed.                                               *)
LEMMA ParseOnce ==
  ASSUME TypeInv, TypeInv', LinkInv, MasterLinked, OnceInv, SlaveStep, SlaveParse
  PROVE  OnceInv'
<1> DEFINE fr == Head(s_rbuf)
<1>1. PICK x \in iec104_s_frame_parse(Work, fr) : SlaveInstall(x)
  BY DEF SlaveParse
<1>2. /\ s_pc = "parse" /\ s_rbuf' = Tail(s_rbuf) /\ s_pc' \in {"state_machine", "parse"}
      /\ m_client' = m_client
  BY SlaveRest DEF SlaveParse
<1>3. s_rbuf \in Seq(Plain) /\ s_rbuf # <<>>
  BY <1>2 DEF TypeInv, SlaveTypes, OnceInv, PlainQueues
<1>4. /\ fr \in Plain /\ s_rbuf' \in Seq(Plain)
      /\ \A S : /\ Count(s_rbuf', S) \in Nat
                /\ fr \in S => Count(s_rbuf, S) = Count(s_rbuf', S) + 1
                /\ fr \notin S => Count(s_rbuf, S) = Count(s_rbuf', S)
  BY <1>2, <1>3, CountTail
<1>5. execs' = execs \/ (execs' = execs + 1 /\ ExecutesOpen(fr))
  BY DEF SlaveStep, Record
<1> HIDE DEF fr
<1>6. /\ x.out \in Seq(Told(AnyCommand)) /\ Count(x.out, Confirmations) \in {0, 1}
      /\ fr \notin Commands \/ ~fr.sel => Count(x.out, Confirmations) = 0
  BY <1>1, <1>4, WorkReady, SlaveConfirms
<1>7. SlaveWrote(x.out) /\ (s_client' = s_client \/ s_client' = NoConn)
  BY <1>1 DEF SlaveInstall, SlaveWrote
<1>8. ExecutesOpen(fr) => fr \in Executions
  <2>1. fr \in Frames
    BY <1>4, PlainFrames
  <2>2. QED
    BY <2>1 DEF ExecutesOpen, Executes, Command, Executions, Commands, iec104_s_asdu_yk
<1>9. (fr \in Executions => fr \in Commands /\ ~fr.sel) /\ (fr \in Commands /\ ~fr.sel => fr \in Executions)
  BY DEF Executions
<1>10. execs \in Nat
  BY OnceTyped DEF OnceInv, OnceTypes
<1>11. PICK d \in Nat : d = IF fr \in Executions THEN 1 ELSE 0
  OBVIOUS
<1>12. PICK c \in Nat : c = IF Served THEN Count(x.out, Confirmations) ELSE 0
  BY <1>6
<1>13. execs' <= execs + d
  BY <1>5, <1>8, <1>10, <1>11
<1>14. Served' => Served
  BY <1>2, <1>7 DEF Served
<1>15. /\ Count(s_rbuf', Executions) <= Count(s_rbuf', Commands)
       /\ Count(s_rbuf', Executions) \in Nat /\ Count(s_rbuf', Commands) \in Nat
  BY <1>4, PlainCounts
<1>16. Reading' + c + d <= Reading
  <2>1. CASE Served
    <3>1. Reading = Count(s_rbuf, Commands) /\ c = Count(x.out, Confirmations)
      BY <1>2, <1>12, <2>1 DEF Reading
    <3>2. Reading' \in Nat /\ Reading' <= Count(s_rbuf', Commands)
      BY <1>15 DEF Reading
    <3>3. c + d <= Count(s_rbuf, Commands) - Count(s_rbuf', Commands)
      <4>1. CASE fr \in Commands
        BY <1>4, <1>6, <1>9, <1>11, <1>15, <3>1, <4>1
      <4>2. CASE fr \notin Commands
        BY <1>4, <1>6, <1>9, <1>11, <1>15, <3>1, <4>2
      <4>3. QED
        BY <4>1, <4>2
    <3>4. Count(s_rbuf, Commands) \in Nat
      BY <1>3, PlainCounts
    <3>5. QED
      BY <1>15, <3>1, <3>2, <3>3, <3>4
  <2>2. CASE ~Served
    <3>1. Reading = Count(s_rbuf, Executions) /\ c = 0
      BY <1>2, <1>12, <2>2 DEF Reading
    <3>2. Reading' \in Nat /\ Reading' <= Count(s_rbuf', Executions)
      BY <1>14, <1>15, <2>2 DEF Reading
    <3>3. Count(s_rbuf, Executions) = Count(s_rbuf', Executions) + d
      BY <1>4, <1>11
    <3>4. QED
      BY <1>15, <3>1, <3>2, <3>3
  <2>3. QED
    BY <2>1, <2>2
<1>17. QED
  BY <1>4, <1>6, <1>7, <1>12, <1>13, <1>16, SlavePassOnce

(* What the slave reads it may execute.                                    *)
LEMMA SlaveReads ==
  ASSUME TypeInv, TypeInv', LinkInv, OnceInv, SlaveStep, SlaveRecv
  PROVE  OnceInv'
<1>0. /\ UNCHANGED <<m_client, m_pc, m_rbuf, m_app, opened>> /\ s_client' = s_client /\ s_pc = "recv"
      /\ Hand' = Hand /\ Answering' = Answering /\ opened' = opened
  BY SlaveRest, MasterSame DEF SlaveRecv
<1>1. /\ PlainQueues /\ OnceTypes /\ NetPlain(net) /\ m_rbuf \in Seq(Told(AnyCommand))
      /\ execs + Hand + Reading + Behind + Travelling + Answering <= opened
  BY OnceTyped DEF OnceInv, PlainQueues
<1>2. execs' = execs
  BY <1>0, NotExecuted DEF SlaveStep
<1>3. CASE s_pc' = "state_machine" /\ UNCHANGED <<net, s_rbuf>>
  <2>1. /\ PlainQueues' /\ Reading' = Reading /\ Behind' = Behind /\ Travelling' = Travelling
    BY <1>0, <1>1, <1>3 DEF PlainQueues, NetPlain, Served, Reading, Behind, Travelling
  <2>2. QED
    BY <1>0, <1>1, <1>2, <2>1 DEF OnceInv
<1>4. CASE \E k \in 1 .. Len(SlaveInbox) :
             /\ s_rbuf' = SubSeq(SlaveInbox, 1, k)
             /\ net' = [net EXCEPT ![s_client].up = SubSeq(@, k + 1, Len(@))]
             /\ s_pc' = "parse"
  <2>1. PICK k \in 1 .. Len(SlaveInbox) :
             /\ s_rbuf' = SubSeq(SlaveInbox, 1, k)
             /\ net' = [net EXCEPT ![s_client].up = SubSeq(@, k + 1, Len(@))]
             /\ s_pc' = "parse"
    BY <1>4
  <2>2. s_client \in Conns /\ s_client # NoConn /\ m_client \in Conns \cup {NoConn}
    BY <2>1 DEF SlaveInbox, TypeInv, LinkTypes, Ends
  <2>3. DOMAIN net = Conns /\ DOMAIN net[s_client] = Fields
    BY <2>2 DEF TypeInv, LinkTypes, NetOK, ConnRecord, Fields
  <2> DEFINE u == net[s_client].up
             a == SubSeq(u, 1, k)
             b == SubSeq(u, k + 1, Len(u))
  <2>4. /\ k \in 1 .. Len(u) /\ s_rbuf' = a /\ net'[s_client].up = b
        /\ \A c \in Conns : c # s_client => net'[c] = net[c]
        /\ \A c \in Conns : net'[c].down = net[c].down
    BY <2>1, <2>2, <2>3 DEF SlaveInbox, Fields
  <2>5. u \in Seq(Plain) /\ u \in Seq(Frames)
    <3>1. u \in Seq(Plain)
      BY <1>1, <2>2 DEF NetPlain
    <3> HIDE DEF u
    <3>2. QED
      BY <3>1, OnlyFrames DEF Plain
  <2> HIDE DEF u
  <2>6. a \in Seq(Plain) /\ b \in Seq(Plain)
    BY <2>4, <2>5
  <2>7. \A S : Count(a, S) + Count(b, S) = Count(u, S)
    BY <2>4, <2>5, CountRead
  <2> HIDE DEF a, b
  <2>8. PlainQueues'
    BY <1>0, <1>1, <2>4, <2>6 DEF PlainQueues, NetPlain
  <2>9. OnceTypes'
    BY <2>8, OnceTypedNext
  <2>10. Reading = 0
    BY <1>0 DEF Reading
  <2>11. \A S : Count(a, S) \in Nat /\ Count(b, S) \in Nat /\ Count(u, S) \in Nat
    BY <2>5, <2>6, PlainCounts
  <2>12. CASE m_client = s_client
    <3>1. Behind' = Behind
      BY <1>0, <2>12 DEF Behind
    <3>2. /\ Reading' = Count(a, Commands)
          /\ Travelling = Count(u, Commands) + Count(net[m_client].down, Confirmations)
          /\ Travelling' = Count(b, Commands) + Count(net[m_client].down, Confirmations)
      BY <1>0, <2>1, <2>2, <2>4, <2>12 DEF Reading, Served, Travelling, u
    <3>3. Count(net[m_client].down, Confirmations) \in Nat
      BY <1>1, <2>2, <2>12, PlainCounts DEF NetPlain
    <3>4. Reading' + Travelling' = Reading + Travelling
      BY <2>7, <2>10, <2>11, <3>2, <3>3
    <3>5. execs' + Hand' + Reading' + Behind' + Travelling' + Answering' <= opened'
      BY <1>0, <1>1, <1>2, <2>9, <3>1, <3>4, SumKept, Zenon
    <3>6. QED
      BY <2>8, <3>5 DEF OnceInv
  <2>13. CASE m_client # s_client
    <3>1. Travelling' = Travelling
      BY <1>0, <2>2, <2>4, <2>13 DEF Travelling
    <3>2. Behind = Count(u, Executions) /\ Behind' = Count(b, Executions) /\ Reading' = Count(a, Executions)
      BY <1>0, <2>1, <2>2, <2>4, <2>13 DEF Behind, Reading, Served, u
    <3>3. Reading' + Behind' = Reading + Behind
      BY <2>7, <2>10, <2>11, <3>2
    <3>4. execs' + Hand' + Reading' + Behind' + Travelling' + Answering' <= opened'
      BY <1>0, <1>1, <1>2, <2>9, <3>1, <3>3, SumKept, Zenon
    <3>5. QED
      BY <2>8, <3>4 DEF OnceInv
  <2>14. QED
    BY <2>12, <2>13
<1>5. QED
  BY <1>3, <1>4 DEF SlaveRecv

(* What a closed or a cut connection carried is lost.                      *)
LEMMA QueuesLost ==
  ASSUME TypeInv, TypeInv', OnceInv, NetPlain(net'), execs' = execs,
         UNCHANGED <<m_client, m_pc, m_rbuf, m_app, opened, s_pc, s_rbuf>>,
         s_client' = s_client \/ s_client' = NoConn,
         \A c \in Conns : /\ net'[c].up = net[c].up \/ net'[c].up = <<>>
                          /\ net'[c].down = net[c].down \/ net'[c].down = <<>>
  PROVE  OnceInv'
<1>0. Hand' = Hand /\ Answering' = Answering /\ opened' = opened
  BY MasterSame
<1>1. /\ PlainQueues /\ OnceTypes /\ NetPlain(net)
      /\ m_client \in Conns \cup {NoConn} /\ s_client \in Conns \cup {NoConn}
      /\ execs + Hand + Reading + Behind + Travelling + Answering <= opened
  BY OnceTyped DEF OnceInv, PlainQueues, TypeInv, LinkTypes, Ends
<1>2. PlainQueues' /\ OnceTypes'
  <2>1. PlainQueues'
    BY <1>1 DEF PlainQueues, NetPlain
  <2>2. QED
    BY <2>1, OnceTypedNext
<1>3. Reading' <= Reading
  <2>1. Served' => Served
    BY DEF Served
  <2>2. QED
    BY <1>1, <2>1, ReadingKept
<1>4. \A c \in Conns : \A S :
        /\ Count(net[c].up, S) \in Nat /\ Count(net'[c].up, S) \in Nat
        /\ Count(net[c].down, S) \in Nat /\ Count(net'[c].down, S) \in Nat
        /\ Count(net'[c].up, S) <= Count(net[c].up, S)
        /\ Count(net'[c].down, S) <= Count(net[c].down, S)
  <2> SUFFICES ASSUME NEW c \in Conns, NEW S
               PROVE  /\ Count(net[c].up, S) \in Nat /\ Count(net'[c].up, S) \in Nat
                      /\ Count(net[c].down, S) \in Nat /\ Count(net'[c].down, S) \in Nat
                      /\ Count(net'[c].up, S) <= Count(net[c].up, S)
                      /\ Count(net'[c].down, S) <= Count(net[c].down, S)
    OBVIOUS
  <2>1. Count(net[c].up, S) \in Nat /\ Count(net[c].down, S) \in Nat
    BY <1>1, PlainCounts DEF NetPlain
  <2>2. /\ Count(net'[c].up, S) = Count(net[c].up, S) \/ Count(net'[c].up, S) = 0
        /\ Count(net'[c].down, S) = Count(net[c].down, S) \/ Count(net'[c].down, S) = 0
    BY CountEmpty, Zenon
  <2>3. QED
    BY <2>1, <2>2
<1>5. Behind' <= Behind
  <2>1. CASE s_client' = NoConn \/ s_client = m_client
    <3>1. Behind' = 0
      BY <2>1 DEF Behind
    <3>2. QED
      BY <1>1, <3>1 DEF OnceTypes
  <2>2. CASE s_client' # NoConn /\ s_client # m_client
    BY <1>1, <1>4, <2>2 DEF Behind
  <2>3. QED
    BY <2>1, <2>2
<1>6. Travelling' <= Travelling
  <2>1. CASE m_client = NoConn
    BY <2>1 DEF Travelling
  <2>2. CASE m_client # NoConn
    <3>1. /\ Travelling = Count(net[m_client].up, Commands) + Count(net[m_client].down, Confirmations)
          /\ Travelling' = Count(net'[m_client].up, Commands) + Count(net'[m_client].down, Confirmations)
      BY <2>2 DEF Travelling
    <3>2. m_client \in Conns
      BY <1>1, <2>2
    <3>3. /\ Count(net[m_client].up, Commands) \in Nat /\ Count(net'[m_client].up, Commands) \in Nat
          /\ Count(net[m_client].down, Confirmations) \in Nat
          /\ Count(net'[m_client].down, Confirmations) \in Nat
          /\ Count(net'[m_client].up, Commands) <= Count(net[m_client].up, Commands)
          /\ Count(net'[m_client].down, Confirmations) <= Count(net[m_client].down, Confirmations)
      BY <1>4, <3>2
    <3>4. QED
      BY <3>1, <3>3
  <2>3. QED
    BY <2>1, <2>2
<1>7. execs' + Hand' + Reading' + Behind' + Travelling' + Answering' <= opened'
  BY <1>0, <1>1, <1>2, <1>3, <1>5, <1>6, SumKept, Zenon
<1>8. QED
  BY <1>2, <1>7 DEF OnceInv

(* The accept thread; what it installs carries no execution yet.           *)
LEMMA AcceptOnce ==
  ASSUME TypeInv, TypeInv', LinkInv, OnceInv, SlaveStep, AcceptClient
  PROVE  OnceInv'
<1> DEFINE n == [net EXCEPT ![Head(backlog)].slv = "open"]
<1>1. /\ net' = SlaveClosed(n, s_client) /\ s_client' = NoConn /\ UNCHANGED <<s_pc, s_rbuf>>
      /\ UNCHANGED <<m_client, m_pc, m_rbuf, m_app, opened>>
  BY SlaveRest DEF AcceptClient, slaveVars
<1>2. execs' = execs
  BY <1>1, NotExecuted DEF SlaveStep
<1>3. /\ DOMAIN net = Conns /\ \A d \in Conns : DOMAIN net[d] = Fields
      /\ s_client \in Conns \cup {NoConn} /\ NetPlain(net)
  BY DEF LinkInv, Shaped, Held, OnceInv, PlainQueues
<1>4. /\ DOMAIN n = Conns /\ \A d \in Conns : DOMAIN n[d] = Fields
      /\ \A d \in Conns : n[d].up = net[d].up /\ n[d].down = net[d].down
  BY <1>3, Zenon DEF Fields
<1> HIDE DEF n
<1>5. NetPlain(net')
  <2>1. Shaped(n) /\ NetPlain(n)
    BY <1>3, <1>4 DEF Shaped, NetPlain
  <2>2. QED
    BY <1>1, <1>3, <2>1, PlainClosed
<1>6. \A d \in Conns : /\ net'[d].up = net[d].up \/ net'[d].up = <<>>
                       /\ net'[d].down = net[d].down \/ net'[d].down = <<>>
  <2>1. Fresh.up = <<>> /\ Fresh.down = <<>>
    BY DEF Fresh
  <2>2. \A d \in Conns : /\ net'[d].up = n[d].up \/ net'[d].up = <<>>
                         /\ net'[d].down = n[d].down \/ net'[d].down = <<>>
    BY <1>1, <1>4, <2>1, Zenon DEF SlaveClosed, Fields
  <2>3. QED
    BY <1>4, <2>2
<1>7. QED
  BY <1>1, <1>2, <1>5, <1>6, QueuesLost

LEMMA InstallOnce ==
  ASSUME SleepOutlastsParse, TypeInv, TypeInv', LinkInv, CmdInv, OnceInv, SlaveStep, AcceptInstall
  PROVE  OnceInv'
<1>0. /\ UNCHANGED <<net, s_pc, s_rbuf>> /\ s_client' = acc.tcp /\ acc.pc = "install" /\ s_client = NoConn
      /\ UNCHANGED <<m_client, m_pc, m_rbuf, m_app, opened>>
      /\ Hand' = Hand /\ Answering' = Answering /\ opened' = opened
  BY SlaveRest, MasterSame DEF AcceptInstall, slaveVars, LinkInv, Held
<1>1. /\ PlainQueues /\ OnceTypes /\ NetPlain(net) /\ s_rbuf \in Seq(Plain) /\ m_rbuf \in Seq(Told(AnyCommand))
      /\ execs + Hand + Reading + Behind + Travelling + Answering <= opened
  BY OnceTyped DEF OnceInv, PlainQueues
<1>2. execs' = execs
  BY <1>0, NotExecuted DEF SlaveStep
<1>3. s_pc # "parse"
  BY <1>0 DEF CmdInv, Orphaned
<1>4. acc.tcp \in Conns /\ Pending(acc.tcp)
  BY <1>0, Pointers DEF Pending, LinkInv, Held
<1>5. Count(net[acc.tcp].up, Executions) = 0
  <2>1. net[acc.tcp].up \in Seq(Asked({}))
    BY <1>4 DEF CmdInv, Queued, Waits
  <2>2. QED
    BY <2>1, PlainFrames, NoneCounted
<1>6. /\ PlainQueues' /\ Reading' = 0 /\ Behind' = 0 /\ Travelling' = Travelling /\ Reading = 0
  BY <1>0, <1>1, <1>3, <1>5 DEF PlainQueues, NetPlain, Reading, Behind, Travelling
<1>7. OnceTypes'
  BY <1>6, OnceTypedNext
<1>8. Reading' <= Reading /\ Behind' <= Behind /\ Travelling' <= Travelling
  BY <1>1, <1>6 DEF OnceTypes
<1>9. execs' + Hand' + Reading' + Behind' + Travelling' + Answering' <= opened'
  BY <1>0, <1>1, <1>2, <1>7, <1>8, SumKept, Zenon
<1>10. QED
  BY <1>6, <1>9 DEF OnceInv

LEMMA SlaveOnce ==
  ASSUME SleepOutlastsParse, TypeInv, TypeInv', LinkInv, MasterLinked, CmdInv, OnceInv, SlaveStep
  PROVE  OnceInv'
<1>0. /\ PlainQueues /\ OnceTypes /\ s_rbuf \in Seq(Plain) /\ UNCHANGED <<m_client, m_pc, m_rbuf, m_app, opened>>
      /\ (s_pc = "parse" => s_rbuf' = s_rbuf) => execs' = execs
  <2>1. PlainQueues /\ OnceTypes
    BY OnceTyped DEF OnceInv
  <2>2. Record
    BY DEF SlaveStep
  <2>3. QED
    BY <2>1, <2>2, SlaveRest, NotExecuted DEF PlainQueues
<1>1. CASE SlaveStateMachine
  <2> DEFINE q == iec104_s_state_machine(Work).out
  <2>1. q \in Seq(Told(AnyCommand)) /\ Count(q, Confirmations) = 0
    BY WorkReady, SlaveMachineConfirms
  <2>2. SlaveWrote(q) /\ s_pc = "state_machine" /\ s_pc' = "recv" /\ s_rbuf' = s_rbuf
    BY <1>1 DEF SlaveStateMachine, SlaveInstall, SlaveWrote
  <2> HIDE DEF q
  <2>3. Reading = 0 /\ Reading' = 0 /\ s_rbuf' \in Seq(Plain) /\ execs' = execs
    BY <1>0, <2>2 DEF Reading
  <2>4. PICK c \in Nat, d \in Nat : c = 0 /\ d = 0
    OBVIOUS
  <2>5. /\ c = IF Served THEN Count(q, Confirmations) ELSE 0
        /\ execs' <= execs + d /\ Reading' + c + d <= Reading
    BY <1>0, <2>1, <2>3, <2>4 DEF OnceTypes
  <2>6. QED
    BY <2>1, <2>2, <2>3, <2>5, SlavePassOnce
<1>2. CASE SponSend
  <2>1. /\ SlaveWrote(<<s_app.fr>>) /\ UNCHANGED <<s_pc, s_rbuf, s_client>>
    BY <1>2 DEF SponSend, SlaveWrote
  <2>2. s_app.fr \in Told(AnyCommand) /\ s_app.fr \notin Confirmations
    <3>1. s_app.fr \in Told({})
      BY DEF CmdInv, Steady
    <3>2. Told({}) \subseteq Told(AnyCommand)
      BY DEF Told
    <3>3. QED
      BY <3>1, <3>2, PlainFrames
  <2>3. PICK q \in Seq(Told(AnyCommand)) : q = <<s_app.fr>> /\ Len(q) = 1 /\ q[1] = s_app.fr
    BY <2>2, Singletons
  <2>4. Count(q, Confirmations) = 0
    <3>1. Len(q) = 1 /\ q[1] \notin Confirmations
      BY <2>2, <2>3
    <3>2. QED
      BY <3>1, CountOne, Zenon
  <2>5. SlaveWrote(q)
    BY <2>1, <2>3, Zenon
  <2>6. Reading' = Reading /\ s_rbuf' \in Seq(Plain) /\ execs' = execs
    BY <1>0, <2>1 DEF Reading, Served
  <2>7. PICK c \in Nat, d \in Nat : c = 0 /\ d = 0
    OBVIOUS
  <2>8. /\ c = IF Served THEN Count(q, Confirmations) ELSE 0
        /\ execs' <= execs + d /\ Reading' + c + d <= Reading
    BY <1>0, <2>4, <2>6, <2>7 DEF OnceTypes
  <2>9. QED
    BY <2>5, <2>6, <2>8, SlavePassOnce
<1>3. CASE SponBegin \/ SponPut \/ AcceptWake \/ AcceptConnected
  <2>1. UNCHANGED <<net, s_client, s_pc, s_rbuf>>
    BY <1>3 DEF SponBegin, SponPut, AcceptWake, AcceptConnected, linkVars, slaveVars
  <2>2. QED
    BY <1>0, <2>1, OnceQuiet
<1>4. CASE SlaveParse \/ SlaveRecv \/ AcceptClient \/ AcceptInstall
  BY <1>4, ParseOnce, SlaveReads, AcceptOnce, InstallOnce
<1>5. QED
  BY <1>1, <1>2, <1>3, <1>4 DEF SlaveStep, SlaveExec, SlaveAccept, SlaveApp

LEMMA OnceNext ==
  ASSUME SleepOutlastsParse, TypeInv, TypeInv', SocketInv, CmdInv, OnceInv, [Next]_vars
  PROVE  OnceInv'
<1>0. LinkInv /\ MasterLinked
  BY DEF SocketInv
<1>1. CASE MasterStep
  BY <1>0, <1>1, MasterOnce
<1>2. CASE SlaveStep
  BY <1>0, <1>2, SlaveOnce
<1>3. CASE Cut
  <2>1. PICK c \in Conns : LinkCut(c)
    BY <1>3 DEF Cut
  <2>2. UNCHANGED <<m_client, s_client, m_pc, m_rbuf, m_app, opened, s_pc, s_rbuf>> /\ Record
    <3>1. UNCHANGED <<m_client, s_client, m_pc, m_rbuf, m_app, s_pc, s_rbuf>> /\ Record
      BY <1>3, <2>1 DEF Cut, masterVars, slaveVars, LinkCut
    <3>2. QED
      BY <3>1, NotOpened
  <2>3. execs' = execs
    BY <2>2, NotExecuted
  <2>4. \A d \in Conns : /\ net'[d].up = net[d].up \/ net'[d].up = <<>>
                         /\ net'[d].down = net[d].down \/ net'[d].down = <<>>
    <3>1. DOMAIN net = Conns /\ DOMAIN net[c] = Fields
      BY <1>0 DEF LinkInv, Shaped
    <3>2. net' = [net EXCEPT ![c].cut = TRUE, ![c].up = <<>>, ![c].down = <<>>]
      BY <2>1 DEF LinkCut
    <3>3. /\ \A d \in Conns : d # c => net'[d] = net[d]
          /\ net'[c].up = <<>> /\ net'[c].down = <<>>
      BY <3>1, <3>2, Zenon DEF Fields
    <3>4. QED
      BY <3>3, Zenon
  <2>5. NetPlain(net')
    <3>1. <<>> \in Seq(Plain) /\ <<>> \in Seq(Told(AnyCommand))
      BY EmptySeq
    <3>2. QED
      BY <2>4, <3>1, Zenon DEF OnceInv, PlainQueues, NetPlain
  <2>6. QED
    BY <2>2, <2>3, <2>4, <2>5, QueuesLost
<1>4. CASE Tick \/ UNCHANGED vars
  <2>1. UNCHANGED <<net, m_client, s_client, m_pc, m_rbuf, s_pc, s_rbuf, m_app>>
    BY <1>4 DEF Tick, vars, linkVars, masterVars, slaveVars
  <2>2. execs' = execs /\ opened' = opened
    <3>1. CASE Tick
      BY <2>1, <3>1, NotExecuted, NotOpened DEF Tick
    <3>2. CASE UNCHANGED vars
      BY <3>2 DEF vars, histVars
    <3>3. QED
      BY <1>4, <3>1, <3>2
  <2>3. QED
    BY <2>1, <2>2, OnceQuiet
<1>5. QED
  BY <1>1, <1>2, <1>3, <1>4 DEF Next

LEMMA OnceStart == Init => OnceInv
<1> SUFFICES ASSUME Init PROVE OnceInv
  OBVIOUS
<1>1. /\ s_client = NoConn /\ m_client = NoConn /\ s_pc = "state_machine" /\ m_pc = "recv"
      /\ m_rbuf = <<>> /\ s_rbuf = <<>> /\ execs = 0 /\ opened = 0 /\ m_app.pc = "idle"
      /\ net = [c \in Conns |-> Fresh]
  BY DEF Init, LinkInit, SlaveInit, MasterInit, CmdIdle
<1>2. Hand = 0 /\ Reading = 0 /\ Behind = 0 /\ Travelling = 0 /\ Answering = 0
  BY <1>1 DEF Hand, Reading, Behind, Travelling, Answering
<1>3. PlainQueues
  <2>1. <<>> \in Seq(Plain) /\ <<>> \in Seq(Told(AnyCommand)) /\ Fresh.up = <<>> /\ Fresh.down = <<>>
    BY EmptySeq DEF Fresh
  <2>2. NetPlain(net)
    BY <1>1, <2>1, Zenon DEF NetPlain
  <2>3. QED
    BY <1>1, <2>1, <2>2, Zenon DEF PlainQueues
<1>4. QED
  BY <1>1, <1>2, <1>3 DEF OnceInv

(* iec104_s_asdu_yk passes no open command (C_SC with sco 0) to set_val_cb *)
(* more often than the application gave one, whatever is lost, repeated or *)
(* reconnected, and whatever other commands are under way.  For those      *)
(* there is no such bound: iec104_m_asdu_yk tests sco && 0x80, and         *)
(* iec104_m_asdu_yt nothing, so that the confirmation of an execution is   *)
(* answered by another one.                                                *)
THEOREM CommandsExecutedOnce == SleepOutlastsParse => (Spec => []ExecutedOnce)
<1>1. TypeInv /\ OnceInv => ExecutedOnce
  <2> SUFFICES ASSUME TypeInv, OnceInv PROVE execs <= opened
    BY DEF ExecutedOnce
  <2>1. OnceTypes
    BY OnceTyped DEF OnceInv
  <2>2. PICK h \in {0, 1}, r \in Nat, b \in Nat, t \in Nat, a \in Nat, e \in Nat, n \in Nat :
          /\ h = Hand /\ r = Reading /\ b = Behind /\ t = Travelling /\ a = Answering
          /\ e = execs /\ n = opened
    BY <2>1 DEF OnceTypes
  <2>3. e + h + r + b + t + a <= n
    BY <2>2, Zenon DEF OnceInv
  <2>4. e <= n
    BY <2>3
  <2>5. QED
    BY <2>2, <2>4, Zenon
<1>2. Init => TypeInv /\ SocketInv /\ CmdInv /\ OnceInv
  BY TypeStart, SocketStart, CmdStart, OnceStart
<1>3. SUFFICES ASSUME SleepOutlastsParse PROVE Spec => []ExecutedOnce
  OBVIOUS
<1>4. TypeInv /\ SocketInv /\ CmdInv /\ OnceInv /\ [Next]_vars => (TypeInv /\ SocketInv /\ CmdInv /\ OnceInv)'
  <2> SUFFICES ASSUME TypeInv, SocketInv, CmdInv, OnceInv, [Next]_vars
               PROVE  TypeInv' /\ SocketInv' /\ CmdInv' /\ OnceInv'
    OBVIOUS
  <2>1. TypeInv' /\ SocketInv' /\ CmdInv'
    BY <1>3, TypeNext, SocketNext, CmdNext
  <2>2. QED
    BY <1>3, <2>1, OnceNext
<1>5. QED
  BY <1>1, <1>2, <1>4, PTL DEF Spec

=============================================================================
