-------------------------- MODULE Iec104sPeerProofs --------------------------
(***************************************************************************)
(* The IEC 104 slave against any number of peers, any frames from STARTDT  *)
(* to STOPDT, node lists, periods and clock commands: it leaks no          *)
(* connection, its types hold,                                             *)
(* N(R) belongs to the connection it is sent on, and the I frames of a     *)
(* connection are numbered from zero.  The last two when the sleep of the  *)
(* accept callback outlasts a pass of the exec thread.                     *)
(*                                                                         *)
(* None is inductive.  For the numbers is needed where the frames in       *)
(* recv_buf come from (Reading), that nothing follows STOPDT on a          *)
(* connection (StopsLast), that nothing but STARTDT is the first frame of  *)
(* one that has not been served yet (Beginning, Starting), and the number  *)
(* the application thread has in hand (Reporting).                         *)
(***************************************************************************)
EXTENDS Iec104sPeer, Iec104sProofs

-----------------------------------------------------------------------------
(* The peers and the network.                                              *)
LEMMA PeerInv ==
  ASSUME LinkInv, NEW c \in Conns,
         PeerConnect(c) \/ PeerRead(c) \/ PeerClose(c) \/ LinkCut(c)
           \/ \E fr \in PeerFrames : PeerSend(c, fr)
  PROVE  LinkInv'
<1>0. Shaped(net) /\ backlog \in Seq(Conns)
  BY DEF LinkInv
<1>1. CASE PeerConnect(c)
  <2>1. /\ net[c].mst = "none" /\ net[c].slv = "none"
        /\ net' = [net EXCEPT ![c].mst = "open"] /\ backlog' = Append(backlog, c)
        /\ s_client' = s_client /\ acc' = acc
    BY <1>1 DEF PeerConnect, Fresh
  <2>2. /\ Shaped(net') /\ net'[c].mst = "open" /\ net'[c].slv = "none"
        /\ \A d \in Conns : d # c => net'[d] = net[d]
    BY <1>0, <2>1 DEF Shaped, Fields
  <2>3. QED
    BY <2>1, <2>2, ConnectInv
<1>2. CASE PeerRead(c)
  <2>1. Shaped(net') /\ SameEnds(net', net)
    BY <1>0, <1>2 DEF PeerRead, Shaped, SameEnds, Fields
  <2>2. QED
    BY <1>2, <2>1, SameEndsInv DEF PeerRead
<1>3. CASE PeerClose(c)
  <2>1. SameEnds(net, net)
    BY DEF SameEnds
  <2>2. QED
    BY <1>0, <1>3, <2>1, OtherCloses DEF PeerClose
<1>4. CASE LinkCut(c)
  BY <1>4, CutInv
<1>5. CASE \E fr \in PeerFrames : PeerSend(c, fr)
  <2>1. PICK fr \in PeerFrames : PeerSend(c, fr)
    BY <1>5
  <2>2. Shaped(net') /\ SameEnds(net', net)
    BY <1>0, <2>1, SentKeeps DEF PeerSend
  <2>3. QED
    BY <2>1, <2>2, SameEndsInv DEF PeerSend
<1>6. QED
  BY <1>1, <1>2, <1>3, <1>4, <1>5

-----------------------------------------------------------------------------
LEMMA LinkStart == PeerInit => LinkInv
BY LinkAssumption DEF PeerInit, LinkInit, LinkInv, Shaped, Fields, Fresh, Waiting, Held

LEMMA LinkNext == LinkInv /\ [Next]_vars => LinkInv'
<1> SUFFICES ASSUME LinkInv, [Next]_vars PROVE LinkInv'
  OBVIOUS
<1>1. CASE Peer \/ \E c \in Conns : LinkCut(c)
  BY <1>1, PeerInv DEF Peer
<1>2. CASE SlaveStep
  BY <1>2, ExecInv, AcceptInv DEF SlaveStep
<1>3. CASE PeerTick \/ UNCHANGED vars
  <2>1. UNCHANGED <<net, backlog, s_client, acc>>
    BY <1>3 DEF PeerTick, vars, linkVars
  <2>2. QED
    BY <2>1, SameEndsInv DEF LinkInv, SameEnds, Shaped
<1>4. QED
  BY <1>1, <1>2, <1>3 DEF Next

(* No peer, however it connects, disappears and returns, can make the      *)
(* slave lose the last pointer to an accepted connection: the accept       *)
(* callback closes the client it replaces and keeps the new one, and the   *)
(* exec thread drops port->client only when it has closed it.              *)
THEOREM NothingLeaked == Spec => []NoLeak
<1>1. LinkInv => NoLeak
  BY DEF LinkInv, Held, NoLeak
<1>2. QED
  BY <1>1, LinkStart, LinkNext, PTL DEF Spec

-----------------------------------------------------------------------------
(* Type correctness, variable by variable.                                 *)
PeerTypes ==
  /\ peer_sent \in 0 .. MaxPeer /\ phase \in [Conns -> {"new", "started", "stopped"}]
  /\ origin \in Ends /\ heard \in [Conns -> 0 .. SnMod] /\ got \in [Conns -> Sn]
  /\ race \in BOOLEAN

TypeInv == LinkTypes /\ SlaveTypes /\ PeerTypes

LEMMA TypeParts == TypeInv => TypeOK
BY Zenon DEF TypeInv, TypeOK, LinkTypeOK, LinkTypes, SlaveTypes, PeerTypes, NetOK, ConnRecord, Ends

(* The peers and the network.                                              *)
LEMMA PeerKeepsTypes ==
  ASSUME LinkTypes, PeerTypes, NEW c \in Conns,
         PeerConnect(c) \/ PeerRead(c) \/ PeerClose(c) \/ \E fr \in PeerFrames : PeerSend(c, fr)
  PROVE  (LinkTypes /\ PeerTypes)' /\ UNCHANGED slaveVars
<1>0. net[c] \in ConnRecord /\ \A r \in ConnRecord : NetOK([net EXCEPT ![c] = r])
  BY DEF LinkTypes, NetOK
<1>1. CASE PeerConnect(c)
  <2>1. [net[c] EXCEPT !.mst = "open"] \in ConnRecord
    BY <1>0 DEF ConnRecord, EndStates
  <2>2. net' = [net EXCEPT ![c] = [net[c] EXCEPT !.mst = "open"]]
    BY <1>1 DEF PeerConnect
  <2>3. NetOK(net')
    BY <1>0, <2>1, <2>2
  <2>4. backlog' \in Seq(Conns)
    BY <1>1 DEF PeerConnect, LinkTypes
  <2>5. LinkTypes'
    BY <1>1, <2>3, <2>4 DEF PeerConnect, LinkTypes
  <2>6. PeerTypes' /\ UNCHANGED slaveVars
    BY <1>1, SnRange DEF PeerConnect, PeerTypes, Ends
  <2>7. QED
    BY <2>5, <2>6
<1>2. CASE PeerRead(c)
  <2>1. net[c].down \in Seq(Frames) /\ net[c].down # <<>>
    BY <1>0, <1>2 DEF PeerRead, ConnRecord
  <2>2. [net[c] EXCEPT !.down = Tail(net[c].down)] \in ConnRecord
    <3>1. Tail(net[c].down) \in Seq(Frames)
      BY <2>1
    <3>2. QED
      BY <1>0, <3>1 DEF ConnRecord
  <2>3. net' = [net EXCEPT ![c] = [net[c] EXCEPT !.down = Tail(net[c].down)]]
    BY <1>2 DEF PeerRead
  <2>4. LinkTypes'
    BY <1>0, <1>2, <2>2, <2>3 DEF PeerRead, LinkTypes
  <2>5. got' \in [Conns -> Sn]
    <3>1. got[c] \in Sn /\ (got[c] + 1) % SnMod \in Sn
      BY SnRange DEF PeerTypes
    <3>2. QED
      BY <1>2, <3>1 DEF PeerRead, PeerTypes
  <2>6. PeerTypes' /\ UNCHANGED slaveVars
    BY <1>2, <2>5 DEF PeerRead, PeerTypes
  <2>7. QED
    BY <2>4, <2>6
<1>3. CASE PeerClose(c)
  <2>1. NetOK(net')
    BY <1>3, ClosedOK DEF PeerClose, LinkTypes
  <2>2. QED
    BY <1>3, <2>1 DEF PeerClose, LinkTypes, PeerTypes, peerVars
<1>4. CASE \E fr \in PeerFrames : PeerSend(c, fr)
  <2>1. PICK fr \in PeerFrames : PeerSend(c, fr)
    BY <1>4
  <2>2. <<fr>> \in Seq(Frames)
    BY PeerAssumption
  <2>3. NetOK(net')
    BY <2>1, <2>2, SentOK DEF PeerSend, LinkTypes
  <2>4. LinkTypes' /\ UNCHANGED slaveVars
    BY <2>1, <2>3 DEF PeerSend, LinkTypes
  <2>5. PeerTypes'
    BY <2>1, PeerAssumption DEF PeerSend, PeerTypes
  <2>6. QED
    BY <2>4, <2>5
<1>5. QED
  BY <1>1, <1>2, <1>3, <1>4

(* The history variables of a step of the slave.                           *)
LEMMA HistoryTypes == SlaveTypes /\ LinkTypes /\ PeerTypes /\ SlaveStep => PeerTypes'
<1> SUFFICES ASSUME SlaveTypes, LinkTypes, PeerTypes, SlaveStep PROVE PeerTypes'
  OBVIOUS
<1>1. UNCHANGED <<peer_sent, phase, got>>
  BY DEF SlaveStep, peerVars
<1>2. origin' \in Ends
  BY DEF SlaveStep, LinkTypes, PeerTypes
<1>3. heard' \in [Conns -> 0 .. SnMod]
  <2>1. CASE heard' = heard
    BY <2>1 DEF PeerTypes
  <2>2. CASE heard' # heard
    <3>1. /\ s_pc = "parse" /\ Head(s_rbuf).f = "I" /\ origin # NoConn
          /\ heard' = [heard EXCEPT ![origin] = Head(s_rbuf).ss + 1]
      BY <2>2 DEF SlaveStep
    <3>2. Head(s_rbuf) \in Frames
      BY <3>1, HeadTailProperties DEF SlaveTypes, SlaveTypeOK
    <3>3. Head(s_rbuf) \in IFrames
      BY <3>1, <3>2 DEF Frames, UFrames, SFrames
    <3>4. Head(s_rbuf).ss + 1 \in 0 .. SnMod
      BY <3>3, FrameAssumption DEF IFrames, Sn
    <3>5. QED
      BY <3>1, <3>4 DEF PeerTypes
  <2>3. QED
    BY <2>1, <2>2
<1>4. race' \in BOOLEAN
  BY Zenon DEF SlaveStep
<1>5. QED
  BY <1>1, <1>2, <1>3, <1>4 DEF PeerTypes

LEMMA TypeNext == TypeInv /\ [Next]_vars => TypeInv'
<1> SUFFICES ASSUME LinkTypes, SlaveTypes, PeerTypes, [Next]_vars
             PROVE  (LinkTypes /\ SlaveTypes /\ PeerTypes)'
  BY DEF TypeInv
<1>1. CASE Peer
  <2>1. (LinkTypes /\ PeerTypes)' /\ UNCHANGED slaveVars
    BY <1>1, PeerKeepsTypes DEF Peer
  <2>2. QED
    BY <2>1 DEF SlaveTypes, SlaveTypeOK, slaveVars
<1>2. CASE SlaveStep
  BY <1>2, ExecTypes, AcceptTypes, AppTypes, HistoryTypes DEF SlaveStep
<1>3. CASE PeerTick
  <2>1. UNCHANGED <<net, backlog, m_client, s_client, acc, s_pc, s_rbuf, s_app, s_serv, s_spon,
                    peer_sent, phase, got, origin, heard, race>>
    BY <1>3 DEF PeerTick, linkVars, peerVars
  <2>2. s' \in SlaveStation
    <3>1. \A a \in Ages : Older(a) \in Ages
      BY FrameAssumption DEF Ages, Older, MaxAge
    <3>2. QED
      BY <1>3, <3>1 DEF PeerTick, SlaveAged, SlaveTypes, SlaveTypeOK, SlaveStation
  <2>3. QED
    BY <2>1, <2>2 DEF LinkTypes, SlaveTypes, SlaveTypeOK, PeerTypes
<1>4. CASE \E c \in Conns : LinkCut(c) /\ UNCHANGED <<slaveVars, peerVars, origin, heard, race>>
  <2>1. LinkTypes'
    BY <1>4, CutKeepsTypes
  <2>2. QED
    BY <1>4, <2>1 DEF SlaveTypes, SlaveTypeOK, PeerTypes, slaveVars, peerVars
<1>5. CASE UNCHANGED vars
  BY <1>5 DEF vars, linkVars, slaveVars, peerVars, LinkTypes, SlaveTypes, SlaveTypeOK, PeerTypes
<1>6. QED
  BY <1>1, <1>2, <1>3, <1>4, <1>5 DEF Next

LEMMA TypeStart == PeerInit => TypeInv
<1> SUFFICES ASSUME PeerInit PROVE LinkTypes /\ SlaveTypes /\ PeerTypes
  BY DEF TypeInv
<1>1. LinkTypes
  <2>1. NetOK(net)
    BY FreshOK DEF PeerInit, LinkInit, NetOK
  <2>2. QED
    BY <2>1 DEF PeerInit, LinkInit, LinkTypes, Ends
<1>2. SlaveTypes
  <2>1. s \in SlaveStation
    <3>1. 0 \in Sn /\ 0 \in 0 .. SnMod /\ Epoch \in Ages
      BY SnRange, FrameAssumption DEF Ages, Epoch, MaxAge
    <3>2. QED
      BY <3>1 DEF PeerInit, SlaveInit, SlaveStation, LinkStates, TesterStates
  <2>2. s_app \in [pc : {"idle", "put", "send"}, sn : Sn, fr : Frames]
    BY FramesBuilt, SnRange DEF PeerInit, SlaveInit, AppIdle, UFuncs
  <2>3. QED
    BY <2>1, <2>2, SlaveAssumption DEF PeerInit, SlaveInit, SlaveTypes, SlaveTypeOK
<1>3. PeerTypes
  <2>1. 0 \in Sn /\ 0 \in 0 .. SnMod /\ 0 \in 0 .. MaxPeer
    BY SnRange, PeerAssumption
  <2>2. heard \in [Conns -> 0 .. SnMod] /\ got \in [Conns -> Sn]
    BY <2>1 DEF PeerInit
  <2>3. QED
    BY <2>1, <2>2 DEF PeerInit, PeerTypes, Ends
<1>4. QED
  BY <1>1, <1>2, <1>3

(* Every variable of the slave stays in its range for any peers and frames:*)
(* the numbers in their 15 bits, the ages within their saturation, and the *)
(* loop of iec104_s_frame_parse never takes a frame from an empty recv_buf.*)
THEOREM TypesHold == Spec => []TypeOK
BY TypeStart, TypeNext, TypeParts, PTL DEF Spec

-----------------------------------------------------------------------------
(* The order of the frames on a connection, and who has read them.         *)

(* Nothing has been read from c: STARTDT is first, or yet to come.         *)
Opening(c) ==
  \/ Len(net[c].up) > 0 /\ net[c].up[1] = STARTDT
  \/ Len(net[c].up) = 0 /\ (phase[c] = "new" \/ net[c].cut)

StopsLast ==
  \A c \in Conns : \A i \in 1 .. Len(net[c].up) :
    net[c].up[i] = STOPDT => i = Len(net[c].up) /\ phase[c] = "stopped"

Reading ==
  s_pc = "parse" =>
    /\ s_client # NoConn =>
         origin = s_client /\ \A i \in 1 .. Len(s_rbuf) : s_rbuf[i] = STOPDT => i = Len(s_rbuf)
    /\ s_client = NoConn => acc.pc = "sleep"
    /\ origin # NoConn => ~Pending(origin)

Beginning ==
  \A c \in Conns : Pending(c) =>
    Opening(c) /\ heard[c] = 0 /\ got[c] = 0 /\ Len(net[c].down) = 0

Starting ==
  /\ acc.pc = "install" => s.init \in {"INIT", "OPEN"} /\ s.build_recv = 0
  /\ s_client # NoConn => s.init # "DISCONNECT"
  /\ s_client # NoConn /\ s.init = "INIT" =>
       /\ s.build_recv = 0
       /\ s_pc = "parse" => s_rbuf[1] = STARTDT
       /\ s_pc # "parse" => Opening(s_client)

OrderInv == StopsLast /\ Reading /\ Beginning /\ Starting /\ AckCurrent

LEMMA WorkFacts == TypeInv => WorkOK(Work) /\ Work.st = s /\ Work.out = <<>> /\ ~Work.close
BY WorkTyped DEF TypeInv, Work

(* A pass of the exec thread touches no connection but its own.            *)
LEMMA PassKeepsOrder ==
  ASSUME TypeInv, LinkInv, OrderInv, NEW w, WorkOK(w), SlaveInstall(w),
         UNCHANGED <<backlog, acc, phase, got>>
  PROVE  /\ StopsLast'
         /\ \A c \in Conns : Pending(c)' <=> Pending(c)
         /\ \A c \in Conns : Pending(c) =>
              c # s_client /\ Opening(c)' /\ got'[c] = 0 /\ Len(net'[c].down) = 0
         /\ s_client' # NoConn => s_client' = s_client /\ net'[s_client].up = net[s_client].up
                                  /\ net'[s_client].cut = net[s_client].cut
<1>1. LinkTypes
  BY DEF TypeInv
<1>2. /\ \A c \in Conns : c # s_client => net'[c] = net[c]
      /\ s_client' = IF w.close THEN NoConn ELSE s_client
      /\ s_client # NoConn =>
           /\ ~w.close => net'[s_client].up = net[s_client].up /\ net'[s_client].cut = net[s_client].cut
           /\ w.close => net'[s_client].up = <<>>
  BY <1>1, InstallEffect
<1>3. \A c \in Conns : Pending(c)' <=> Pending(c)
  BY DEF Pending
<1>4. StopsLast'
  <2> SUFFICES ASSUME NEW c \in Conns, NEW i \in 1 .. Len(net'[c].up), net'[c].up[i] = STOPDT
               PROVE  i = Len(net'[c].up) /\ phase'[c] = "stopped"
    BY DEF StopsLast, STOPDT
  <2>1. c \in Conns => c # NoConn
    BY LinkAssumption
  <2>2. CASE net'[c].up = net[c].up
    BY <2>2 DEF OrderInv, StopsLast
  <2>3. CASE net'[c].up = <<>>
    BY <2>3
  <2>4. QED
    BY <1>2, <2>1, <2>2, <2>3
<1>5. \A c \in Conns : Pending(c) => c # s_client /\ net'[c] = net[c]
  BY <1>2, LinkAssumption, Pointers
<1>6. \A c \in Conns : Pending(c) => Opening(c)'
  BY <1>5 DEF OrderInv, Beginning, Opening, STARTDT
<1>7. QED
  BY <1>2, <1>3, <1>4, <1>5, <1>6 DEF OrderInv, Beginning

LEMMA StateMachineOrder ==
  ASSUME TypeInv, LinkInv, OrderInv, SlaveStateMachine, UNCHANGED <<phase, got, origin, heard>>
  PROVE  OrderInv'
<1> DEFINE w == iec104_s_state_machine(Work)
<1>0. WorkOK(Work) /\ Work.st = s /\ Work.out = <<>> /\ ~Work.close
  BY WorkFacts
<1>1. /\ WorkOK(w) /\ SlaveInstall(w) /\ s_pc' = "recv" /\ s_pc # "parse"
      /\ UNCHANGED <<backlog, acc, s_rbuf>>
  BY <1>0, StateMachineOK DEF SlaveStateMachine
<1>2. /\ s.init = "INIT" => w.st.init = "OPEN" /\ w.st.build_recv = 0
      /\ s.init = "OPEN" => w.st.init = "OPEN"
      /\ s.init # "INIT" => w.st.build_recv = s.build_recv
      /\ ~w.close /\ s.init # "DISCONNECT" => w.st.init \notin {"INIT", "DISCONNECT"}
  BY <1>0, StateMachineEffect
<1>3. s' = w.st /\ s_client' = IF w.close THEN NoConn ELSE s_client
  BY <1>1 DEF SlaveInstall
<1> HIDE DEF w
<1>4. /\ StopsLast' /\ (\A c \in Conns : Pending(c)' <=> Pending(c))
      /\ \A c \in Conns : Pending(c) =>
           c # s_client /\ Opening(c)' /\ got'[c] = 0 /\ Len(net'[c].down) = 0
  BY <1>1, PassKeepsOrder
<1>5. Beginning'
  BY <1>4 DEF OrderInv, Beginning
<1>6. Reading'
  BY <1>1 DEF Reading
<1>7. Starting' /\ AckCurrent'
  BY <1>1, <1>2, <1>3 DEF OrderInv, Starting, AckCurrent
<1>8. QED
  BY <1>4, <1>5, <1>6, <1>7 DEF OrderInv

LEMMA ParseOrder ==
  ASSUME TypeInv, LinkInv, OrderInv, SlaveParse, SlaveStep
  PROVE  OrderInv'
<1> DEFINE fr == Head(s_rbuf)
<1>0. WorkOK(Work) /\ Work.st = s /\ Work.out = <<>> /\ ~Work.close
  BY WorkFacts
<1>1. s_pc = "parse" /\ s_rbuf \in Seq(Frames) /\ s_rbuf # <<>>
  BY DEF SlaveParse, TypeInv, SlaveTypes, SlaveTypeOK
<1>2. /\ fr \in Frames /\ fr = s_rbuf[1] /\ Len(s_rbuf) \in Nat /\ Len(s_rbuf) >= 1
      /\ Len(Tail(s_rbuf)) = Len(s_rbuf) - 1
      /\ \A i \in 1 .. Len(s_rbuf) - 1 : Tail(s_rbuf)[i] = s_rbuf[i + 1]
  BY <1>1, HeadTailProperties, LenProperties
<1>3. PICK w \in iec104_s_frame_parse(Work, fr) : SlaveInstall(w)
  BY DEF SlaveParse
<1>4. /\ s_rbuf' = Tail(s_rbuf) /\ s_pc' = IF Len(s_rbuf) = 1 THEN "state_machine" ELSE "parse"
      /\ UNCHANGED <<backlog, acc>>
  BY DEF SlaveParse
<1>5. /\ UNCHANGED <<phase, got>> /\ origin' = origin
      /\ heard' = IF fr.f = "I" /\ fr.own /\ origin # NoConn
                  THEN [heard EXCEPT ![origin] = fr.ss + 1] ELSE heard
  BY <1>1, <1>4 DEF SlaveStep, peerVars
<1> HIDE DEF fr
<1>6. /\ w.close <=> fr = STOPDT
      /\ fr = STARTDT => w.st.init = "CONNECT_OK"
      /\ fr \notin {STARTDT, STOPDT} => w.st.init = s.init
      /\ w.st.build_recv = IF fr.f = "I" /\ fr.own THEN fr.ss + 1 ELSE s.build_recv
  BY <1>0, <1>2, <1>3, ParseEffect
<1>7. WorkOK(w)
  BY <1>0, <1>2, <1>3, ParseOK
<1>8. /\ StopsLast' /\ (\A c \in Conns : Pending(c)' <=> Pending(c))
      /\ \A c \in Conns : Pending(c) =>
           c # s_client /\ Opening(c)' /\ got'[c] = 0 /\ Len(net'[c].down) = 0
  BY <1>3, <1>4, <1>5, <1>7, PassKeepsOrder
<1>9. s' = w.st /\ s_client' = IF w.close THEN NoConn ELSE s_client
  BY <1>3 DEF SlaveInstall
<1>10. origin \in Ends /\ heard \in [Conns -> 0 .. SnMod]
  BY DEF TypeInv, PeerTypes
<1>11. Beginning'
  <2> SUFFICES ASSUME NEW c \in Conns, Pending(c) PROVE heard'[c] = 0
    BY <1>8 DEF Beginning
  <2>1. heard[c] = 0 /\ c # origin
    BY <1>1, LinkAssumption DEF OrderInv, Beginning, Reading
  <2>2. QED
    BY <1>5, <1>10, <2>1
<1>12. Reading'
  <2>1. \A c \in Conns \cup {NoConn} : c # NoConn => (Pending(c)' <=> Pending(c))
    BY <1>8
  <2>2. origin' # NoConn => ~Pending(origin)'
    BY <1>1, <1>5, <1>10, <2>1 DEF OrderInv, Reading, Ends
  <2>3. ASSUME s_pc' = "parse", s_client' # NoConn
        PROVE  /\ origin' = s_client'
               /\ \A i \in 1 .. Len(s_rbuf') : s_rbuf'[i] = STOPDT => i = Len(s_rbuf')
    <3>1. s_client' = s_client /\ s_client # NoConn
      BY <1>9, <2>3
    <3>2. origin = s_client /\ \A i \in 1 .. Len(s_rbuf) : s_rbuf[i] = STOPDT => i = Len(s_rbuf)
      BY <1>1, <3>1 DEF OrderInv, Reading
    <3>3. \A i \in 1 .. Len(s_rbuf) - 1 : i + 1 \in 1 .. Len(s_rbuf) /\ (i + 1 = Len(s_rbuf) => i = Len(s_rbuf) - 1)
      BY <1>2
    <3>4. QED
      BY <1>2, <1>4, <1>5, <3>1, <3>2, <3>3
  <2>4. ASSUME s_pc' = "parse", s_client' = NoConn PROVE acc'.pc = "sleep"
    <3>1. s_client = NoConn
      <4>1. CASE fr = STOPDT /\ s_client # NoConn
        <5>1. 1 \in 1 .. Len(s_rbuf) /\ s_rbuf[1] = STOPDT
          BY <1>2, <4>1
        <5>2. \A i \in 1 .. Len(s_rbuf) : s_rbuf[i] = STOPDT => i = Len(s_rbuf)
          BY <1>1, <4>1 DEF OrderInv, Reading
        <5>3. QED
          BY <1>4, <2>4, <5>1, <5>2
      <4>2. QED
        BY <1>6, <1>9, <2>4, <4>1
    <3>2. QED
      BY <1>1, <1>4, <3>1 DEF OrderInv, Reading
  <2>5. QED
    BY <2>2, <2>3, <2>4 DEF Reading, STOPDT
<1>13. Starting' /\ AckCurrent'
  <2>1. CASE s_client = NoConn
    <3>1. acc.pc = "sleep" /\ s_client' = NoConn
      BY <1>1, <1>9, <2>1 DEF OrderInv, Reading
    <3>2. QED
      BY <1>4, <3>1 DEF Starting, AckCurrent
  <2>2. CASE s_client # NoConn /\ w.close
    <3>1. s_client' = NoConn /\ acc.pc = "accept"
      BY <1>9, <2>2, Pointers
    <3>2. QED
      BY <1>4, <3>1 DEF Starting, AckCurrent
  <2>3. CASE s_client # NoConn /\ ~w.close
    <3>1. s_client' = s_client /\ acc.pc = "accept" /\ s_client \in Conns /\ origin = s_client
      BY <1>1, <1>9, <2>3, Pointers DEF OrderInv, Reading
    <3>2. s.init # "DISCONNECT" /\ (s.init = "INIT" => fr = STARTDT)
      BY <1>1, <1>2, <2>3 DEF OrderInv, Starting
    <3>3. s'.init \notin {"INIT", "DISCONNECT"}
      BY <1>6, <1>9, <2>3, <3>2
    <3>4. s'.build_recv = heard'[s_client]
      <4>1. s.build_recv = heard[s_client]
        BY <2>3 DEF OrderInv, AckCurrent
      <4>2. QED
        BY <1>5, <1>6, <1>9, <1>10, <2>3, <3>1, <4>1
    <3>5. QED
      BY <1>4, <3>1, <3>3, <3>4 DEF Starting, AckCurrent
  <2>4. QED
    BY <2>1, <2>2, <2>3
<1>14. QED
  BY <1>8, <1>11, <1>12, <1>13 DEF OrderInv

LEMMA RecvOrder ==
  ASSUME TypeInv, LinkInv, OrderInv, SlaveRecv, SlaveStep
  PROVE  OrderInv'
<1>0. s_pc = "recv" /\ UNCHANGED <<backlog, s_client, acc, s, phase, got, heard>>
  BY DEF SlaveRecv, SlaveStep, peerVars
<1>1. CASE \E k \in 1 .. Len(SlaveInbox) :
             /\ s_rbuf' = SubSeq(SlaveInbox, 1, k)
             /\ net' = [net EXCEPT ![s_client].up = SubSeq(@, k + 1, Len(@))]
             /\ s_pc' = "parse"
  <2>1. PICK k \in 1 .. Len(SlaveInbox) :
             /\ s_rbuf' = SubSeq(SlaveInbox, 1, k)
             /\ net' = [net EXCEPT ![s_client].up = SubSeq(@, k + 1, Len(@))]
             /\ s_pc' = "parse"
    BY <1>1
  <2> DEFINE c == s_client
             q == net[c].up
  <2>2. c \in Conns /\ c # NoConn /\ SlaveInbox = q
    BY <2>1 DEF SlaveInbox, TypeInv, LinkTypes, Ends
  <2>3. q \in Seq(Frames) /\ DOMAIN net = Conns /\ DOMAIN net[c] = Fields
    BY <2>2 DEF TypeInv, LinkTypes, NetOK, ConnRecord, Fields
  <2>4. k \in Nat /\ k >= 1 /\ k <= Len(q) /\ Len(q) \in Nat
    BY <2>1, <2>2, <2>3, LenProperties
  <2> HIDE DEF q
  <2>5. /\ \A d \in Conns : d # c => net'[d] = net[d]
        /\ net'[c].up = SubSeq(q, k + 1, Len(q))
        /\ net'[c].down = net[c].down /\ net'[c].cut = net[c].cut
    BY <2>1, <2>2, <2>3 DEF Fields, q
  <2>6. /\ Len(s_rbuf') = k /\ \A i \in 1 .. k : s_rbuf'[i] = q[i]
        /\ Len(net'[c].up) = Len(q) - k /\ \A i \in 1 .. Len(q) - k : net'[c].up[i] = q[k + i]
    <3>1. \A i \in 1 .. Len(q) : q[i] \in Frames
      BY <2>3
    <3>2. \A i \in k + 1 .. Len(q) : q[i] \in Frames
      BY <2>4, <3>1
    <3>3. \A i \in 1 .. k : q[i] \in Frames
      BY <2>4, <3>1
    <3>4. 1 \in Int /\ k \in Int /\ k + 1 \in Int /\ Len(q) \in Int
      BY <2>4
    <3>5. Len(SubSeq(q, 1, k)) = k /\ \A i \in 1 .. k : SubSeq(q, 1, k)[i] = q[i]
      <4>1. /\ Len(SubSeq(q, 1, k)) = IF 1 <= k THEN k - 1 + 1 ELSE 0
            /\ \A i \in 1 .. k - 1 + 1 : SubSeq(q, 1, k)[i] = q[1 + i - 1]
        BY <3>3, <3>4, SubSeqProperties
      <4>2. QED
        BY <2>4, <4>1
    <3>6. /\ Len(SubSeq(q, k + 1, Len(q))) = Len(q) - k
          /\ \A i \in 1 .. Len(q) - k : SubSeq(q, k + 1, Len(q))[i] = q[k + i]
      <4>1. /\ Len(SubSeq(q, k + 1, Len(q))) = IF k + 1 <= Len(q) THEN Len(q) - (k + 1) + 1 ELSE 0
            /\ \A i \in 1 .. Len(q) - (k + 1) + 1 : SubSeq(q, k + 1, Len(q))[i] = q[(k + 1) + i - 1]
        BY <3>2, <3>4, SubSeqProperties
      <4>2. QED
        BY <2>4, <4>1
    <3>7. QED
      BY <2>1, <2>2, <2>5, <3>5, <3>6
  <2>7. \A i \in 1 .. Len(q) : q[i] = STOPDT => i = Len(q) /\ phase[c] = "stopped"
    BY <2>2 DEF OrderInv, StopsLast, q
  <2>8. StopsLast'
    <3> SUFFICES ASSUME NEW d \in Conns, NEW i \in 1 .. Len(net'[d].up), net'[d].up[i] = STOPDT
                 PROVE  i = Len(net'[d].up) /\ phase'[d] = "stopped"
      BY DEF StopsLast, STOPDT
    <3>1. CASE d # c
      BY <1>0, <2>5, <3>1 DEF OrderInv, StopsLast
    <3>2. CASE d = c
      <4>1. k + i \in 1 .. Len(q) /\ q[k + i] = STOPDT
        BY <2>4, <2>6, <3>2
      <4>2. QED
        BY <1>0, <2>4, <2>6, <2>7, <3>2, <4>1
    <3>3. QED
      BY <3>1, <3>2
  <2>9. ~Pending(c)
    BY <2>2, Pointers
  <2>10. Beginning'
    BY <1>0, <2>5, <2>9 DEF OrderInv, Beginning, Pending, Opening, STARTDT
  <2>11. Reading'
    <3>1. origin' = c
      BY <1>0, <2>1 DEF SlaveStep
    <3>2. \A i \in 1 .. k : s_rbuf'[i] = STOPDT => i = k
      BY <2>4, <2>6, <2>7
    <3>3. QED
      BY <1>0, <2>2, <2>6, <2>9, <3>1, <3>2 DEF Reading, Pending, STOPDT
  <2>12. Starting'
    <3>1. s.init = "INIT" => Opening(c) /\ s.build_recv = 0
      BY <1>0, <2>2 DEF OrderInv, Starting
    <3>2. s.init = "INIT" => q[1] = STARTDT
      BY <2>4, <3>1 DEF Opening, q
    <3>3. 1 \in 1 .. k
      BY <2>4
    <3>4. s_rbuf'[1] = q[1]
      BY <2>6, <3>3
    <3>5. acc.pc = "accept"
      BY <2>2, Pointers
    <3>6. QED
      BY <1>0, <2>1, <2>2, <3>1, <3>2, <3>4, <3>5 DEF OrderInv, Starting, STARTDT
  <2>13. AckCurrent'
    BY <1>0 DEF OrderInv, AckCurrent
  <2>14. QED
    BY <2>8, <2>10, <2>11, <2>12, <2>13 DEF OrderInv
<1>2. CASE s_pc' = "state_machine" /\ UNCHANGED <<net, s_rbuf>>
  BY <1>0, <1>2 DEF OrderInv, StopsLast, Reading, Beginning, Starting, AckCurrent, Pending, Opening,
                    STARTDT, STOPDT
<1>3. QED
  BY <1>1, <1>2 DEF SlaveRecv

(* The accept thread; the sleep keeps it from replacing the client under   *)
(* the loop over recv_buf.                                                 *)
LEMMA AcceptOrder ==
  ASSUME SleepOutlastsParse, TypeInv, LinkInv, OrderInv, SlaveAccept,
         UNCHANGED <<phase, got, origin, heard>>
  PROVE  OrderInv'
<1>1. CASE AcceptClient
  <2> DEFINE c == Head(backlog)
             n == [net EXCEPT ![c].slv = "open"]
  <2>0. backlog \in Seq(Conns) /\ DOMAIN net = Conns /\ \A d \in Conns : DOMAIN net[d] = Fields
    BY DEF TypeInv, LinkTypes, NetOK, ConnRecord, Fields
  <2>1. /\ acc.pc = "accept" /\ backlog # <<>> /\ net' = SlaveClosed(n, s_client) /\ s_client' = NoConn
        /\ backlog' = Tail(backlog)
        /\ acc' = [pc |-> IF s_client = NoConn THEN "conn" ELSE "sleep", tcp |-> c]
        /\ UNCHANGED <<s, s_pc, s_rbuf>>
    BY <1>1 DEF AcceptClient, slaveVars
  <2>2. /\ c \in Conns /\ c = backlog[1] /\ Len(backlog) \in Nat /\ Len(backlog) >= 1
        /\ Len(backlog') = Len(backlog) - 1
        /\ \A i \in 1 .. Len(backlog) - 1 : backlog'[i] = backlog[i + 1]
    BY <2>0, <2>1, HeadTailProperties, LenProperties
  <2>3. acc.tcp = NoConn /\ (s_client # NoConn => s_client \in Conns /\ ~Pending(s_client))
    BY <2>1, Pointers
  <2>4. \A d \in Conns : Pending(d)' <=> Pending(d)
    <3> SUFFICES ASSUME NEW d \in Conns PROVE Pending(d)' <=> Pending(d)
      OBVIOUS
    <3>1. d # acc.tcp
      BY <2>3, LinkAssumption
    <3>2. ASSUME NEW i \in 1 .. Len(backlog), backlog[i] = d PROVE Pending(d)'
      <4>1. CASE i = 1
        BY <2>1, <2>2, <3>2, <4>1 DEF Pending
      <4>2. CASE i # 1
        <5>1. i - 1 \in 1 .. Len(backlog') /\ backlog'[i - 1] = d
          BY <2>2, <3>2, <4>2
        <5>2. QED
          BY <5>1 DEF Pending
      <4>3. QED
        BY <4>1, <4>2
    <3>3. ASSUME Pending(d)' PROVE Pending(d)
      <4>1. CASE d = c
        <5>1. 1 \in 1 .. Len(backlog)
          BY <2>2
        <5>2. QED
          BY <2>2, <4>1, <5>1 DEF Pending
      <4>2. CASE d # c
        <5>1. PICK i \in 1 .. Len(backlog') : backlog'[i] = d
          BY <2>1, <3>3, <4>2 DEF Pending
        <5>2. i + 1 \in 1 .. Len(backlog) /\ backlog[i + 1] = d
          BY <2>2, <5>1
        <5>3. QED
          BY <5>2 DEF Pending
      <4>3. QED
        BY <4>1, <4>2
    <3>4. QED
      BY <3>1, <3>2, <3>3 DEF Pending
  <2>5. /\ DOMAIN n = Conns /\ \A d \in Conns : DOMAIN n[d] = Fields
        /\ \A d \in Conns : /\ n[d].up = net[d].up /\ n[d].down = net[d].down
                             /\ n[d].cut = net[d].cut /\ n[d].mst = net[d].mst
    BY <2>0, <2>2 DEF Fields
  <2> HIDE DEF n, c
  <2>6. /\ \A d \in Conns : d # s_client => net'[d] = n[d]
        /\ s_client # NoConn => net'[s_client].up = <<>>
    <3>1. CASE s_client = NoConn
      BY <2>1, <3>1 DEF SlaveClosed
    <3>2. CASE s_client # NoConn
      <4>1. net' = IF n[s_client].mst = "closed" THEN [n EXCEPT ![s_client] = Fresh]
                   ELSE [n EXCEPT ![s_client].slv = "closed", ![s_client].up = <<>>]
        BY <2>1, <3>2 DEF SlaveClosed
      <4>2. QED
        BY <2>3, <2>5, <3>2, <4>1 DEF Fresh, Fields
    <3>3. QED
      BY <3>1, <3>2
  <2>7. \A d \in Conns : d # s_client => net'[d].up = net[d].up /\ net'[d].down = net[d].down
                                        /\ net'[d].cut = net[d].cut
    BY <2>5, <2>6
  <2>8. StopsLast'
    <3> SUFFICES ASSUME NEW d \in Conns, NEW i \in 1 .. Len(net'[d].up), net'[d].up[i] = STOPDT
                 PROVE  i = Len(net'[d].up) /\ phase'[d] = "stopped"
      BY DEF StopsLast, STOPDT
    <3>1. CASE d # s_client
      BY <2>7, <3>1 DEF OrderInv, StopsLast
    <3>2. CASE d = s_client
      <4>1. net'[d].up = <<>>
        BY <2>6, <3>2, LinkAssumption
      <4>2. QED
        BY <4>1
    <3>3. QED
      BY <3>1, <3>2
  <2>9. Beginning'
    <3> SUFFICES ASSUME NEW d \in Conns, Pending(d)
                 PROVE  Opening(d)' /\ heard'[d] = 0 /\ got'[d] = 0 /\ Len(net'[d].down) = 0
      BY <2>4 DEF Beginning
    <3>1. d # s_client
      BY <2>3, LinkAssumption
    <3>2. QED
      BY <2>7, <3>1 DEF OrderInv, Beginning, Opening, STARTDT
  <2>10. Reading'
    <3> SUFFICES ASSUME s_pc = "parse" PROVE acc'.pc = "sleep" /\ (origin # NoConn => ~Pending(origin)')
      BY <2>1 DEF Reading
    <3>1. s_client # NoConn /\ origin = s_client
      BY <2>1 DEF OrderInv, Reading
    <3>2. QED
      BY <2>1, <2>3, <2>4, <3>1
  <2>11. Starting' /\ AckCurrent'
    BY <2>1 DEF Starting, AckCurrent
  <2>12. QED
    BY <2>8, <2>9, <2>10, <2>11 DEF OrderInv
<1>2. CASE AcceptWake
  <2>1. s_pc # "parse" /\ acc'.pc = "conn" /\ acc'.tcp = acc.tcp /\ s_client = NoConn
        /\ UNCHANGED <<net, backlog, s_client, s, s_pc, s_rbuf>>
    BY <1>2, Pointers DEF AcceptWake, slaveVars, TypeInv, LinkTypes
  <2>2. QED
    BY <2>1 DEF OrderInv, StopsLast, Reading, Beginning, Starting, AckCurrent, Pending, Opening,
                STARTDT, STOPDT
<1>3. CASE AcceptConnected
  <2>1. /\ acc'.pc = "install" /\ acc.pc = "conn" /\ acc'.tcp = acc.tcp /\ s_client = NoConn
        /\ UNCHANGED <<net, backlog, s_client, s_pc, s_rbuf>>
    BY <1>3, Pointers DEF AcceptConnected, TypeInv, LinkTypes
  <2>2. s_pc # "parse"
    BY <2>1 DEF OrderInv, Reading
  <2>3. s'.init = "INIT" /\ s'.build_recv = 0
    BY <1>3 DEF AcceptConnected, iec104_s_reset_param, TypeInv, SlaveTypes, SlaveTypeOK, SlaveStation
  <2>4. QED
    BY <2>1, <2>2, <2>3 DEF OrderInv, StopsLast, Reading, Beginning, Starting, AckCurrent, Pending,
                            Opening, STARTDT, STOPDT
<1>4. CASE AcceptInstall
  <2>1. /\ acc.pc = "install" /\ s_client' = acc.tcp /\ acc'.pc = "accept" /\ acc'.tcp = NoConn
        /\ UNCHANGED <<net, backlog, s, s_pc, s_rbuf>>
    BY <1>4 DEF AcceptInstall, slaveVars
  <2>2. s_client = NoConn /\ acc.tcp \in Conns
    BY <2>1, Pointers DEF TypeInv, LinkTypes, Ends
  <2>3. s_pc # "parse"
    BY <2>1, <2>2 DEF OrderInv, Reading
  <2>4. Opening(acc.tcp) /\ heard[acc.tcp] = 0
    BY <2>2 DEF OrderInv, Beginning, Pending
  <2>5. s.init \in {"INIT", "OPEN"} /\ s.build_recv = 0
    BY <2>1 DEF OrderInv, Starting
  <2>6. Beginning'
    BY <2>1, LinkAssumption DEF OrderInv, Beginning, Pending, Opening, STARTDT
  <2>7. StopsLast' /\ Reading'
    BY <2>1, <2>3 DEF OrderInv, StopsLast, Reading, STOPDT
  <2>8. Starting' /\ AckCurrent'
    BY <2>1, <2>3, <2>4, <2>5 DEF Starting, AckCurrent, Opening, STARTDT
  <2>9. QED
    BY <2>6, <2>7, <2>8 DEF OrderInv
<1>5. QED
  BY <1>1, <1>2, <1>3, <1>4 DEF SlaveAccept

(* Steps that neither read, nor accept, nor move the link state.           *)
LEMMA QuietOrder ==
  ASSUME LinkInv, OrderInv, s'.init = s.init, s'.build_recv = s.build_recv,
         UNCHANGED <<backlog, s_client, acc, s_pc, s_rbuf, phase, got, origin, heard>>,
         \A c \in Conns : /\ net'[c].up = net[c].up /\ net'[c].cut = net[c].cut
                          /\ c # s_client => net'[c].down = net[c].down
  PROVE  OrderInv'
<1>1. \A c \in Conns : Pending(c)' <=> Pending(c)
  BY DEF Pending
<1>2. \A c \in Conns : Pending(c) => c # s_client
  BY LinkAssumption, Pointers
<1>3. \A c \in Conns : Opening(c)' <=> Opening(c)
  BY DEF Opening, STARTDT
<1>4. StopsLast'
  BY DEF OrderInv, StopsLast, STOPDT
<1>5. Beginning'
  BY <1>1, <1>2, <1>3 DEF OrderInv, Beginning
<1>6. Reading'
  BY DEF OrderInv, Reading, Pending, STOPDT
<1>7. Starting' /\ AckCurrent'
  <2>1. s_client # NoConn => s_client \in Conns
    BY Pointers
  <2>2. QED
    BY <1>3, <2>1 DEF OrderInv, Starting, AckCurrent, STARTDT
<1>8. QED
  BY <1>4, <1>5, <1>6, <1>7 DEF OrderInv

LEMMA AppOrder ==
  ASSUME TypeInv, LinkInv, OrderInv, SlaveApp,
         UNCHANGED <<phase, got, origin, heard>>
  PROVE  OrderInv'
<1>0. s \in SlaveStation /\ s_client \in Ends /\ DOMAIN net = Conns
      /\ \A c \in Conns : DOMAIN net[c] = Fields
  BY DEF TypeInv, LinkTypes, SlaveTypes, SlaveTypeOK, NetOK, ConnRecord, Fields
<1>1. UNCHANGED <<backlog, s_client, acc, s_pc, s_rbuf>>
  BY DEF SlaveApp, SponBegin, SponPut, SponSend, linkVars
<1>2. s'.init = s.init /\ s'.build_recv = s.build_recv
  BY <1>0 DEF SlaveApp, SponBegin, SponPut, SponSend, SlaveStation
<1>3. \A c \in Conns : /\ net'[c].up = net[c].up /\ net'[c].cut = net[c].cut
                       /\ c # s_client => net'[c].down = net[c].down
  <2>1. CASE net' = net
    BY <2>1
  <2>2. CASE net' = SlaveSent(net, s_client, <<s_app.fr>>)
    BY <1>0, <2>2 DEF SlaveSent, Fields, Ends
  <2>3. QED
    BY <2>1, <2>2 DEF SlaveApp, SponBegin, SponPut, SponSend, linkVars
<1>4. QED
  BY <1>1, <1>2, <1>3, QuietOrder

(* The peers and the network.                                              *)
LEMMA ConnectOrder ==
  ASSUME TypeInv, LinkInv, OrderInv, NEW c \in Conns, PeerConnect(c)
  PROVE  OrderInv'
<1>0. /\ DOMAIN net = Conns /\ DOMAIN net[c] = Fields /\ backlog \in Seq(Conns)
      /\ heard \in [Conns -> 0 .. SnMod] /\ got \in [Conns -> Sn]
      /\ phase \in [Conns -> {"new", "started", "stopped"}]
  BY DEF TypeInv, LinkTypes, PeerTypes, NetOK, ConnRecord, Fields
<1>1. /\ net[c].slv = "none" /\ net[c].mst = "none" /\ net[c].up = <<>> /\ net[c].down = <<>>
  BY DEF PeerConnect, Fresh
<1>2. /\ net' = [net EXCEPT ![c].mst = "open"] /\ backlog' = Append(backlog, c)
      /\ heard' = [heard EXCEPT ![c] = 0] /\ got' = [got EXCEPT ![c] = 0]
      /\ phase' = [phase EXCEPT ![c] = "new"] /\ origin' = IF origin = c THEN NoConn ELSE origin
      /\ UNCHANGED <<s_client, acc, s, s_pc, s_rbuf>>
  BY DEF PeerConnect, slaveVars
<1>3. c # s_client /\ c # acc.tcp /\ ~Pending(c)
  BY <1>1, Pointers
<1>4. /\ \A d \in Conns : d # c => net'[d] = net[d] /\ heard'[d] = heard[d] /\ got'[d] = got[d]
                                  /\ phase'[d] = phase[d]
      /\ net'[c].up = <<>> /\ net'[c].down = <<>> /\ heard'[c] = 0 /\ got'[c] = 0 /\ phase'[c] = "new"
  BY <1>0, <1>1, <1>2 DEF Fields
<1>5. \A d \in Conns \cup {NoConn} : d # c => (Pending(d)' <=> Pending(d))
  BY <1>0, <1>2 DEF Pending
<1>6. Len(<<>>) = 0
  BY EmptySeq
<1>7. StopsLast'
  <2> SUFFICES ASSUME NEW d \in Conns, NEW i \in 1 .. Len(net'[d].up), net'[d].up[i] = STOPDT
               PROVE  i = Len(net'[d].up) /\ phase'[d] = "stopped"
    BY DEF StopsLast, STOPDT
  <2>1. d # c
    BY <1>4
  <2>2. QED
    BY <1>4, <2>1 DEF OrderInv, StopsLast
<1>8. Beginning'
  <2>1. Opening(c)' /\ Len(net'[c].down) = 0
    BY <1>4, <1>6 DEF Opening
  <2>2. \A d \in Conns : d # c => (Opening(d)' <=> Opening(d))
    BY <1>4 DEF Opening, STARTDT
  <2>3. QED
    BY <1>4, <1>5, <2>1, <2>2 DEF OrderInv, Beginning
<1>9. Reading'
  <2>1. origin \in Ends
    BY DEF TypeInv, PeerTypes
  <2>2. s_pc = "parse" /\ origin' # NoConn => ~Pending(origin)'
    BY <1>2, <1>5, <2>1 DEF OrderInv, Reading, Ends
  <2>3. s_pc = "parse" /\ s_client # NoConn => origin' = s_client
    BY <1>2, <1>3 DEF OrderInv, Reading
  <2>4. QED
    BY <1>2, <2>2, <2>3 DEF OrderInv, Reading, STOPDT
<1>10. Starting' /\ AckCurrent'
  <2>1. s_client # NoConn => s_client \in Conns /\ s_client # c
    BY <1>3, Pointers
  <2>2. s_client # NoConn => (Opening(s_client)' <=> Opening(s_client))
    BY <1>2, <1>4, <2>1 DEF Opening, STARTDT
  <2>3. QED
    BY <1>2, <1>4, <2>1, <2>2 DEF OrderInv, Starting, AckCurrent, STARTDT
<1>11. QED
  BY <1>7, <1>8, <1>9, <1>10 DEF OrderInv

LEMMA SendOrder ==
  ASSUME TypeInv, LinkInv, OrderInv, NEW c \in Conns, NEW fr \in PeerFrames, PeerSend(c, fr)
  PROVE  OrderInv'
<1>0. /\ DOMAIN net = Conns /\ DOMAIN net[c] = Fields /\ net[c].up \in Seq(Frames) /\ fr \in Frames
      /\ phase \in [Conns -> {"new", "started", "stopped"}]
  BY PeerAssumption DEF TypeInv, LinkTypes, PeerTypes, NetOK, ConnRecord, Fields
<1>1. /\ (phase[c] = "new" /\ fr = STARTDT) \/ phase[c] = "started"
      /\ net' = MasterSent(net, c, <<fr>>)
      /\ phase' = [phase EXCEPT ![c] = IF fr = STOPDT THEN "stopped" ELSE "started"]
      /\ UNCHANGED <<backlog, s_client, acc, s, s_pc, s_rbuf, got, origin, heard>>
  BY DEF PeerSend, slaveVars, STARTDT, STOPDT
<1>2. c # NoConn
  BY LinkAssumption
<1>3. /\ \A d \in Conns : d # c => net'[d] = net[d] /\ phase'[d] = phase[d]
      /\ net'[c].down = net[c].down /\ net'[c].cut = net[c].cut
      /\ net'[c].up = IF net[c].cut \/ net[c].slv = "closed" THEN net[c].up
                      ELSE Append(net[c].up, fr)
  <2>1. net[c].up \o <<fr>> = Append(net[c].up, fr)
    BY <1>0
  <2>2. QED
    BY <1>0, <1>1, <1>2, <2>1 DEF MasterSent, Fields
<1>4. \A i \in 1 .. Len(net[c].up) : net[c].up[i] # STOPDT
  BY <1>1 DEF OrderInv, StopsLast
<1>5. /\ Len(Append(net[c].up, fr)) = Len(net[c].up) + 1 /\ Len(net[c].up) \in Nat
      /\ \A i \in 1 .. Len(net[c].up) : Append(net[c].up, fr)[i] = net[c].up[i]
      /\ Append(net[c].up, fr)[Len(net[c].up) + 1] = fr
  BY <1>0, AppendProperties, LenProperties
<1>6. StopsLast'
  <2> SUFFICES ASSUME NEW d \in Conns, NEW i \in 1 .. Len(net'[d].up), net'[d].up[i] = STOPDT
               PROVE  i = Len(net'[d].up) /\ phase'[d] = "stopped"
    BY DEF StopsLast, STOPDT
  <2>1. CASE d # c
    BY <1>3, <2>1 DEF OrderInv, StopsLast
  <2>2. CASE d = c
    <3>1. net'[c].up = Append(net[c].up, fr)
      BY <1>3, <1>4, <2>2
    <3>2. i = Len(net[c].up) + 1 /\ fr = STOPDT
      BY <1>4, <1>5, <2>2, <3>1
    <3>3. QED
      BY <1>0, <1>1, <1>5, <2>2, <3>1, <3>2
  <2>3. QED
    BY <2>1, <2>2
<1>7. \A d \in Conns : Opening(d) /\ net[d].slv # "closed" => Opening(d)'
  <2> SUFFICES ASSUME NEW d \in Conns, Opening(d), net[d].slv # "closed" PROVE Opening(d)'
    OBVIOUS
  <2>1. CASE d # c
    BY <1>3, <2>1 DEF Opening, STARTDT
  <2>2. CASE d = c /\ net[c].cut
    BY <1>3, <2>2 DEF Opening, STARTDT
  <2>3. CASE d = c /\ ~net[c].cut /\ Len(net[c].up) = 0
    <3>1. fr = STARTDT
      BY <1>1, <2>3 DEF Opening
    <3>2. net'[c].up = Append(net[c].up, fr)
      BY <1>3, <2>2, <2>3
    <3>3. Len(net'[c].up) > 0 /\ net'[c].up[1] = STARTDT
      BY <1>5, <2>3, <3>1, <3>2
    <3>4. QED
      BY <2>3, <3>3 DEF Opening, STARTDT
  <2>4. CASE d = c /\ ~net[c].cut /\ Len(net[c].up) # 0
    <3>1. net'[c].up = Append(net[c].up, fr)
      BY <1>3, <2>4
    <3>2. net[c].up[1] = STARTDT /\ 1 \in 1 .. Len(net[c].up)
      BY <1>5, <2>4 DEF Opening
    <3>3. Len(net'[c].up) > 0 /\ net'[c].up[1] = STARTDT
      BY <1>5, <3>1, <3>2
    <3>4. QED
      BY <2>4, <3>3 DEF Opening, STARTDT
  <2>5. QED
    BY <2>1, <2>2, <2>3, <2>4
<1>8. \A d \in Conns : (Pending(d)' <=> Pending(d)) /\ net'[d].down = net[d].down
  BY <1>1, <1>3 DEF Pending
<1>9. Beginning'
  BY <1>1, <1>7, <1>8, Pointers DEF OrderInv, Beginning
<1>10. Reading'
  BY <1>1 DEF OrderInv, Reading, Pending, STOPDT
<1>11. Starting' /\ AckCurrent'
  <2>1. s_client # NoConn => s_client \in Conns /\ net[s_client].slv # "closed"
    BY Pointers
  <2>2. QED
    BY <1>1, <1>7, <2>1 DEF OrderInv, Starting, AckCurrent, STARTDT
<1>12. QED
  BY <1>6, <1>9, <1>10, <1>11 DEF OrderInv

LEMMA PeerReadCloseOrder ==
  ASSUME TypeInv, LinkInv, OrderInv, NEW c \in Conns,
         PeerRead(c) \/ PeerClose(c) \/ (LinkCut(c) /\ UNCHANGED <<slaveVars, peerVars, origin, heard, race>>)
  PROVE  OrderInv'
<1>0. DOMAIN net = Conns /\ DOMAIN net[c] = Fields /\ got \in [Conns -> Sn] /\ net[c].down \in Seq(Frames)
  BY DEF TypeInv, LinkTypes, PeerTypes, NetOK, ConnRecord, Fields
<1>1. UNCHANGED <<backlog, s_client, acc, s, s_pc, s_rbuf, phase, origin, heard>>
  BY DEF PeerRead, PeerClose, LinkCut, slaveVars, peerVars
<1>2. /\ \A d \in Conns : d # c => net'[d] = net[d] /\ got'[d] = got[d]
      /\ \/ net'[c].up = net[c].up /\ net'[c].cut = net[c].cut
         \/ net'[c].up = <<>> /\ net'[c].cut
         \/ net'[c].up = <<>> /\ net[c].slv = "closed"
      /\ net[c].slv # "closed" /\ Len(net[c].down) = 0 => Len(net'[c].down) = 0 /\ got'[c] = got[c]
  <2>1. CASE PeerRead(c)
    <3>1. net[c].down # <<>> /\ net' = [net EXCEPT ![c].down = Tail(@)]
          /\ got' = [got EXCEPT ![c] = IF Head(net[c].down).f = "I" THEN (@ + 1) % SnMod ELSE @]
      BY <2>1 DEF PeerRead
    <3>2. Len(net[c].down) # 0
      BY <1>0, <3>1
    <3>3. QED
      BY <1>0, <3>1, <3>2 DEF Fields
  <2>2. CASE PeerClose(c)
    <3>1. net' = MasterClosed(net, c) /\ got' = got
      BY <2>2 DEF PeerClose, peerVars
    <3>2. CASE net[c].slv = "closed"
      <4>1. net' = [net EXCEPT ![c] = Fresh]
        BY <3>1, <3>2, LinkAssumption DEF MasterClosed
      <4>2. QED
        BY <1>0, <3>1, <3>2, <4>1 DEF Fresh
    <3>3. CASE net[c].slv # "closed"
      <4>1. net' = [net EXCEPT ![c].mst = "closed", ![c].down = <<>>]
        BY <3>1, <3>3, LinkAssumption DEF MasterClosed
      <4>2. QED
        BY <1>0, <3>1, <3>3, <4>1 DEF Fields
    <3>4. QED
      BY <3>2, <3>3
  <2>3. CASE LinkCut(c) /\ UNCHANGED <<slaveVars, peerVars, origin, heard, race>>
    <3>1. net' = [net EXCEPT ![c].cut = TRUE, ![c].up = <<>>, ![c].down = <<>>] /\ got' = got
      BY <2>3 DEF LinkCut, peerVars
    <3>2. QED
      BY <1>0, <3>1 DEF Fields
  <2>4. QED
    BY <2>1, <2>2, <2>3
<1>3. \A d \in Conns : Opening(d) /\ net[d].slv # "closed" => Opening(d)'
  BY <1>1, <1>2, EmptySeq DEF Opening, STARTDT
<1>4. StopsLast'
  <2> SUFFICES ASSUME NEW d \in Conns, NEW i \in 1 .. Len(net'[d].up), net'[d].up[i] = STOPDT
               PROVE  i = Len(net'[d].up) /\ phase'[d] = "stopped"
    BY DEF StopsLast, STOPDT
  <2>1. CASE net'[d].up = net[d].up
    BY <1>1, <2>1 DEF OrderInv, StopsLast
  <2>2. CASE net'[d].up = <<>>
    BY <2>2
  <2>3. QED
    BY <1>2, <2>1, <2>2
<1>5. Beginning'
  <2>1. \A d \in Conns : Pending(d)' <=> Pending(d)
    BY <1>1 DEF Pending
  <2>2. QED
    BY <1>1, <1>2, <1>3, <2>1, Pointers DEF OrderInv, Beginning
<1>6. Reading'
  BY <1>1 DEF OrderInv, Reading, Pending, STOPDT
<1>7. Starting' /\ AckCurrent'
  <2>1. s_client # NoConn => s_client \in Conns /\ net[s_client].slv # "closed"
    BY Pointers
  <2>2. QED
    BY <1>1, <1>3, <2>1 DEF OrderInv, Starting, AckCurrent, STARTDT
<1>8. QED
  BY <1>4, <1>5, <1>6, <1>7 DEF OrderInv

LEMMA OrderNext == SleepOutlastsParse /\ TypeInv /\ LinkInv /\ OrderInv /\ [Next]_vars => OrderInv'
<1> SUFFICES ASSUME SleepOutlastsParse, TypeInv, LinkInv, OrderInv, [Next]_vars PROVE OrderInv'
  OBVIOUS
<1>1. CASE Peer
  BY <1>1, ConnectOrder, SendOrder, PeerReadCloseOrder DEF Peer
<1>2. CASE \E c \in Conns : LinkCut(c) /\ UNCHANGED <<slaveVars, peerVars, origin, heard, race>>
  BY <1>2, PeerReadCloseOrder
<1>3. CASE SlaveStep
  <2>1. CASE SlaveRecv
    BY <1>3, <2>1, RecvOrder
  <2>2. CASE SlaveParse
    BY <1>3, <2>2, ParseOrder
  <2>3. CASE SlaveStateMachine \/ SlaveAccept \/ SlaveApp
    <3>1. UNCHANGED <<phase, got, origin, heard>>
      <4>1. s_pc' # "parse" \/ s_pc' = s_pc
        BY <2>3 DEF SlaveStateMachine, SlaveAccept, SlaveApp, AcceptClient, AcceptWake,
                    AcceptConnected, AcceptInstall, SponBegin, SponPut, SponSend, slaveVars
      <4>2. s_pc = "parse" => s_rbuf' = s_rbuf
        BY <2>3 DEF SlaveStateMachine, SlaveAccept, SlaveApp, AcceptClient, AcceptWake,
                    AcceptConnected, AcceptInstall, SponBegin, SponPut, SponSend, slaveVars
      <4>3. s_pc = "parse" => s_rbuf # Tail(s_rbuf)
        <5>1. s_pc = "parse" => Len(Tail(s_rbuf)) = Len(s_rbuf) - 1 /\ Len(s_rbuf) \in Nat
          BY HeadTailProperties, LenProperties DEF TypeInv, SlaveTypes, SlaveTypeOK
        <5>2. QED
          BY <5>1
      <4>4. QED
        BY <1>3, <4>1, <4>2, <4>3 DEF SlaveStep, peerVars
    <3>2. QED
      BY <2>3, <3>1, StateMachineOrder, AcceptOrder, AppOrder
  <2>4. QED
    BY <1>3, <2>1, <2>2, <2>3 DEF SlaveStep, SlaveExec
<1>4. CASE PeerTick
  <2>1. s'.init = s.init /\ s'.build_recv = s.build_recv
    BY <1>4 DEF PeerTick, SlaveAged, TypeInv, SlaveTypes, SlaveTypeOK, SlaveStation
  <2>2. UNCHANGED <<net, backlog, s_client, acc, s_pc, s_rbuf, phase, got, origin, heard>>
    BY <1>4 DEF PeerTick, linkVars, peerVars
  <2>3. QED
    BY <2>1, <2>2, QuietOrder
<1>5. CASE UNCHANGED vars
  BY <1>5, QuietOrder DEF vars, linkVars, slaveVars, peerVars
<1>6. QED
  BY <1>1, <1>2, <1>3, <1>4, <1>5 DEF Next

LEMMA OrderStart == PeerInit => OrderInv
<1> SUFFICES ASSUME PeerInit PROVE OrderInv
  OBVIOUS
<1>1. /\ \A c \in Conns : net[c].up = <<>> /\ net[c].down = <<>>
      /\ backlog = <<>> /\ s_client = NoConn /\ acc.tcp = NoConn /\ acc.pc = "accept"
      /\ s_pc = "state_machine"
  BY DEF PeerInit, LinkInit, SlaveInit, Fresh
<1>2. \A c \in Conns : ~Pending(c)
  BY <1>1, LinkAssumption DEF Pending
<1>3. QED
  BY <1>1, <1>2 DEF OrderInv, StopsLast, Reading, Beginning, Starting, AckCurrent

(* As long as the sleep of the accept callback outlasts a pass of the exec *)
(* thread, the N(R) of every frame the slave builds counts what came over  *)
(* the connection it is written to, whoever connects, sends, stops or      *)
(* disappears while the exec thread holds unparsed frames.                 *)
THEOREM AcksAreCurrent == SleepOutlastsParse => (Spec => []AckCurrent)
<1> SUFFICES ASSUME SleepOutlastsParse PROVE Spec => []AckCurrent
  OBVIOUS
<1>1. TypeInv /\ LinkInv /\ OrderInv /\ [Next]_vars => OrderInv'
  BY OrderNext
<1>2. OrderInv => AckCurrent
  BY DEF OrderInv
<1>3. QED
  BY <1>1, <1>2, LinkStart, LinkNext, TypeStart, TypeNext, OrderStart, PTL DEF Spec

-----------------------------------------------------------------------------
(* The number of the next I frame on port->client: the application thread  *)
(* may have it in hand.                                                    *)
NextSn == IF s_app.pc = "send" THEN s_app.fr.ss ELSE s.build_send

Reporting ==
  /\ s_app.pc = "put" => s_app.sn = s.build_send
  /\ s_app.pc = "send" => s_app.fr.f = "I" /\ s.build_send = (s_app.fr.ss + 1) % SnMod
  /\ acc.pc = "install" \/ (s_client # NoConn /\ s.init = "INIT") =>
       s.build_send = 0 /\ s_app.pc = "idle"

Numbering == \A c \in Conns : net[c].mst = "open" => InOrder(net[c].down, got[c])

Continuing ==
  s_client # NoConn /\ net[s_client].mst = "open" /\ ~net[s_client].cut =>
    Consecutive(net[s_client].down, got[s_client], NextSn)

NumberInv == ~race => Reporting /\ Numbering /\ Continuing

LEMMA NumberingNext ==
  ASSUME \A c \in Conns : net'[c].mst = "open" => InOrder(net'[c].down, got'[c])
  PROVE  Numbering'
BY DEF Numbering, InOrder, Numbered

LEMMA ContinuingNext ==
  ASSUME s_client' # NoConn /\ net'[s_client'].mst = "open" /\ ~net'[s_client'].cut =>
           Consecutive(net'[s_client'].down, got'[s_client'], NextSn')
  PROVE  Continuing'
BY DEF Continuing, Consecutive, InOrder, Numbered

(* Steps that send nothing and leave the numbers alone.                    *)
LEMMA QuietNumbers ==
  ASSUME LinkInv, Reporting, Numbering, Continuing, s'.build_send = s.build_send, s'.init = s.init,
         UNCHANGED <<s_client, acc, s_app, got>>,
         \A c \in Conns : /\ net'[c].mst = net[c].mst /\ net'[c].cut = net[c].cut
                          /\ net'[c].down = net[c].down
  PROVE  Reporting' /\ Numbering' /\ Continuing'
<1>1. s_client # NoConn => s_client \in Conns
  BY Pointers
<1>2. Reporting'
  BY DEF Reporting
<1>3. Numbering'
  <2>1. \A c \in Conns : net'[c].mst = "open" => InOrder(net'[c].down, got'[c])
    BY DEF Numbering
  <2>2. QED
    BY <2>1, NumberingNext
<1>4. Continuing'
  <2>1. NextSn' = NextSn
    BY DEF NextSn
  <2>2. s_client' # NoConn /\ net'[s_client'].mst = "open" /\ ~net'[s_client'].cut =>
          Consecutive(net'[s_client'].down, got'[s_client'], NextSn')
    BY <1>1, <2>1 DEF Continuing
  <2>3. QED
    BY <2>2, ContinuingNext
<1>5. QED
  BY <1>2, <1>3, <1>4

(* A pass of the exec thread numbers what it writes from build_send on,    *)
(* and no report is in the making when it writes an I frame.               *)
LEMMA PassNumbers ==
  ASSUME TypeInv, LinkInv, Reporting, Numbering, Continuing, ~SponOvertaken,
         NEW w, WorkOK(w), SlaveInstall(w), UNCHANGED <<acc, s_app, got>>,
         s_client # NoConn => Consecutive(w.out, s.build_send, w.st.build_send)
  PROVE  /\ s_app.pc # "idle" => s'.build_send = s.build_send
         /\ Numbering' /\ Continuing'
<1>0. /\ got \in [Conns -> Sn] /\ w.out \in Seq(Frames)
      /\ \A c \in Conns : net[c].down \in Seq(Frames)
  BY DEF TypeInv, LinkTypes, PeerTypes, NetOK, ConnRecord, WorkOK
<1>1. /\ \A c \in Conns : c # s_client => net'[c] = net[c]
      /\ s_client' = IF w.close THEN NoConn ELSE s_client
      /\ s_client # NoConn /\ net'[s_client].mst = "open" =>
           /\ net[s_client].mst = "open" /\ net'[s_client].cut = net[s_client].cut
           /\ net'[s_client].down = IF net[s_client].cut THEN net[s_client].down
                                    ELSE net[s_client].down \o w.out
  BY InstallEffect DEF TypeInv
<1>2. s' = w.st
  BY DEF SlaveInstall
<1>3. ASSUME s_app.pc # "idle"
      PROVE  /\ s'.build_send = s.build_send
             /\ \A c \in Conns : \A i \in Len(net[c].down) + 1 .. Len(net'[c].down) :
                  net'[c].down[i].f # "I"
  BY <1>3 DEF SponOvertaken
<1>4. s_client # NoConn => s_client \in Conns
  BY Pointers
<1>5. ASSUME s_client # NoConn, net'[s_client].mst = "open", ~net[s_client].cut
      PROVE  Consecutive(net'[s_client].down, got'[s_client], NextSn')
  <2> DEFINE c == s_client
             q == net[c].down
             r == w.out
  <2>1. c \in Conns /\ q \in Seq(Frames) /\ r \in Seq(Frames) /\ got[c] \in Int
    BY <1>0, <1>4, <1>5, SnRange
  <2>2. net'[c].down = q \o r /\ Consecutive(q, got[c], NextSn)
    BY <1>1, <1>5 DEF Continuing
  <2>3. Consecutive(r, NextSn, NextSn')
    <3>1. CASE s_app.pc = "send"
      <4>1. NextSn = s_app.fr.ss /\ NextSn' = s_app.fr.ss
        BY <3>1 DEF NextSn
      <4>2. s_app.fr.ss \in Sn
        <5>1. s_app.fr \in Frames /\ s_app.fr.f = "I"
          BY <3>1 DEF TypeInv, SlaveTypes, SlaveTypeOK, Reporting
        <5>2. QED
          BY <5>1 DEF Frames, UFrames, SFrames, IFrames
      <4> HIDE DEF q, r
      <4>3. \A i \in 1 .. Len(r) : r[i].f # "I"
        <5> SUFFICES ASSUME NEW i \in 1 .. Len(r) PROVE r[i].f # "I"
          OBVIOUS
        <5>1. /\ Len(q \o r) = Len(q) + Len(r) /\ Len(q) \in Nat /\ Len(r) \in Nat
              /\ Len(q) + i \in Len(q) + 1 .. Len(q \o r) /\ (q \o r)[Len(q) + i] = r[i]
          BY <2>1, ConcatProperties, LenProperties
        <5>2. QED
          BY <1>3, <2>1, <2>2, <3>1, <5>1 DEF q
      <4>4. Consecutive(r, s_app.fr.ss, s_app.fr.ss)
        BY <2>1, <4>2, <4>3, ConsecutiveNone
      <4>5. QED
        BY <4>1, <4>4
    <3>2. CASE s_app.pc # "send"
      BY <1>2, <1>5, <3>2 DEF NextSn
    <3>3. QED
      BY <3>1, <3>2
  <2> HIDE DEF q, r
  <2>4. Consecutive(q \o r, got[c], NextSn')
    BY <2>1, <2>2, <2>3, ConsecutiveConcat
  <2>5. QED
    BY <2>2, <2>4
<1>6. Numbering'
  <2> SUFFICES ASSUME NEW c \in Conns, net'[c].mst = "open" PROVE InOrder(net'[c].down, got'[c])
    BY DEF Numbering, InOrder, Numbered
  <2>1. CASE c # s_client
    BY <1>1, <2>1 DEF Numbering
  <2>2. CASE c = s_client /\ net[c].cut
    BY <1>1, <2>2, LinkAssumption DEF Numbering
  <2>3. CASE c = s_client /\ ~net[c].cut
    BY <1>5, <2>3, LinkAssumption DEF Consecutive
  <2>4. QED
    BY <2>1, <2>2, <2>3
<1>7. Continuing'
  <2>1. s_client' # NoConn => s_client' = s_client /\ s_client # NoConn
    BY <1>1
  <2>2. QED
    BY <1>1, <1>5, <2>1 DEF Continuing, Consecutive, InOrder, Numbered
<1>8. QED
  BY <1>3, <1>6, <1>7

LEMMA ExecNumbers ==
  ASSUME TypeInv, LinkInv, OrderInv, Reporting, Numbering, Continuing, ~SponOvertaken,
         SlaveExec, UNCHANGED got
  PROVE  Reporting' /\ Numbering' /\ Continuing'
<1>0. WorkOK(Work) /\ Work.st = s /\ Work.out = <<>> /\ ~Work.close
  BY WorkFacts
<1>1. CASE SlaveStateMachine
  <2> DEFINE w == iec104_s_state_machine(Work)
  <2>1. WorkOK(w) /\ SlaveInstall(w) /\ UNCHANGED <<acc, s_app>>
    BY <1>0, <1>1, StateMachineOK DEF SlaveStateMachine
  <2>2. /\ s.init = "INIT" => w.out = <<>> /\ w.st.init = "OPEN" /\ w.st.build_send = 0
        /\ s.init = "OPEN" => w.st.init = "OPEN" /\ w.st.build_send = s.build_send
        /\ s.init # "INIT" => Consecutive(w.out, s.build_send, w.st.build_send)
        /\ ~w.close /\ s.init # "DISCONNECT" => w.st.init \notin {"INIT", "DISCONNECT"}
    BY <1>0, StateMachineEffect
  <2> HIDE DEF w
  <2>3. s' = w.st /\ s_client' = IF w.close THEN NoConn ELSE s_client
    BY <2>1 DEF SlaveInstall
  <2>4. s_client # NoConn => Consecutive(w.out, s.build_send, w.st.build_send)
    <3>1. CASE s.init = "INIT" /\ s_client # NoConn
      <4>1. s.build_send = 0 /\ w.out = <<>> /\ w.st.build_send = 0
        BY <2>2, <3>1 DEF Reporting
      <4>2. w.out \in Seq(Frames) /\ Len(w.out) = 0
        BY <4>1, EmptySeq
      <4>3. QED
        BY <4>1, <4>2, ConsecutiveEmpty, SnRange
    <3>2. QED
      BY <2>2, <3>1
  <2>5. Numbering' /\ Continuing' /\ (s_app.pc # "idle" => s'.build_send = s.build_send)
    BY <2>1, <2>4, PassNumbers
  <2>6. acc.pc = "install" => s'.build_send = 0 /\ s_app.pc = "idle"
    BY <2>2, <2>3 DEF OrderInv, Starting, Reporting
  <2>7. s_client' # NoConn => s'.init # "INIT"
    BY <2>2, <2>3 DEF OrderInv, Starting
  <2>8. QED
    BY <2>1, <2>5, <2>6, <2>7 DEF Reporting
<1>2. CASE SlaveRecv
  <2>1. UNCHANGED <<s_client, acc, s, s_app>>
    BY <1>2 DEF SlaveRecv
  <2>2. DOMAIN net = Conns /\ \A c \in Conns : DOMAIN net[c] = Fields
    BY DEF TypeInv, LinkTypes, NetOK, ConnRecord, Fields
  <2>3. net' = net \/ \E q : net' = [net EXCEPT ![s_client].up = q]
    BY <1>2 DEF SlaveRecv
  <2>4. \A c \in Conns : /\ net'[c].mst = net[c].mst /\ net'[c].cut = net[c].cut
                         /\ net'[c].down = net[c].down
    BY <2>2, <2>3 DEF Fields
  <2>5. QED
    BY <2>1, <2>4, QuietNumbers
<1>3. CASE SlaveParse
  <2> DEFINE fr == Head(s_rbuf)
  <2>1. s_pc = "parse" /\ s_rbuf \in Seq(Frames) /\ s_rbuf # <<>>
    BY <1>3 DEF SlaveParse, TypeInv, SlaveTypes, SlaveTypeOK
  <2>2. fr \in Frames /\ fr = s_rbuf[1]
    BY <2>1, HeadTailProperties
  <2>3. PICK w \in iec104_s_frame_parse(Work, fr) : SlaveInstall(w)
    BY <1>3 DEF SlaveParse
  <2>4. UNCHANGED <<acc, s_app>>
    BY <1>3 DEF SlaveParse
  <2> HIDE DEF fr
  <2>5. /\ w.close <=> fr = STOPDT
        /\ fr = STARTDT => w.st.init = "CONNECT_OK"
        /\ fr \notin {STARTDT, STOPDT} => w.st.init = s.init
        /\ Consecutive(w.out, s.build_send, w.st.build_send)
    BY <1>0, <2>2, <2>3, ParseEffect
  <2>6. WorkOK(w)
    BY <1>0, <2>2, <2>3, ParseOK
  <2>7. s' = w.st /\ s_client' = IF w.close THEN NoConn ELSE s_client
    BY <2>3 DEF SlaveInstall
  <2>8. Numbering' /\ Continuing' /\ (s_app.pc # "idle" => s'.build_send = s.build_send)
    BY <2>3, <2>4, <2>5, <2>6, PassNumbers
  <2>9. acc.pc # "install"
    BY <2>1, Pointers DEF OrderInv, Reading
  <2>10. s_client' # NoConn => s'.init # "INIT"
    <3>1. s_client # NoConn /\ s.init = "INIT" => fr = STARTDT
      BY <2>1, <2>2 DEF OrderInv, Starting
    <3>2. QED
      BY <2>5, <2>7, <3>1
  <2>11. QED
    BY <2>4, <2>8, <2>9, <2>10 DEF Reporting
<1>4. QED
  BY <1>1, <1>2, <1>3 DEF SlaveExec

LEMMA AcceptNumbers ==
  ASSUME TypeInv, LinkInv, OrderInv, Reporting, Numbering, Continuing, ~SponOvertaken,
         SlaveAccept, UNCHANGED got
  PROVE  Reporting' /\ Numbering' /\ Continuing'
<1>1. CASE AcceptClient
  <2> DEFINE c == Head(backlog)
             n == [net EXCEPT ![c].slv = "open"]
  <2>0. backlog \in Seq(Conns) /\ DOMAIN net = Conns /\ \A d \in Conns : DOMAIN net[d] = Fields
    BY DEF TypeInv, LinkTypes, NetOK, ConnRecord, Fields
  <2>1. /\ backlog # <<>> /\ net' = SlaveClosed(n, s_client) /\ s_client' = NoConn
        /\ acc'.pc # "install" /\ UNCHANGED <<s, s_app>>
    BY <1>1 DEF AcceptClient, slaveVars
  <2>2. c \in Conns
    BY <2>0, <2>1, HeadTailProperties
  <2>3. /\ DOMAIN n = Conns /\ \A d \in Conns : DOMAIN n[d] = Fields
        /\ \A d \in Conns : n[d].down = net[d].down /\ n[d].mst = net[d].mst
    BY <2>0, <2>2 DEF Fields
  <2> HIDE DEF n
  <2>4. \A d \in Conns : net'[d].mst = "open" => net[d].mst = "open" /\ net'[d].down = net[d].down
    <3>1. CASE s_client = NoConn
      BY <2>1, <2>3, <3>1 DEF SlaveClosed
    <3>2. CASE s_client # NoConn
      <4>1. net' = IF n[s_client].mst = "closed" THEN [n EXCEPT ![s_client] = Fresh]
                   ELSE [n EXCEPT ![s_client].slv = "closed", ![s_client].up = <<>>]
        BY <2>1, <3>2 DEF SlaveClosed
      <4>2. s_client \in Conns
        BY <3>2, Pointers
      <4>3. QED
        BY <2>3, <4>1, <4>2 DEF Fresh, Fields
    <3>3. QED
      BY <3>1, <3>2
  <2>5. Numbering'
    <3>1. \A d \in Conns : net'[d].mst = "open" => InOrder(net'[d].down, got'[d])
      BY <2>4 DEF Numbering
    <3>2. QED
      BY <3>1, NumberingNext
  <2>6. QED
    BY <2>1, <2>5 DEF Reporting, Continuing
<1>2. CASE AcceptWake
  <2>1. acc'.pc = "conn" /\ UNCHANGED <<net, s_client, s, s_app>>
    BY <1>2 DEF AcceptWake, slaveVars, TypeInv, LinkTypes
  <2>2. QED
    BY <2>1 DEF Reporting, Numbering, Continuing, InOrder, Consecutive, Numbered, NextSn
<1>3. CASE AcceptConnected
  <2>1. /\ acc.pc = "conn" /\ acc'.pc = "install" /\ s_client = NoConn
        /\ UNCHANGED <<net, s_client, s_app>>
    BY <1>3, Pointers DEF AcceptConnected, TypeInv, LinkTypes
  <2>2. s_app.pc = "idle"
    BY <2>1 DEF SponOvertaken, SlaveResets
  <2>3. s'.build_send = 0
    BY <1>3 DEF AcceptConnected, iec104_s_reset_param, TypeInv, SlaveTypes, SlaveTypeOK, SlaveStation
  <2>4. Numbering'
    <3>1. \A d \in Conns : net'[d].mst = "open" => InOrder(net'[d].down, got'[d])
      BY <2>1 DEF Numbering
    <3>2. QED
      BY <3>1, NumberingNext
  <2>5. Reporting' /\ Continuing'
    BY <2>1, <2>2, <2>3 DEF Reporting, Continuing
  <2>6. QED
    BY <2>4, <2>5
<1>4. CASE AcceptInstall
  <2>1. /\ acc.pc = "install" /\ s_client' = acc.tcp /\ acc'.pc = "accept"
        /\ UNCHANGED <<net, s, s_app>>
    BY <1>4 DEF AcceptInstall, slaveVars
  <2>2. acc.tcp \in Conns
    BY <2>1, Pointers DEF TypeInv, LinkTypes, Ends
  <2>3. s.build_send = 0 /\ s_app.pc = "idle"
    BY <2>1 DEF Reporting
  <2>4. got[acc.tcp] = 0 /\ Len(net[acc.tcp].down) = 0 /\ net[acc.tcp].down \in Seq(Frames)
    BY <2>2 DEF OrderInv, Beginning, Pending, TypeInv, LinkTypes, NetOK, ConnRecord
  <2>5. Consecutive(net[acc.tcp].down, got[acc.tcp], s.build_send)
    BY <2>3, <2>4, SnRange, ConsecutiveEmpty
  <2>6. Continuing'
    <3>1. NextSn' = s.build_send
      BY <2>1, <2>3 DEF NextSn
    <3>2. net' = net /\ got' = got /\ s_client' = acc.tcp
      BY <2>1
    <3>3. QED
      BY <2>5, <3>1, <3>2, Zenon DEF Continuing
  <2>7. QED
    BY <2>1, <2>3, <2>6 DEF Reporting, Numbering, InOrder, Numbered
<1>5. QED
  BY <1>1, <1>2, <1>3, <1>4 DEF SlaveAccept

LEMMA AppNumbers ==
  ASSUME TypeInv, LinkInv, OrderInv, Reporting, Numbering, Continuing, SlaveApp, UNCHANGED got
  PROVE  Reporting' /\ Numbering' /\ Continuing'
<1>0. /\ s \in SlaveStation /\ s_app \in [pc : {"idle", "put", "send"}, sn : Sn, fr : Frames]
      /\ got \in [Conns -> Sn]
  BY DEF TypeInv, SlaveTypes, SlaveTypeOK, PeerTypes
<1>1. CASE SponBegin
  <2>1. /\ s_app.pc = "idle" /\ s.init = "IDLE" /\ s_app'.pc = "put" /\ s_app'.sn = s.build_send
        /\ UNCHANGED <<net, s_client, acc, s>>
    BY <1>0, <1>1 DEF SponBegin, linkVars
  <2>2. acc.pc # "install"
    BY <2>1 DEF OrderInv, Starting
  <2>3. QED
    BY <2>1, <2>2 DEF Reporting, Numbering, Continuing, InOrder, Consecutive, Numbered, NextSn
<1>2. CASE SponPut
  <2>1. /\ s_app.pc = "put" /\ s'.build_send = (s_app.sn + 1) % SnMod /\ s'.init = s.init
        /\ UNCHANGED <<net, s_client, acc>>
    BY <1>0, <1>2 DEF SponPut, linkVars, SlaveStation
  <2>2. s_app'.pc = "send" /\ s_app'.fr.f = "I" /\ s_app'.fr.ss = s_app.sn
    BY <1>0, <1>2 DEF SponPut, IFrame
  <2>3. s_app.sn = s.build_send
    BY <2>1 DEF Reporting
  <2>4. NextSn' = NextSn
    BY <2>1, <2>2, <2>3 DEF NextSn
  <2>5. QED
    BY <2>1, <2>2, <2>4 DEF Reporting, Numbering, Continuing, InOrder, Consecutive, Numbered
<1>3. CASE SponSend
  <2> DEFINE c == s_client
             fr == s_app.fr
  <2>1. /\ s_app.pc = "send" /\ net' = SlaveSent(net, c, <<fr>>) /\ s_app'.pc = "idle"
        /\ UNCHANGED <<s_client, acc, s>>
    BY <1>3 DEF SponSend, AppIdle
  <2>2. fr \in Frames /\ fr.f = "I" /\ s.build_send = (fr.ss + 1) % SnMod
    BY <1>0, <2>1 DEF Reporting
  <2>3. fr.ss \in Sn /\ <<fr>> \in Seq(Frames)
    BY <2>2 DEF Frames, UFrames, SFrames, IFrames
  <2>4. DOMAIN net = Conns /\ \A d \in Conns : DOMAIN net[d] = Fields /\ net[d].down \in Seq(Frames)
    BY DEF TypeInv, LinkTypes, NetOK, ConnRecord, Fields
  <2>5. Consecutive(<<fr>>, fr.ss, s.build_send)
    <3>1. /\ Len(<<fr>>) = 1 /\ <<fr>>[1] = fr /\ fr.ss + 1 - 1 = fr.ss
          /\ fr.ss % SnMod = fr.ss
      BY <2>3, SnRange, SmallMod
    <3> HIDE DEF fr
    <3>2. \A i \in 1 .. Len(<<fr>>) : <<fr>>[i].f = "I" /\ <<fr>>[i].ss = (fr.ss + i - 1) % SnMod
      BY <2>2, <3>1
    <3>3. Consecutive(<<fr>>, fr.ss, (fr.ss + Len(<<fr>>)) % SnMod)
      BY <2>3, <3>2, ConsecutiveList
    <3>4. QED
      BY <2>2, <3>1, <3>3
  <2> HIDE DEF fr
  <2>6. /\ \A d \in Conns : d # c => net'[d] = net[d]
        /\ c # NoConn => /\ net'[c].mst = net[c].mst /\ net'[c].cut = net[c].cut
                         /\ net'[c].down = IF net[c].cut \/ net[c].mst = "closed" THEN net[c].down
                                           ELSE net[c].down \o <<fr>>
    BY <2>1, <2>4, Pointers DEF SlaveSent, Fields
  <2>7. ASSUME c # NoConn, net[c].mst = "open", ~net[c].cut
        PROVE  Consecutive(net'[c].down, got[c], s.build_send)
    <3>1. c \in Conns
      BY <2>7, Pointers
    <3>2. net[c].down \in Seq(Frames) /\ got[c] \in Int
      BY <1>0, <2>4, <3>1, SnRange
    <3>3. Consecutive(net[c].down, got[c], fr.ss)
      BY <2>1, <2>7 DEF Continuing, NextSn, fr
    <3>4. Consecutive(net[c].down \o <<fr>>, got[c], s.build_send)
      BY <2>3, <2>5, <3>2, <3>3, ConsecutiveConcat
    <3>5. QED
      BY <2>6, <2>7, <3>4
  <2>8. Numbering'
    <3> SUFFICES ASSUME NEW d \in Conns, net'[d].mst = "open" PROVE InOrder(net'[d].down, got[d])
      BY DEF Numbering, InOrder, Numbered
    <3>1. CASE d # c \/ net[d].cut
      BY <2>6, <3>1, LinkAssumption DEF Numbering
    <3>2. CASE d = c /\ ~net[d].cut
      BY <2>6, <2>7, <3>2, LinkAssumption DEF Consecutive
    <3>3. QED
      BY <3>1, <3>2
  <2>9. Continuing'
    <3>1. NextSn' = s.build_send
      BY <2>1 DEF NextSn
    <3>2. QED
      BY <2>1, <2>6, <2>7, <3>1 DEF Continuing, Consecutive, InOrder, Numbered
  <2>10. Reporting'
    BY <2>1 DEF Reporting
  <2>11. QED
    BY <2>8, <2>9, <2>10
<1>4. QED
  BY <1>1, <1>2, <1>3 DEF SlaveApp

LEMMA PeerNumbers ==
  ASSUME TypeInv, LinkInv, Reporting, Numbering, Continuing, NEW c \in Conns,
         PeerConnect(c) \/ PeerRead(c) \/ PeerClose(c) \/ (\E fr \in PeerFrames : PeerSend(c, fr))
           \/ (LinkCut(c) /\ UNCHANGED <<slaveVars, peerVars, origin, heard, race>>)
  PROVE  Reporting' /\ Numbering' /\ Continuing'
<1>0. /\ DOMAIN net = Conns /\ DOMAIN net[c] = Fields /\ net[c].down \in Seq(Frames)
      /\ got \in [Conns -> Sn] /\ c # NoConn
  BY LinkAssumption DEF TypeInv, LinkTypes, PeerTypes, NetOK, ConnRecord, Fields
<1>1. UNCHANGED <<s_client, acc, s, s_app>>
  BY DEF PeerConnect, PeerRead, PeerClose, PeerSend, LinkCut, slaveVars
<1>2. Reporting'
  BY <1>1 DEF Reporting
<1>3. NextSn' = NextSn
  BY <1>1 DEF NextSn
<1>4. ASSUME \A d \in Conns : d # c => net'[d] = net[d] /\ got'[d] = got[d],
             net'[c].mst = "open" => InOrder(net'[c].down, got'[c]),
             c = s_client /\ net'[c].mst = "open" /\ ~net'[c].cut =>
               Consecutive(net'[c].down, got'[c], NextSn)
      PROVE  Numbering' /\ Continuing'
  <2>1. \A d \in Conns : net'[d].mst = "open" => InOrder(net'[d].down, got'[d])
    <3>1. ASSUME NEW d \in Conns, d # c, net'[d].mst = "open"
          PROVE  InOrder(net'[d].down, got'[d])
      <4>1. net'[d] = net[d] /\ got'[d] = got[d]
        BY <1>4, <3>1
      <4>2. QED
        BY <3>1, <4>1 DEF Numbering
    <3>2. QED
      BY <1>4, <3>1
  <2>5. Numbering'
    BY <2>1, NumberingNext
  <2>2. s_client # NoConn => s_client \in Conns
    BY Pointers
  <2>3. s_client' # NoConn /\ net'[s_client'].mst = "open" /\ ~net'[s_client'].cut =>
          Consecutive(net'[s_client'].down, got'[s_client'], NextSn')
    <3>1. CASE s_client = c
      BY <1>1, <1>3, <1>4, <3>1
    <3>2. CASE s_client # c
      BY <1>1, <1>3, <1>4, <2>2, <3>2 DEF Continuing
    <3>3. QED
      BY <3>1, <3>2
  <2>4. QED
    BY <2>3, <2>5, ContinuingNext
<1>5. CASE PeerConnect(c)
  <2>1. /\ net[c] = Fresh /\ net' = [net EXCEPT ![c].mst = "open"] /\ got' = [got EXCEPT ![c] = 0]
    BY <1>5 DEF PeerConnect
  <2>2. c # s_client
    BY <2>1, Pointers DEF Fresh
  <2>3. net'[c].down = <<>> /\ \A d \in Conns : d # c => net'[d] = net[d] /\ got'[d] = got[d]
    BY <1>0, <2>1 DEF Fresh, Fields
  <2>4. InOrder(net'[c].down, got'[c])
    BY <2>3, EmptySeq DEF InOrder
  <2>5. QED
    BY <1>2, <1>4, <2>2, <2>3, <2>4
<1>6. CASE \E fr \in PeerFrames : PeerSend(c, fr)
  <2>1. PICK fr \in PeerFrames : PeerSend(c, fr)
    BY <1>6
  <2>2. net' = MasterSent(net, c, <<fr>>) /\ got' = got
    BY <2>1 DEF PeerSend
  <2>3. \A d \in Conns : net'[d].mst = net[d].mst /\ net'[d].cut = net[d].cut /\ net'[d].down = net[d].down
    BY <1>0, <2>2 DEF MasterSent, Fields
  <2>4. QED
    BY <1>1, <2>2, <2>3, QuietNumbers
<1>7. CASE PeerRead(c)
  <2> DEFINE q == net[c].down
             b == got[c]
             n == IF Head(q).f = "I" THEN (b + 1) % SnMod ELSE b
  <2>1. /\ net[c].mst = "open" /\ q # <<>> /\ net' = [net EXCEPT ![c].down = Tail(@)]
        /\ got' = [got EXCEPT ![c] = n]
    BY <1>7 DEF PeerRead
  <2>2. /\ \A d \in Conns : d # c => net'[d] = net[d] /\ got'[d] = got[d]
        /\ net'[c].down = Tail(q) /\ got'[c] = n /\ net'[c].cut = net[c].cut
    BY <1>0, <2>1 DEF Fields
  <2>3. q \in Seq(Frames) /\ b \in Sn
    BY <1>0
  <2>4. InOrder(q, b)
    BY <2>1 DEF Numbering
  <2>5. c = s_client /\ ~net'[c].cut => Consecutive(q, b, NextSn)
    BY <1>0, <2>1, <2>2 DEF Continuing
  <2> HIDE DEF q, b
  <2>6. ASSUME NEW e, Consecutive(q, b, e) PROVE Consecutive(Tail(q), n, e)
    BY <2>1, <2>3, <2>6, ConsecutiveTail
  <2>7. InOrder(Tail(q), n)
    <3>1. Consecutive(q, b, (b + Numbered(q, Len(q))) % SnMod)
      BY <2>4 DEF Consecutive
    <3>2. QED
      BY <2>6, <3>1 DEF Consecutive
  <2> HIDE DEF n
  <2>8. QED
    BY <1>2, <1>4, <2>2, <2>5, <2>6, <2>7
<1>8. CASE PeerClose(c)
  <2>1. net' = MasterClosed(net, c) /\ got' = got
    BY <1>8 DEF PeerClose, peerVars
  <2>2. net'[c].mst # "open" /\ \A d \in Conns : d # c => net'[d] = net[d]
    BY <1>0, <2>1 DEF MasterClosed, Fresh, Fields
  <2>3. QED
    BY <1>2, <1>4, <2>1, <2>2
<1>9. CASE LinkCut(c) /\ UNCHANGED <<slaveVars, peerVars, origin, heard, race>>
  <2>1. net' = [net EXCEPT ![c].cut = TRUE, ![c].up = <<>>, ![c].down = <<>>] /\ got' = got
    BY <1>9 DEF LinkCut, peerVars
  <2>2. net'[c].cut /\ net'[c].down = <<>> /\ \A d \in Conns : d # c => net'[d] = net[d]
    BY <1>0, <2>1 DEF Fields
  <2>3. InOrder(net'[c].down, got'[c])
    BY <2>2, EmptySeq DEF InOrder
  <2>4. QED
    BY <1>2, <1>4, <2>1, <2>2, <2>3
<1>10. QED
  BY <1>5, <1>6, <1>7, <1>8, <1>9

LEMMA NumberNext == TypeInv /\ LinkInv /\ OrderInv /\ NumberInv /\ [Next]_vars => NumberInv'
<1> SUFFICES ASSUME TypeInv, LinkInv, OrderInv, NumberInv, [Next]_vars, ~race'
             PROVE  Reporting' /\ Numbering' /\ Continuing'
  BY DEF NumberInv
<1>0. race \in BOOLEAN
  BY DEF TypeInv, PeerTypes
<1>1. CASE Peer \/ \E c \in Conns : LinkCut(c) /\ UNCHANGED <<slaveVars, peerVars, origin, heard, race>>
  <2>1. ~race
    BY <1>1 DEF Peer, PeerConnect, PeerRead, PeerClose, PeerSend
  <2>2. QED
    BY <1>1, <2>1, PeerNumbers DEF Peer, NumberInv
<1>2. CASE SlaveStep
  <2>1. ~race /\ ~SponOvertaken
    BY <1>2, Zenon DEF SlaveStep
  <2>2. UNCHANGED got
    BY <1>2 DEF SlaveStep, peerVars
  <2>3. QED
    BY <1>2, <2>1, <2>2, ExecNumbers, AcceptNumbers, AppNumbers DEF SlaveStep, NumberInv
<1>3. CASE PeerTick
  <2>1. s'.init = s.init /\ s'.build_send = s.build_send
    BY <1>3 DEF PeerTick, SlaveAged, TypeInv, SlaveTypes, SlaveTypeOK, SlaveStation
  <2>2. UNCHANGED <<net, s_client, acc, s_app, got, race>>
    BY <1>3 DEF PeerTick, linkVars, peerVars
  <2>3. QED
    BY <2>1, <2>2, QuietNumbers DEF NumberInv
<1>4. CASE UNCHANGED vars
  <2>1. UNCHANGED <<net, s_client, acc, s, s_app, got, race>>
    BY <1>4 DEF vars, linkVars, slaveVars, peerVars
  <2>2. QED
    BY <2>1, QuietNumbers DEF NumberInv
<1>5. QED
  BY <1>1, <1>2, <1>3, <1>4 DEF Next

LEMMA NumberStart == PeerInit => NumberInv
<1> SUFFICES ASSUME PeerInit PROVE Reporting /\ Numbering /\ Continuing
  BY DEF NumberInv
<1>1. /\ \A c \in Conns : net[c].mst = "none"
      /\ s_client = NoConn /\ acc.pc = "accept" /\ s_app.pc = "idle"
  BY DEF PeerInit, LinkInit, SlaveInit, Fresh, AppIdle
<1>2. QED
  BY <1>1 DEF Reporting, Numbering, Continuing

(* Under the same condition the peer of every connection receives I frames *)
(* numbered 0, 1, 2, ... modulo 2^15, over any interrogations, commands,   *)
(* reports and reconnections, until a report is overtaken by another       *)
(* thread while it carries a number.                                       *)
THEOREM NumbersFromZero == SleepOutlastsParse => (Spec => []NumberedFromZero)
<1> SUFFICES ASSUME SleepOutlastsParse PROVE Spec => []NumberedFromZero
  OBVIOUS
<1>1. TypeInv /\ LinkInv /\ OrderInv /\ [Next]_vars => OrderInv'
  BY OrderNext
<1>2. NumberInv => NumberedFromZero
  BY DEF NumberInv, Numbering, InOrder, NumberedFromZero
<1>3. QED
  BY <1>1, <1>2, LinkStart, LinkNext, TypeStart, TypeNext, OrderStart, NumberStart, NumberNext,
     PTL DEF Spec
=============================================================================
