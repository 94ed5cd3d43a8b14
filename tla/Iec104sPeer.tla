----------------------------- MODULE Iec104sPeer -----------------------------
(***************************************************************************)
(* The slave of wow_iec104s.c against any peers: clients that connect,     *)
(* send any frames, disappear and come back, several at a time, while the  *)
(* application reports changes and the clock is set by command.  A peer    *)
(* starts a connection with STARTDT and sends nothing on it after STOPDT.  *)
(***************************************************************************)
EXTENDS Iec104s

CONSTANTS PeerFrames,  \* what a peer may send
          MaxPeer      \* bound: frames the peers send in a behaviour

ASSUME PeerAssumption == PeerFrames \subseteq Frames /\ MaxPeer \in Nat

VARIABLES peer_sent,   \* frames the peers have sent
          phase,       \* phase[c]: what the peer may send on c
          origin,      \* the connection recv_buf was read from, if it still exists
          heard,       \* heard[c]: 1 + the number of the last I frame parsed from c
          got,         \* got[c]: I frames the peer of c has read
          race         \* a thread renumbered under the application thread

peerVars == <<peer_sent, phase, got>>
vars == <<linkVars, slaveVars, peerVars, origin, heard, race>>

PeerInit ==
  /\ LinkInit /\ SlaveInit
  /\ peer_sent = 0 /\ origin = NoConn /\ race = FALSE
  /\ phase = [c \in Conns |-> "new"]
  /\ heard = [c \in Conns |-> 0]
  /\ got = [c \in Conns |-> 0]

(* The types of the sockets, of the slave and of what an observer notes.   *)
TypeOK ==
  /\ LinkTypeOK /\ SlaveTypeOK
  /\ peer_sent \in 0 .. MaxPeer
  /\ phase \in [Conns -> {"new", "started", "stopped"}]
  /\ origin \in Conns \cup {NoConn}
  /\ heard \in [Conns -> 0 .. SnMod]
  /\ got \in [Conns -> Sn]
  /\ race \in BOOLEAN

-----------------------------------------------------------------------------
(* The peers.                                                              *)

PeerConnect(c) ==
  /\ net[c] = Fresh
  /\ net' = [net EXCEPT ![c].mst = "open"]
  /\ backlog' = Append(backlog, c)
  /\ heard' = [heard EXCEPT ![c] = 0]
  /\ got' = [got EXCEPT ![c] = 0]
  /\ phase' = [phase EXCEPT ![c] = "new"]
  /\ origin' = IF origin = c THEN NoConn ELSE origin
  /\ UNCHANGED <<m_client, s_client, acc, slaveVars, peer_sent, race>>

PeerSend(c, fr) ==
  /\ net[c].mst = "open" /\ peer_sent < MaxPeer
  /\ \/ phase[c] = "new" /\ fr = UFrame("STARTDT")
     \/ phase[c] = "started"
  /\ net' = MasterSent(net, c, <<fr>>)
  /\ phase' = [phase EXCEPT ![c] = IF fr = UFrame("STOPDT") THEN "stopped" ELSE "started"]
  /\ peer_sent' = peer_sent + 1
  /\ UNCHANGED <<backlog, m_client, s_client, acc, slaveVars, got, origin, heard, race>>

PeerRead(c) ==
  /\ net[c].mst = "open" /\ net[c].down # <<>>
  /\ net' = [net EXCEPT ![c].down = Tail(@)]
  /\ got' = [got EXCEPT ![c] = IF Head(net[c].down).f = "I" THEN (@ + 1) % SnMod ELSE @]
  /\ UNCHANGED <<backlog, m_client, s_client, acc, slaveVars, peer_sent, phase,
                 origin, heard, race>>

PeerClose(c) ==
  /\ net[c].mst = "open"
  /\ net' = MasterClosed(net, c)
  /\ UNCHANGED <<backlog, m_client, s_client, acc, slaveVars, peerVars, origin, heard, race>>

Peer == \E c \in Conns : \/ PeerConnect(c) \/ PeerRead(c) \/ PeerClose(c)
                         \/ \E fr \in PeerFrames : PeerSend(c, fr)

-----------------------------------------------------------------------------
(* The slave, and what the history variables record of its step.           *)
SlaveStep ==
  /\ SlaveExec \/ SlaveAccept \/ SlaveApp
  /\ origin' = IF s_pc = "recv" /\ s_pc' = "parse" THEN s_client ELSE origin
  /\ heard' = IF s_pc = "parse" /\ s_rbuf' = Tail(s_rbuf)
                 /\ Head(s_rbuf).f = "I" /\ Head(s_rbuf).own /\ origin # NoConn
              THEN [heard EXCEPT ![origin] = Head(s_rbuf).ss + 1]
              ELSE heard
  /\ race' = (race \/ SponOvertaken)
  /\ UNCHANGED peerVars

PeerTick ==
  /\ s' = SlaveAged(s)
  /\ UNCHANGED <<linkVars, s_pc, s_rbuf, s_app, s_serv, s_spon, peerVars,
                 origin, heard, race>>

Next == Peer \/ SlaveStep \/ PeerTick \/ \E c \in Conns :
          LinkCut(c) /\ UNCHANGED <<slaveVars, peerVars, origin, heard, race>>

Spec == PeerInit /\ [][Next]_vars

(* Every thread of the slave is scheduled again and time goes on; the end  *)
(* of sleep(1) comes however often the exec thread is parsing meanwhile.   *)
FairSpec ==
  /\ Spec
  /\ WF_vars(SlaveStep /\ SlaveExec)
  /\ WF_vars(SlaveStep /\ (AcceptClient \/ AcceptConnected \/ AcceptInstall))
  /\ SF_vars(SlaveStep /\ AcceptWake)
  /\ WF_vars(PeerTick)

-----------------------------------------------------------------------------
(* Every connection the slave has accepted and not closed is in reach of   *)
(* the code: port->client or the accept callback holds it.                 *)
NoLeak ==
  \A c \in Conns : net[c].slv = "open" => c \in {s_client, acc.tcp}

(* The slave's N(R) belongs to the connection it is sent on: it follows    *)
(* the last I frame that came over port->client, also when the accept      *)
(* thread replaced the client while the exec thread held frames of the     *)
(* old one.                                                                *)
AckCurrent == s_client # NoConn => s.build_recv = heard[s_client]

(* On every connection the peer receives I frames numbered 0, 1, 2, ...    *)
(* unless an application thread was overtaken while it numbered a frame.   *)
NumberedFromZero ==
  ~race => \A c \in Conns : net[c].mst = "open" =>
    \A i \in 1 .. Len(net[c].down) :
      net[c].down[i].f = "I" => net[c].down[i].ss = (got[c] + Numbered(net[c].down, i - 1)) % SnMod

(* A connection in the backlog becomes port->client: the slave accepts a   *)
(* new peer although it never learns that the old one is gone.             *)
WaitingServed ==
  \A c \in Conns : (\E i \in 1 .. Len(backlog) : backlog[i] = c) ~> (s_client = c)

==============================================================================
