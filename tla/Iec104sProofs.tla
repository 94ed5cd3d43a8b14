---------------------------- MODULE Iec104sProofs ----------------------------
(***************************************************************************)
(* What is proved of the IEC 104 slave and its port whoever the peers are: *)
(* which sockets are open (LinkInv), the types, and the numbers a pass of  *)
(* the exec thread gives to the I frames it writes.  Iec104sPeerProofs and *)
(* Iec104Proofs build on it.                                               *)
(*                                                                         *)
(* The handlers touch a socket only through SlaveInstall, so LinkInv needs *)
(* nothing else of them: it relates the kernel's connections to            *)
(* port->client and to the pointer the accept thread holds.                *)
(***************************************************************************)
EXTENDS Iec104s, SequenceTheorems, FiniteSetTheorems, TLAPS

Fields == {"up", "down", "mst", "slv", "cut"}

Shaped(n) == DOMAIN n = Conns /\ \A c \in Conns : DOMAIN n[c] = Fields

(* Two networks whose connections are in the same states.                  *)
SameEnds(n, k) == \A c \in Conns : n[c].mst = k[c].mst /\ n[c].slv = k[c].slv

Waiting(n, q) ==
  /\ \A i \in 1 .. Len(q) : n[q[i]].slv = "none" /\ n[q[i]].mst # "none"
  /\ \A i, j \in 1 .. Len(q) : q[i] = q[j] => i = j

Held(n, p, a) ==
  /\ p \in Conns \cup {NoConn} /\ a.tcp \in Conns \cup {NoConn}
  /\ a.pc = "accept" <=> a.tcp = NoConn
  /\ a.pc # "accept" => p = NoConn
  /\ p # NoConn => n[p].slv = "open"
  /\ \A c \in Conns : n[c].slv = "open" => c \in {p, a.tcp}

LinkInv ==
  /\ Shaped(net)
  /\ backlog \in Seq(Conns)
  /\ Waiting(net, backlog)
  /\ DOMAIN acc = {"pc", "tcp"}
  /\ Held(net, s_client, acc)
  /\ acc.pc # "accept" => net[acc.tcp].slv = "open"

-----------------------------------------------------------------------------
(* Writing and reading leave every connection in its state.                *)
LEMMA SentKeeps ==
  ASSUME NEW n, Shaped(n), NEW c \in Conns \cup {NoConn}, NEW fr
  PROVE  /\ Shaped(SlaveSent(n, c, fr)) /\ SameEnds(SlaveSent(n, c, fr), n)
         /\ Shaped(MasterSent(n, c, fr)) /\ SameEnds(MasterSent(n, c, fr), n)
  BY LinkAssumption DEF Shaped, SameEnds, SlaveSent, MasterSent, Fields

(* wow_tcp_close touches no other connection, and forgets or closes this.  *)
LEMMA SlaveClosedEnds ==
  ASSUME NEW n, Shaped(n), NEW c \in Conns \cup {NoConn}
  PROVE  /\ Shaped(SlaveClosed(n, c))
         /\ \A d \in Conns : d # c => SlaveClosed(n, c)[d] = n[d]
         /\ c \in Conns => SlaveClosed(n, c)[c].slv # "open"
  BY LinkAssumption DEF Shaped, SlaveClosed, Fields, Fresh

(* What the peer closes stays accepted exactly if it was.                  *)
LEMMA MasterClosedEnds ==
  ASSUME NEW n, Shaped(n), NEW c \in Conns, n[c].mst = "open"
  PROVE  /\ Shaped(MasterClosed(n, c))
         /\ \A d \in Conns : d # c => MasterClosed(n, c)[d] = n[d]
         /\ n[c].slv # "closed" => /\ MasterClosed(n, c)[c].slv = n[c].slv
                                   /\ MasterClosed(n, c)[c].mst # "none"
         /\ n[c].slv = "closed" => MasterClosed(n, c)[c].slv = "none"
  BY LinkAssumption DEF Shaped, MasterClosed, Fields, Fresh

(* The invariant does not depend on what is queued.                        *)
LEMMA SameEndsInv ==
  ASSUME LinkInv, Shaped(net'), SameEnds(net', net), UNCHANGED <<backlog, s_client, acc>>
  PROVE  LinkInv'
<1>1. \A i \in 1 .. Len(backlog) : backlog[i] \in Conns
  BY DEF LinkInv
<1>2. Waiting(net, backlog)'
  BY <1>1 DEF LinkInv, Waiting, SameEnds
<1>3. Held(net, s_client, acc)' /\ (acc.pc # "accept" => net[acc.tcp].slv = "open")'
  BY DEF LinkInv, Held, SameEnds
<1>4. QED
  BY <1>2, <1>3 DEF LinkInv

(* What any pass of the exec thread leaves behind.                         *)
LEMMA InstallInv ==
  ASSUME LinkInv, NEW w, SlaveInstall(w), UNCHANGED <<backlog, acc>>
  PROVE  LinkInv'
<1> DEFINE n == SlaveSent(net, s_client, w.out)
<1>0. s_client \in Conns \cup {NoConn} /\ Shaped(net)
  BY DEF LinkInv, Held
<1>1. Shaped(n) /\ SameEnds(n, net)
  BY <1>0, SentKeeps
<1>2. CASE ~w.close
  <2>1. net' = n /\ s_client' = s_client
    BY <1>2 DEF SlaveInstall
  <2>2. QED
    BY <1>1, <2>1, SameEndsInv
<1>3. CASE w.close /\ s_client = NoConn
  <2>1. net' = n /\ s_client' = s_client
    BY <1>3 DEF SlaveInstall, SlaveClosed
  <2>2. QED
    BY <1>1, <2>1, SameEndsInv
<1>4. CASE w.close /\ s_client # NoConn
  <2>1. net' = SlaveClosed(n, s_client) /\ s_client' = NoConn
    BY <1>4 DEF SlaveInstall
  <2>2. /\ Shaped(net')
        /\ \A d \in Conns : d # s_client => net'[d] = n[d]
        /\ net'[s_client].slv # "open"
    BY <1>0, <1>1, <1>4, <2>1, SlaveClosedEnds
  <2>3. acc.pc = "accept" /\ acc.tcp = NoConn /\ net[s_client].slv = "open"
    BY <1>4 DEF LinkInv, Held
  <2>4. \A i \in 1 .. Len(backlog) : backlog[i] \in Conns /\ backlog[i] # s_client
    BY <2>3 DEF LinkInv, Waiting
  <2>5. Waiting(net, backlog)'
    BY <1>1, <2>2, <2>4 DEF LinkInv, Waiting, SameEnds
  <2>6. Held(net, s_client, acc)'
    BY <1>1, <2>1, <2>2, <2>3 DEF LinkInv, Held, SameEnds
  <2>7. QED
    BY <2>2, <2>3, <2>5, <2>6 DEF LinkInv
<1>5. QED
  BY <1>2, <1>3, <1>4

-----------------------------------------------------------------------------
(* The other end, whoever it is, connects, and closes a connection.        *)
LEMMA ConnectInv ==
  ASSUME LinkInv, NEW c \in Conns, net[c].mst = "none", net[c].slv = "none",
         Shaped(net'), net'[c].mst = "open", net'[c].slv = "none",
         \A d \in Conns : d # c => net'[d] = net[d],
         backlog' = Append(backlog, c), UNCHANGED <<s_client, acc>>
  PROVE  LinkInv'
<1>0. backlog \in Seq(Conns)
  BY DEF LinkInv
<1>1. backlog' \in Seq(Conns)
  BY <1>0
<1>2. \A d \in Conns : /\ net'[d].slv = net[d].slv
                        /\ d # c => net'[d].mst = net[d].mst
  OBVIOUS
<1>3. \A i \in 1 .. Len(backlog) : backlog[i] \in Conns /\ backlog[i] # c
  BY <1>0 DEF LinkInv, Waiting
<1>4. /\ Len(backlog') = Len(backlog) + 1 /\ backlog'[Len(backlog) + 1] = c
      /\ \A i \in 1 .. Len(backlog) : backlog'[i] = backlog[i]
      /\ Len(backlog) \in Nat
  BY <1>0
<1>5. \A i \in 1 .. Len(backlog') : i \in 1 .. Len(backlog) \/ i = Len(backlog) + 1
  BY <1>4
<1>6. Waiting(net', backlog')
  BY <1>2, <1>3, <1>4, <1>5 DEF LinkInv, Waiting
<1>7. Held(net', s_client', acc') /\ (acc.pc # "accept" => net[acc.tcp].slv = "open")'
  BY <1>2 DEF LinkInv, Held
<1> QED
  BY <1>1, <1>6, <1>7 DEF LinkInv

LEMMA OtherCloses ==
  ASSUME LinkInv, NEW c \in Conns, NEW n, Shaped(n), SameEnds(n, net), net[c].mst = "open",
         net' = MasterClosed(n, c), UNCHANGED <<backlog, s_client, acc>>
  PROVE  LinkInv'
<1>1. n[c].mst = "open" /\ n[c].slv = net[c].slv
  BY DEF SameEnds
<1>2. /\ Shaped(net')
      /\ \A d \in Conns : d # c => net'[d] = n[d]
      /\ net[c].slv # "closed" => net'[c].slv = net[c].slv /\ net'[c].mst # "none"
      /\ net[c].slv = "closed" => net'[c].slv = "none"
  BY <1>1, MasterClosedEnds
<1>3. \A d \in Conns : d # c => net'[d].slv = net[d].slv /\ net'[d].mst = net[d].mst
  BY <1>2 DEF SameEnds
<1>4. \A i \in 1 .. Len(backlog) : backlog[i] \in Conns
  BY DEF LinkInv
<1>5. \A d \in Conns : net[d].slv = "open" => net'[d].slv = "open"
  BY <1>2, <1>3
<1>6. \A d \in Conns : net'[d].slv = "open" => net[d].slv = "open"
  BY <1>2, <1>3
<1>7. ASSUME NEW i \in 1 .. Len(backlog)
      PROVE  /\ net'[backlog[i]].slv = "none" /\ net'[backlog[i]].mst # "none"
  <2>1. /\ backlog[i] \in Conns
        /\ net[backlog[i]].slv = "none" /\ net[backlog[i]].mst # "none"
    BY <1>4 DEF LinkInv, Waiting
  <2>2. QED
    BY <1>2, <1>3, <2>1
<1>8. Waiting(net', backlog')
  BY <1>7 DEF LinkInv, Waiting
<1>9. Held(net', s_client', acc') /\ (acc.pc # "accept" => net[acc.tcp].slv = "open")'
  BY <1>5, <1>6 DEF LinkInv, Held
<1> QED
  BY <1>2, <1>8, <1>9 DEF LinkInv

LEMMA CutInv ==
  ASSUME LinkInv, NEW c \in Conns, LinkCut(c)
  PROVE  LinkInv'
<1>1. Shaped(net)
  BY DEF LinkInv
<1>2. Shaped(net') /\ SameEnds(net', net)
  BY <1>1 DEF LinkCut, Shaped, SameEnds, Fields
<1> QED
  BY <1>2, SameEndsInv DEF LinkCut

-----------------------------------------------------------------------------
(* The exec thread, and the application thread.                            *)
LEMMA ExecInv == LinkInv /\ (SlaveExec \/ SlaveApp) => LinkInv'
<1> SUFFICES ASSUME LinkInv, SlaveExec \/ SlaveApp PROVE LinkInv'
  OBVIOUS
<1>0. Shaped(net) /\ s_client \in Conns \cup {NoConn}
  BY DEF LinkInv, Held
<1>1. CASE SlaveStateMachine
  BY <1>1, InstallInv DEF SlaveStateMachine
<1>2. CASE SlaveRecv
  <2>1. Shaped(net') /\ SameEnds(net', net)
    <3>1. CASE net' = net
      BY <1>0, <3>1 DEF SameEnds
    <3>2. CASE \E k \in 1 .. Len(SlaveInbox) :
                 net' = [net EXCEPT ![s_client].up = SubSeq(@, k + 1, Len(@))]
      BY <1>0, <3>2 DEF Shaped, SameEnds, Fields
    <3>3. QED
      BY <1>2, <3>1, <3>2 DEF SlaveRecv
  <2>2. QED
    BY <1>2, <2>1, SameEndsInv DEF SlaveRecv
<1>3. CASE SlaveParse
  <2>1. PICK w \in iec104_s_frame_parse(Work, Head(s_rbuf)) : SlaveInstall(w)
    BY <1>3 DEF SlaveParse
  <2>2. QED
    BY <1>3, <2>1, InstallInv DEF SlaveParse
<1>4. CASE SponBegin \/ SponPut
  <2>1. UNCHANGED <<net, backlog, s_client, acc>>
    BY <1>4 DEF SponBegin, SponPut, linkVars
  <2>2. Shaped(net') /\ SameEnds(net', net)
    BY <1>0, <2>1 DEF SameEnds
  <2>3. QED
    BY <2>1, <2>2, SameEndsInv
<1>5. CASE SponSend
  <2>1. Shaped(net') /\ SameEnds(net', net)
    BY <1>0, <1>5, SentKeeps DEF SponSend
  <2>2. QED
    BY <1>5, <2>1, SameEndsInv DEF SponSend
<1>6. QED
  BY <1>1, <1>2, <1>3, <1>4, <1>5 DEF SlaveExec, SlaveApp

(* The accept thread: the client it replaces is closed before the pointer  *)
(* to it is dropped.                                                       *)
LEMMA AcceptInv == LinkInv /\ SlaveAccept => LinkInv'
<1> SUFFICES ASSUME LinkInv, SlaveAccept PROVE LinkInv'
  OBVIOUS
<1>0. Shaped(net) /\ s_client \in Conns \cup {NoConn} /\ backlog \in Seq(Conns)
  BY DEF LinkInv, Held
<1>1. CASE AcceptClient
  <2> DEFINE c == Head(backlog)
             n == [net EXCEPT ![c].slv = "open"]
  <2>1. /\ acc.pc = "accept" /\ backlog # <<>> /\ c \in Conns
        /\ net' = SlaveClosed(n, s_client) /\ s_client' = NoConn /\ backlog' = Tail(backlog)
        /\ acc' = [pc |-> IF s_client = NoConn THEN "conn" ELSE "sleep", tcp |-> c]
    BY <1>0, <1>1 DEF AcceptClient
  <2>2. c = backlog[1] /\ 1 \in 1 .. Len(backlog)
    BY <1>0, <2>1
  <2>3. net[c].slv = "none" /\ c # s_client
    BY <2>1, <2>2, LinkAssumption DEF LinkInv, Waiting, Held
  <2>4. Shaped(n) /\ n[c].slv = "open" /\ \A d \in Conns : d # c => n[d] = net[d]
    BY <1>0, <2>1 DEF Shaped, Fields
  <2>5. /\ Shaped(net')
        /\ \A d \in Conns : d # s_client => net'[d] = n[d]
        /\ s_client \in Conns => net'[s_client].slv # "open"
    <3> HIDE DEF n
    <3> QED BY <1>0, <2>1, <2>4, SlaveClosedEnds
  <2> HIDE DEF n
  <2>6. /\ backlog' \in Seq(Conns) /\ Len(backlog') = Len(backlog) - 1
        /\ \A i \in 1 .. Len(backlog') : i + 1 \in 1 .. Len(backlog) /\ backlog'[i] = backlog[i + 1]
    BY <1>0, <2>1
  <2>7. \A i \in 1 .. Len(backlog) :
          backlog[i] \in Conns /\ backlog[i] # s_client /\ (i # 1 => backlog[i] # c)
    BY <1>0, <2>1, <2>2, LinkAssumption DEF LinkInv, Waiting, Held
  <2>8. \A i \in 1 .. Len(backlog') : /\ net'[backlog'[i]] = net[backlog[i + 1]]
                                      /\ i + 1 # 1
    BY <2>4, <2>5, <2>6, <2>7
  <2>9. Waiting(net', backlog')
    BY <2>6, <2>8, SMTT(30) DEF LinkInv, Waiting
  <2>10. \A d \in Conns : net'[d].slv = "open" => d = c
    BY <2>1, <2>3, <2>4, <2>5, LinkAssumption DEF LinkInv, Held
  <2>11. net'[c].slv = "open"
    BY <2>1, <2>3, <2>4, <2>5
  <2>12. acc'.tcp = c /\ acc'.pc # "accept" /\ DOMAIN acc' = {"pc", "tcp"} /\ c # NoConn
    BY <2>1, LinkAssumption
  <2>13. QED
    BY <2>1, <2>5, <2>6, <2>9, <2>10, <2>11, <2>12 DEF LinkInv, Held
<1>2. CASE AcceptWake \/ AcceptConnected
  <2>1. /\ UNCHANGED <<net, backlog, s_client>>
        /\ acc'.pc # "accept" /\ acc.pc # "accept" /\ acc'.tcp = acc.tcp
        /\ DOMAIN acc' = {"pc", "tcp"}
    BY <1>2 DEF AcceptWake, AcceptConnected, LinkInv
  <2>2. QED
    BY <2>1 DEF LinkInv, Held, Shaped, Waiting
<1>3. CASE AcceptInstall
  <2>1. /\ UNCHANGED <<net, backlog>> /\ acc.pc = "install"
        /\ s_client' = acc.tcp /\ acc' = [pc |-> "accept", tcp |-> NoConn]
    BY <1>3 DEF AcceptInstall
  <2>2. s_client = NoConn /\ acc.tcp \in Conns /\ net[acc.tcp].slv = "open"
    BY <2>1 DEF LinkInv, Held
  <2>3. Held(net', s_client', acc')
    BY <2>1, <2>2 DEF LinkInv, Held
  <2>4. QED
    BY <2>1, <2>3 DEF LinkInv, Shaped, Waiting
<1>4. QED
  BY <1>1, <1>2, <1>3 DEF SlaveAccept

(* A connection the slave has not installed yet.                           *)
Pending(c) == c = acc.tcp \/ \E i \in 1 .. Len(backlog) : backlog[i] = c

(* What the link invariant says of the pointers.                           *)
LEMMA Pointers ==
  ASSUME LinkInv
  PROVE  /\ acc.pc = "accept" <=> acc.tcp = NoConn
         /\ s_client # NoConn => /\ s_client \in Conns /\ acc.pc = "accept"
                                 /\ net[s_client].slv = "open" /\ ~Pending(s_client)
         /\ \A c \in Conns : Pending(c) => net[c].slv # "closed"
         /\ \A c \in Conns : net[c].slv = "none" => c # acc.tcp /\ c # s_client
         /\ \A c \in Conns : net[c].mst = "none" /\ net[c].slv = "none" => ~Pending(c)
<1>1. /\ acc.pc = "accept" <=> acc.tcp = NoConn
      /\ s_client # NoConn => /\ s_client \in Conns /\ acc.pc = "accept" /\ net[s_client].slv = "open"
      /\ acc.tcp # NoConn => acc.tcp \in Conns /\ net[acc.tcp].slv = "open"
  BY DEF LinkInv, Held
<1>2. \A i \in 1 .. Len(backlog) :
        backlog[i] \in Conns /\ net[backlog[i]].slv = "none" /\ net[backlog[i]].mst # "none"
  BY DEF LinkInv, Waiting
<1>3. QED
  BY <1>1, <1>2, LinkAssumption DEF Pending

-----------------------------------------------------------------------------
Servs == {"none", "CONNECTED", "DISCONNECTED"}
WorkOK(w) ==
  /\ DOMAIN w = {"st", "out", "close", "serv"}
  /\ w.st \in SlaveStation /\ w.out \in Seq(Frames) /\ w.serv \in Servs

-----------------------------------------------------------------------------
(* Frames and numbers.                                                     *)
LEMMA SnRange ==
  /\ \A x \in Int : x % SnMod \in Sn
  /\ 0 \in Sn /\ SnMod \in Nat
  /\ \A x \in Sn : x \in Int /\ x \in 0 .. SnMod
BY FrameAssumption DEF Sn

LEMMA FramesBuilt ==
  /\ \A fn \in UFuncs : UFrame(fn) \in Frames
  /\ \A rs \in 0 .. SnMod : SFrame(rs) \in Frames
  /\ \A ty \in AsduTypes, cot \in Reasons, ia0, sel \in BOOLEAN, val \in {0, 1},
        ss \in Sn, rs \in 0 .. SnMod : IFrame(ty, cot, ia0, sel, val, ss, rs) \in Frames
<1>1. \A rs \in 0 .. SnMod : rs % SnMod \in Sn
  BY SnRange, FrameAssumption
<1>2. QED
  BY <1>1 DEF Frames, UFrames, SFrames, IFrames, UFrame, SFrame, IFrame

(* One I frame more, or a list of them.                                    *)
LEMMA BuildIOK ==
  ASSUME NEW w, WorkOK(w), NEW ty \in AsduTypes, NEW cot \in Reasons,
         NEW ia0 \in BOOLEAN, NEW sel \in BOOLEAN, NEW val \in {0, 1}
  PROVE  WorkOK(BuildI(w, ty, cot, ia0, sel, val))
<1>1. w.st.build_send \in Sn /\ w.st.build_recv \in 0 .. SnMod
  BY DEF WorkOK, SlaveStation
<1>2. (w.st.build_send + 1) % SnMod \in Sn
  BY <1>1, SnRange
<1>3. IFrame(ty, cot, ia0, sel, val, w.st.build_send, w.st.build_recv) \in Frames
  BY <1>1, FramesBuilt
<1>4. QED
  BY <1>2, <1>3 DEF WorkOK, SlaveStation, BuildI

(* The frames of a node list.                                              *)
NodeFrames(w, k, ty, cot) ==
  [i \in 1 .. k |-> IFrame(ty, cot, FALSE, FALSE, 0,
                           (w.st.build_send + i - 1) % SnMod, w.st.build_recv)]

LEMMA NodeFramesOK ==
  ASSUME NEW w, WorkOK(w), NEW k \in Nat, NEW ty \in AsduTypes, NEW cot \in Reasons
  PROVE  NodeFrames(w, k, ty, cot) \in Seq(Frames) /\ Len(NodeFrames(w, k, ty, cot)) = k
<1> DEFINE q == NodeFrames(w, k, ty, cot)
<1>1. w.st.build_send \in Sn /\ w.st.build_recv \in 0 .. SnMod
  BY DEF WorkOK, SlaveStation
<1>2. \A i \in 1 .. k : q[i] \in Frames
  <2> SUFFICES ASSUME NEW i \in 1 .. k PROVE q[i] \in Frames
    OBVIOUS
  <2>1. w.st.build_send + i - 1 \in Int
    BY <1>1, SnRange
  <2>2. (w.st.build_send + i - 1) % SnMod \in Sn
    BY <2>1, SnRange
  <2>3. IFrame(ty, cot, FALSE, FALSE, 0, (w.st.build_send + i - 1) % SnMod, w.st.build_recv) \in Frames
    BY <1>1, <2>2, FramesBuilt
  <2>4. QED
    BY <2>3 DEF NodeFrames
<1>3. q \in [1 .. k -> Frames]
  BY <1>2 DEF NodeFrames
<1>4. q \in Seq(Frames)
  BY <1>3, SeqDef
<1>5. QED
  BY <1>3, <1>4, LenProperties

LEMMA NodeListOK ==
  ASSUME NEW w, WorkOK(w), NEW k \in Nat, NEW ty \in AsduTypes, NEW cot \in Reasons
  PROVE  WorkOK(NodeList(w, k, ty, cot))
<1> DEFINE q == NodeFrames(w, k, ty, cot)
<1>1. (w.st.build_send + k) % SnMod \in Sn
  BY SnRange DEF WorkOK, SlaveStation
<1>2. NodeList(w, k, ty, cot) = [w EXCEPT !.out = @ \o q, !.st.build_send = (@ + k) % SnMod]
  BY DEF NodeList, NodeFrames
<1>3. q \in Seq(Frames)
  BY NodeFramesOK
<1> HIDE DEF q
<1>4. QED
  BY <1>1, <1>2, <1>3 DEF WorkOK, SlaveStation

-----------------------------------------------------------------------------
(* The handlers.                                                           *)
LEMMA CallsOK ==
  ASSUME NEW w, WorkOK(w), NEW fr
  PROVE  WorkOK(iec104_s_asdu_call_all(w, fr)) /\ WorkOK(iec104_s_asdu_call_pulse(w, fr))
<1>1. ASSUME NEW x, WorkOK(x)
      PROVE  WorkOK(iec104_s_build_call_ack(x)) /\ WorkOK(iec104_s_build_call_finsh(x))
  BY <1>1, BuildIOK DEF iec104_s_build_call_ack, iec104_s_build_call_finsh, AsduTypes, Reasons
<1>2. ASSUME NEW x, WorkOK(x), NEW k \in Nat
      PROVE  /\ WorkOK(iec104_s_build_yx(x, k)) /\ WorkOK(iec104_s_build_yc(x, k))
             /\ WorkOK(iec104_s_build_ym(x, k))
  BY <1>2, NodeListOK DEF iec104_s_build_yx, iec104_s_build_yc, iec104_s_build_ym, AsduTypes, Reasons
<1>3. QED
  BY <1>1, <1>2, SlaveAssumption DEF iec104_s_asdu_call_all, iec104_s_asdu_call_pulse

LEMMA ClockOK ==
  ASSUME NEW w, WorkOK(w), NEW fr, NEW x \in iec104_s_asdu_clock(w, fr)
  PROVE  WorkOK(x) /\ WorkOK(iec104_s_build_s_ack(x))
<1>1. WorkOK(x)
  <2>1. CASE x = w
    BY <2>1
  <2>2. CASE x # w
    <3>1. PICK p \in UNION {Stepped(w.st.t_test, d) \X Stepped(w.st.t_timer, d) : d \in ClockSteps} :
            x = [w EXCEPT !.st.t_test = p[1], !.st.t_timer = p[2]]
      BY <2>2 DEF iec104_s_asdu_clock
    <3>2. p[1] \in Ages /\ p[2] \in Ages
      BY <3>1 DEF Stepped
    <3>3. QED
      BY <3>1, <3>2 DEF WorkOK, SlaveStation
  <2>3. QED
    BY <2>1, <2>2
<1>2. SFrame(x.st.build_recv) \in Frames
  BY <1>1, FramesBuilt DEF WorkOK, SlaveStation
<1>3. QED
  BY <1>1, <1>2 DEF iec104_s_build_s_ack, WorkOK

LEMMA ParseOK ==
  ASSUME NEW w, WorkOK(w), NEW fr \in Frames, NEW x \in iec104_s_frame_parse(w, fr)
  PROVE  WorkOK(x)
<1>1. CASE fr.f = "I"
  <2>1. x \in iec104_s_frame_i_parse(w, fr)
    BY <1>1 DEF iec104_s_frame_parse
  <2>2. fr \in IFrames
    BY <1>1 DEF Frames, UFrames, SFrames
  <2> DEFINE d == iec104_s_deal_sn(w, fr)
  <2>3. fr.ss + 1 \in 0 .. SnMod
    BY <2>2, FrameAssumption DEF IFrames, Sn
  <2>4. WorkOK(d)
    BY <2>3 DEF iec104_s_deal_sn, WorkOK, SlaveStation
  <2> HIDE DEF d
  <2>5. WorkOK(iec104_s_build_yk_ack(d, fr)) /\ WorkOK(iec104_s_build_yt_ack(d, fr))
    <3>1. fr.ia0 \in BOOLEAN /\ fr.sel \in BOOLEAN /\ fr.val \in {0, 1}
      BY <2>2 DEF IFrames
    <3>2. {"C_SE", "C_SC"} \subseteq AsduTypes /\ "ACTCON" \in Reasons
      BY DEF AsduTypes, Reasons
    <3>3. QED
      BY <2>4, <3>1, <3>2, BuildIOK DEF iec104_s_build_yk_ack, iec104_s_build_yt_ack
  <2>6. WorkOK(iec104_s_asdu_call_all(d, fr)) /\ WorkOK(iec104_s_asdu_call_pulse(d, fr))
    BY <2>4, CallsOK
  <2>7. \A y \in iec104_s_asdu_clock(d, fr) : WorkOK(iec104_s_build_s_ack(y))
    BY <2>4, ClockOK
  <2>8. \/ x = w \/ x = d
        \/ x = iec104_s_asdu_call_all(d, fr) \/ x = iec104_s_asdu_call_pulse(d, fr)
        \/ x = iec104_s_build_yk_ack(d, fr) \/ x = iec104_s_build_yt_ack(d, fr)
        \/ \E y \in iec104_s_asdu_clock(d, fr) : x = iec104_s_build_s_ack(y)
    BY <2>1 DEF iec104_s_frame_i_parse, d
  <2>9. QED
    BY <2>4, <2>5, <2>6, <2>7, <2>8
<1>2. CASE fr.f = "U"
  <2>1. x = iec104_s_frame_u_parse(w, fr)
    BY <1>2 DEF iec104_s_frame_parse
  <2>2. UFrame("TESTER_ACK") \in Frames
    BY FramesBuilt DEF UFuncs
  <2>3. CASE x = iec104_s_build_u_ack(w, "TESTER")
    BY <2>2, <2>3 DEF iec104_s_build_u_ack, WorkOK
  <2>4. CASE x = [w EXCEPT !.st.init = "DISCONNECT", !.close = TRUE]
    <3>1. "DISCONNECT" \in LinkStates
      BY DEF LinkStates
    <3>2. QED
      BY <2>4, <3>1 DEF WorkOK, SlaveStation
  <2>5. CASE \/ x = [w EXCEPT !.st.init = "CONNECT_OK"]
             \/ x = [w EXCEPT !.st.test = "TESTER_STOP"] \/ x = w
    BY <2>5 DEF WorkOK, SlaveStation, LinkStates, TesterStates
  <2>6. QED
    BY <2>1, <2>3, <2>4, <2>5 DEF iec104_s_frame_u_parse
<1>3. CASE fr.f = "S"
  BY <1>3 DEF iec104_s_frame_parse
<1>4. QED
  BY <1>1, <1>2, <1>3 DEF Frames, UFrames, SFrames, IFrames

LEMMA ResetOK == \A st \in SlaveStation : iec104_s_reset_param(st) \in SlaveStation
<1>1. 0 \in Sn /\ 0 \in 0 .. SnMod
  BY SnRange
<1>2. Epoch \in Ages
  BY FrameAssumption DEF Ages, Epoch, MaxAge
<1>3. "INIT" \in LinkStates /\ "TESTER_START" \in TesterStates
  BY DEF LinkStates, TesterStates
<1>4. QED
  BY <1>1, <1>2, <1>3 DEF SlaveStation, iec104_s_reset_param

LEMMA LinkStepOK ==
  ASSUME NEW w, WorkOK(w)
  PROVE  WorkOK(LinkStep(w))
<1>1. 0 \in Ages /\ Epoch \in Ages
  BY FrameAssumption DEF Ages, Epoch, MaxAge
<1>2. \A fn \in UFuncs : UFrame(fn) \in Frames
  BY FramesBuilt
<1>3. CASE w.st.init = "INIT"
  <2>1. iec104_s_reset_param(w.st) \in SlaveStation
    BY ResetOK DEF WorkOK
  <2>2. QED
    BY <1>3, <2>1 DEF LinkStep, WorkOK, SlaveStation, LinkStates
<1>4. CASE w.st.init = "CONNECT_OK"
  <2>1. WorkOK(iec104_s_build_u_ack(w, "STARTDT"))
    BY <1>2 DEF iec104_s_build_u_ack, WorkOK, UFuncs
  <2>2. WorkOK(iec104_s_build_init_finsh(iec104_s_build_u_ack(w, "STARTDT")))
    BY <2>1, BuildIOK DEF iec104_s_build_init_finsh, AsduTypes, Reasons
  <2>3. QED
    BY <1>1, <1>4, <2>2 DEF LinkStep, WorkOK, SlaveStation, LinkStates, Servs
<1>5. CASE w.st.init \notin {"INIT", "CONNECT_OK"}
  BY <1>5 DEF LinkStep, WorkOK, SlaveStation, LinkStates, Servs
<1>6. QED
  BY <1>3, <1>4, <1>5

LEMMA StateMachineOK ==
  ASSUME NEW w, WorkOK(w)
  PROVE  WorkOK(iec104_s_state_machine(w))
<1>0. 0 \in Ages /\ Epoch \in Ages
  BY FrameAssumption DEF Ages, Epoch, MaxAge
<1>1. \A fn \in UFuncs : UFrame(fn) \in Frames
  BY FramesBuilt
<1>2. WorkOK(LinkStep(w))
  BY LinkStepOK
<1>3. ASSUME NEW x, WorkOK(x) PROVE WorkOK(TesterStep(x))
  <2>1. WorkOK(iec104_s_build_u(x, "TESTER"))
    BY <1>1, <1>3 DEF iec104_s_build_u, WorkOK, UFuncs
  <2>2. x.st.test \in TesterStates
    BY <1>3 DEF WorkOK, SlaveStation
  <2>3. QED
    BY <1>0, <1>3, <2>1, <2>2 DEF TesterStep, WorkOK, SlaveStation, TesterStates, LinkStates
<1>4. QED
  BY <1>2, <1>3 DEF iec104_s_state_machine

-----------------------------------------------------------------------------
(* The connections.                                                        *)
ConnRecord == [up : Seq(Frames), down : Seq(Frames), mst : EndStates, slv : EndStates, cut : BOOLEAN]
NetOK(n) == n \in [Conns -> ConnRecord]

LEMMA FreshOK == Fresh \in ConnRecord
BY DEF Fresh, ConnRecord, EndStates

LEMMA RecordOK ==
  ASSUME NEW r \in ConnRecord, NEW q \in Seq(Frames), NEW e \in EndStates
  PROVE  /\ [r EXCEPT !.slv = e, !.up = q] \in ConnRecord
         /\ [r EXCEPT !.mst = e, !.down = q] \in ConnRecord
BY DEF ConnRecord

LEMMA SentOK ==
  ASSUME NEW n, NetOK(n), NEW c \in Conns \cup {NoConn}, NEW q \in Seq(Frames)
  PROVE  NetOK(SlaveSent(n, c, q)) /\ NetOK(MasterSent(n, c, q))
<1>1. CASE c \in Conns
  <2>1. n[c] \in ConnRecord
    BY <1>1 DEF NetOK
  <2>2. n[c].up \o q \in Seq(Frames) /\ n[c].down \o q \in Seq(Frames)
    BY <2>1 DEF ConnRecord
  <2>3. /\ [n[c] EXCEPT !.up = @ \o q] \in ConnRecord
        /\ [n[c] EXCEPT !.down = @ \o q] \in ConnRecord
    BY <2>1, <2>2 DEF ConnRecord
  <2>4. QED
    BY <1>1, <2>3 DEF NetOK, SlaveSent, MasterSent
<1>2. CASE c = NoConn
  BY <1>2 DEF SlaveSent, MasterSent
<1>3. QED
  BY <1>1, <1>2

LEMMA ClosedOK ==
  ASSUME NEW n, NetOK(n), NEW c \in Conns \cup {NoConn}
  PROVE  NetOK(SlaveClosed(n, c)) /\ NetOK(MasterClosed(n, c))
<1>1. CASE c \in Conns
  <2>1. n[c] \in ConnRecord
    BY <1>1 DEF NetOK
  <2>2. /\ [n[c] EXCEPT !.slv = "closed", !.up = <<>>] \in ConnRecord
        /\ [n[c] EXCEPT !.mst = "closed", !.down = <<>>] \in ConnRecord
    <3>1. <<>> \in Seq(Frames) /\ "closed" \in EndStates
      BY DEF EndStates
    <3>2. QED
      BY <2>1, <3>1, RecordOK, Zenon
  <2>3. [n EXCEPT ![c].slv = "closed", ![c].up = <<>>]
          = [n EXCEPT ![c] = [n[c] EXCEPT !.slv = "closed", !.up = <<>>]]
    BY <1>1, Zenon DEF NetOK
  <2>4. [n EXCEPT ![c].mst = "closed", ![c].down = <<>>]
          = [n EXCEPT ![c] = [n[c] EXCEPT !.mst = "closed", !.down = <<>>]]
    BY <1>1, Zenon DEF NetOK
  <2>5. \A r \in ConnRecord : NetOK([n EXCEPT ![c] = r])
    BY DEF NetOK
  <2>6. /\ SlaveClosed(n, c) = IF n[c].mst = "closed" THEN [n EXCEPT ![c] = Fresh]
                              ELSE [n EXCEPT ![c] = [n[c] EXCEPT !.slv = "closed", !.up = <<>>]]
        /\ MasterClosed(n, c) = IF n[c].slv = "closed" THEN [n EXCEPT ![c] = Fresh]
                               ELSE [n EXCEPT ![c] = [n[c] EXCEPT !.mst = "closed", !.down = <<>>]]
    BY <1>1, <2>3, <2>4, LinkAssumption, Zenon DEF SlaveClosed, MasterClosed
  <2>7. QED
    BY <2>2, <2>5, <2>6, FreshOK, Zenon
<1>2. CASE c = NoConn
  BY <1>2 DEF SlaveClosed, MasterClosed
<1>3. QED
  BY <1>1, <1>2

-----------------------------------------------------------------------------
(* Type correctness, variable by variable.                                 *)
Ends == Conns \cup {NoConn}
LinkTypes ==
  /\ NetOK(net) /\ backlog \in Seq(Conns) /\ m_client \in Ends /\ s_client \in Ends
  /\ acc \in [pc : {"accept", "sleep", "conn", "install"}, tcp : Ends]

(* The loop over recv_buf stops at its end.                                *)
SlaveTypes ==
  /\ SlaveTypeOK
  /\ s_pc = "parse" => s_rbuf # <<>>
LEMMA InstallTypes ==
  ASSUME LinkTypes, NEW w, WorkOK(w), SlaveInstall(w)
  PROVE  NetOK(net') /\ s_client' \in Ends /\ s' \in SlaveStation /\ s_serv' \in Servs
<1> DEFINE n == SlaveSent(net, s_client, w.out)
<1>1. NetOK(n)
  BY SentOK DEF LinkTypes, WorkOK, Ends
<1>2. NetOK(SlaveClosed(n, s_client))
  <2> HIDE DEF n
  <2> QED BY <1>1, ClosedOK DEF LinkTypes, Ends
<1>3. QED
  BY <1>1, <1>2 DEF SlaveInstall, WorkOK, LinkTypes, Ends

LEMMA WorkTyped == SlaveTypes => WorkOK(Work)
<1> SUFFICES ASSUME SlaveTypes PROVE WorkOK(Work)
  OBVIOUS
<1>1. s \in SlaveStation /\ s_serv \in Servs
  BY DEF SlaveTypes, SlaveTypeOK, Servs
<1>2. QED
  BY <1>1 DEF WorkOK, Work

(* The exec thread.                                                        *)
LEMMA ExecTypes == LinkTypes /\ SlaveTypes /\ SlaveExec => (LinkTypes /\ SlaveTypes)'
<1> SUFFICES ASSUME LinkTypes, SlaveTypes, SlaveExec PROVE (LinkTypes /\ SlaveTypes)'
  OBVIOUS
<1>1. CASE SlaveStateMachine
  <2>1. WorkOK(iec104_s_state_machine(Work))
    BY WorkTyped, StateMachineOK
  <2>2. NetOK(net') /\ s_client' \in Ends /\ s' \in SlaveStation /\ s_serv' \in Servs
    BY <1>1, <2>1, InstallTypes DEF SlaveStateMachine
  <2>3. s_pc' = "recv" /\ UNCHANGED <<backlog, m_client, acc, s_rbuf, s_app, s_spon>>
    BY <1>1 DEF SlaveStateMachine
  <2>4. QED
    BY <2>2, <2>3 DEF LinkTypes, SlaveTypes, SlaveTypeOK, Servs
<1>2. CASE SlaveRecv
  <2>0. UNCHANGED <<backlog, m_client, s_client, acc, s, s_app, s_serv, s_spon>>
    BY <1>2 DEF SlaveRecv
  <2>1. CASE \E k \in 1 .. Len(SlaveInbox) :
               /\ s_rbuf' = SubSeq(SlaveInbox, 1, k)
               /\ net' = [net EXCEPT ![s_client].up = SubSeq(@, k + 1, Len(@))]
               /\ s_pc' = "parse"
    <3>1. PICK k \in 1 .. Len(SlaveInbox) :
               /\ s_rbuf' = SubSeq(SlaveInbox, 1, k)
               /\ net' = [net EXCEPT ![s_client].up = SubSeq(@, k + 1, Len(@))]
               /\ s_pc' = "parse"
      BY <2>1
    <3>2. s_client \in Conns
      BY <3>1 DEF SlaveInbox, LinkTypes, Ends
    <3>3. net[s_client] \in ConnRecord
      BY <3>2 DEF LinkTypes, NetOK
    <3>4. SlaveInbox = net[s_client].up /\ net[s_client].up \in Seq(Frames)
      BY <3>2, <3>3, LinkAssumption DEF SlaveInbox, ConnRecord
    <3>5. s_rbuf' \in Seq(Frames) /\ s_rbuf' # <<>>
      BY <3>1, <3>4
    <3>6. SubSeq(net[s_client].up, k + 1, Len(net[s_client].up)) \in Seq(Frames)
      BY <3>1, <3>4
    <3>7. NetOK(net')
      <4> DEFINE r == SubSeq(net[s_client].up, k + 1, Len(net[s_client].up))
      <4> HIDE DEF r
      <4>1. [net[s_client] EXCEPT !.up = r] \in ConnRecord
        BY <3>3, <3>6 DEF ConnRecord, r
      <4>2. net' = [net EXCEPT ![s_client] = [net[s_client] EXCEPT !.up = r]]
        BY <3>1, <3>2 DEF LinkTypes, NetOK, r
      <4>3. QED
        BY <4>1, <4>2 DEF LinkTypes, NetOK
    <3>8. QED
      BY <2>0, <3>1, <3>5, <3>7 DEF LinkTypes, SlaveTypes, SlaveTypeOK
  <2>2. CASE s_pc' = "state_machine" /\ UNCHANGED <<net, s_rbuf>>
    BY <2>0, <2>2 DEF LinkTypes, SlaveTypes, SlaveTypeOK
  <2>3. QED
    BY <1>2, <2>1, <2>2 DEF SlaveRecv
<1>3. CASE SlaveParse
  <2>1. s_rbuf \in Seq(Frames) /\ s_rbuf # <<>>
    BY <1>3 DEF SlaveParse, SlaveTypes, SlaveTypeOK
  <2>2. PICK w \in iec104_s_frame_parse(Work, Head(s_rbuf)) : SlaveInstall(w)
    BY <1>3 DEF SlaveParse
  <2>3. Head(s_rbuf) \in Frames
    BY <2>1
  <2>4. WorkOK(w)
    BY <2>2, <2>3, WorkTyped, ParseOK
  <2>5. NetOK(net') /\ s_client' \in Ends /\ s' \in SlaveStation /\ s_serv' \in Servs
    BY <2>2, <2>4, InstallTypes
  <2>6. /\ s_rbuf' \in Seq(Frames) /\ s_pc' \in {"state_machine", "parse"}
        /\ s_pc' = "parse" => s_rbuf' # <<>>
        /\ UNCHANGED <<backlog, m_client, acc, s_app, s_spon>>
    <3>1. /\ s_rbuf' = Tail(s_rbuf) /\ s_pc' = IF Len(s_rbuf) = 1 THEN "state_machine" ELSE "parse"
          /\ UNCHANGED <<backlog, m_client, acc, s_app, s_spon>>
      BY <1>3 DEF SlaveParse
    <3>2. Tail(s_rbuf) \in Seq(Frames) /\ Len(Tail(s_rbuf)) = Len(s_rbuf) - 1 /\ Len(s_rbuf) \in Nat
      BY <2>1, HeadTailProperties, LenProperties
    <3>3. Tail(s_rbuf) = <<>> => Len(s_rbuf) = 1
      <4>1. Len(<<>>) = 0
        OBVIOUS
      <4>2. Tail(s_rbuf) = <<>> => Len(Tail(s_rbuf)) = 0
        BY <4>1, Zenon
      <4>3. QED
        BY <3>2, <4>2
    <3>4. QED
      BY <3>1, <3>2, <3>3
  <2>7. QED
    BY <2>5, <2>6 DEF LinkTypes, SlaveTypes, SlaveTypeOK, Servs
<1>4. QED
  BY <1>1, <1>2, <1>3 DEF SlaveExec

(* The accept thread and the application thread.                           *)
LEMMA AcceptTypes == LinkTypes /\ SlaveTypes /\ SlaveAccept => (LinkTypes /\ SlaveTypes)'
<1> SUFFICES ASSUME LinkTypes, SlaveTypes, SlaveAccept PROVE (LinkTypes /\ SlaveTypes)'
  OBVIOUS
<1>1. CASE AcceptClient
  <2> DEFINE c == Head(backlog)
             n == [net EXCEPT ![c].slv = "open"]
  <2>1. c \in Conns /\ Tail(backlog) \in Seq(Conns)
    BY <1>1 DEF AcceptClient, LinkTypes
  <2>2. NetOK(n)
    <3>1. net[c] \in ConnRecord
      BY <2>1 DEF LinkTypes, NetOK
    <3>2. [net[c] EXCEPT !.slv = "open"] \in ConnRecord
      BY <3>1 DEF ConnRecord, EndStates
    <3>3. QED
      BY <2>1, <3>2 DEF LinkTypes, NetOK
  <2>3. NetOK(SlaveClosed(n, s_client))
    <3> HIDE DEF n
    <3> QED BY <2>2, ClosedOK DEF LinkTypes, Ends
  <2>4. /\ net' = SlaveClosed(n, s_client) /\ s_client' = NoConn /\ backlog' = Tail(backlog)
        /\ acc' = [pc |-> IF s_client = NoConn THEN "conn" ELSE "sleep", tcp |-> c]
        /\ UNCHANGED <<m_client, slaveVars>>
    BY <1>1 DEF AcceptClient
  <2> HIDE DEF n, c
  <2>5. LinkTypes'
    BY <2>1, <2>3, <2>4 DEF LinkTypes, Ends
  <2>6. QED
    BY <2>4, <2>5 DEF SlaveTypes, SlaveTypeOK, slaveVars
<1>2. CASE AcceptWake \/ AcceptConnected
  <2>1. UNCHANGED <<net, backlog, m_client, s_client, s_pc, s_rbuf, s_app, s_serv, s_spon>>
    BY <1>2 DEF AcceptWake, AcceptConnected, slaveVars
  <2>2. acc' \in [pc : {"accept", "sleep", "conn", "install"}, tcp : Ends]
    BY <1>2 DEF AcceptWake, AcceptConnected, LinkTypes
  <2>3. s' \in SlaveStation
    BY <1>2, ResetOK DEF AcceptWake, AcceptConnected, SlaveTypes, SlaveTypeOK, slaveVars
  <2>4. QED
    BY <2>1, <2>2, <2>3 DEF LinkTypes, SlaveTypes, SlaveTypeOK
<1>3. CASE AcceptInstall
  BY <1>3 DEF AcceptInstall, LinkTypes, SlaveTypes, SlaveTypeOK, slaveVars, Ends
<1>4. QED
  BY <1>1, <1>2, <1>3 DEF SlaveAccept

LEMMA AppTypes == LinkTypes /\ SlaveTypes /\ SlaveApp => (LinkTypes /\ SlaveTypes)'
<1> SUFFICES ASSUME LinkTypes, SlaveTypes, SlaveApp PROVE (LinkTypes /\ SlaveTypes)'
  OBVIOUS
<1>0. /\ s.build_send \in Sn /\ s.build_recv \in 0 .. SnMod /\ s_app.sn \in Sn
      /\ s_app.fr \in Frames /\ s_app.pc \in {"idle", "put", "send"}
      /\ s_app = [pc |-> s_app.pc, sn |-> s_app.sn, fr |-> s_app.fr]
  BY DEF SlaveTypes, SlaveTypeOK, SlaveStation
<1>1. CASE SponBegin
  <2>1. s_app' \in [pc : {"idle", "put", "send"}, sn : Sn, fr : Frames]
    BY <1>0, <1>1 DEF SponBegin
  <2>2. s_spon' \in 0 .. MaxSpon
    BY <1>1, SlaveAssumption DEF SponBegin, SlaveTypes, SlaveTypeOK
  <2>3. UNCHANGED <<net, backlog, m_client, s_client, acc, s, s_pc, s_rbuf, s_serv>>
    BY <1>1 DEF SponBegin, linkVars
  <2>4. QED
    BY <2>1, <2>2, <2>3 DEF LinkTypes, SlaveTypes, SlaveTypeOK
<1>2. CASE SponPut
  <2>1. UNCHANGED <<net, backlog, m_client, s_client, acc, s_pc, s_rbuf, s_serv, s_spon>>
    BY <1>2 DEF SponPut, linkVars
  <2>2. s' \in SlaveStation
    <3>1. (s_app.sn + 1) % SnMod \in Sn
      BY <1>0, SnRange
    <3>2. QED
      BY <1>2, <3>1 DEF SponPut, SlaveTypes, SlaveTypeOK, SlaveStation
  <2>3. PICK ty \in SponTypes :
          s_app' = [s_app EXCEPT !.pc = "send",
                      !.fr = IFrame(ty, "SPONT", FALSE, FALSE, 0, s_app.sn, s.build_recv)]
    BY <1>2 DEF SponPut
  <2>4. ty \in AsduTypes /\ "SPONT" \in Reasons
    BY SlaveAssumption DEF AsduTypes, Reasons
  <2>5. IFrame(ty, "SPONT", FALSE, FALSE, 0, s_app.sn, s.build_recv) \in Frames
    BY <1>0, <2>4, FramesBuilt
  <2>6. s_app' \in [pc : {"idle", "put", "send"}, sn : Sn, fr : Frames]
    BY <1>0, <2>3, <2>5
  <2>7. QED
    BY <2>1, <2>2, <2>6 DEF LinkTypes, SlaveTypes, SlaveTypeOK
<1>3. CASE SponSend
  <2>1. <<s_app.fr>> \in Seq(Frames)
    BY <1>0
  <2>2. NetOK(net')
    BY <1>3, <2>1, SentOK DEF SponSend, LinkTypes, Ends
  <2>3. s_app' \in [pc : {"idle", "put", "send"}, sn : Sn, fr : Frames]
    BY <1>3, FramesBuilt, SnRange DEF SponSend, AppIdle, UFuncs
  <2>4. QED
    BY <1>3, <2>2, <2>3 DEF SponSend, LinkTypes, SlaveTypes, SlaveTypeOK
<1>4. QED
  BY <1>1, <1>2, <1>3 DEF SlaveApp

LEMMA CutKeepsTypes ==
  ASSUME LinkTypes, NEW c \in Conns, LinkCut(c)
  PROVE  LinkTypes'
<1>0. net[c] \in ConnRecord /\ \A r \in ConnRecord : NetOK([net EXCEPT ![c] = r])
  BY DEF LinkTypes, NetOK
<1>1. \A q \in Seq(Frames) : [net[c] EXCEPT !.cut = TRUE, !.up = q, !.down = q] \in ConnRecord
  BY <1>0 DEF ConnRecord
<1>2. [net[c] EXCEPT !.cut = TRUE, !.up = <<>>, !.down = <<>>] \in ConnRecord
  <2>1. <<>> \in Seq(Frames)
    OBVIOUS
  <2>2. QED
    BY <1>1, <2>1, Zenon
<1>3. net' = [net EXCEPT ![c] = [net[c] EXCEPT !.cut = TRUE, !.up = <<>>, !.down = <<>>]]
  BY Zenon DEF LinkCut, LinkTypes, NetOK
<1>4. NetOK(net')
  BY <1>0, <1>2, <1>3, Zenon
<1>5. QED
  BY <1>4 DEF LinkCut, LinkTypes

-----------------------------------------------------------------------------
(* Counting the I frames of a queue.                                       *)
Marked(q, k) == {j \in 1 .. k : q[j].f = "I"}

LEMMA NumberedFinite ==
  ASSUME NEW q, NEW k \in Int
  PROVE  IsFiniteSet(Marked(q, k)) /\ Numbered(q, k) = Cardinality(Marked(q, k)) /\ Numbered(q, k) \in Nat
<1>1. IsFiniteSet(1 .. k) /\ Marked(q, k) \in SUBSET (1 .. k)
  BY FS_Interval DEF Marked
<1>2. IsFiniteSet(Marked(q, k))
  BY <1>1, FS_Subset
<1>3. QED
  BY <1>2, FS_CardinalityType DEF Numbered, Marked

LEMMA NumberedPrefix ==
  ASSUME NEW q, NEW r, NEW k \in Int, \A j \in 1 .. k : q[j] = r[j]
  PROVE  Numbered(q, k) = Numbered(r, k)
<1>1. Marked(q, k) = Marked(r, k)
  BY DEF Marked
<1>2. QED
  BY <1>1, NumberedFinite

LEMMA NumberedConcat ==
  ASSUME NEW q \in Seq(Frames), NEW r \in Seq(Frames), NEW k \in 0 .. Len(r)
  PROVE  Numbered(q \o r, Len(q) + k) = Numbered(q, Len(q)) + Numbered(r, k)
<1> DEFINE n == Len(q)
           A == Marked(q, n)
           B == Marked(r, k)
           D == {j \in n + 1 .. n + k : (q \o r)[j].f = "I"}
<1>1. n \in Nat /\ k \in Int /\ n + k \in Int
  BY LenProperties
<1>2. /\ \A j \in 1 .. n : (q \o r)[j] = q[j]
      /\ \A j \in 1 .. k : (q \o r)[n + j] = r[j]
  BY <1>1, ConcatProperties, LenProperties
<1>3. Marked(q \o r, n + k) = A \cup D /\ A \cap D = {}
  BY <1>1, <1>2 DEF Marked
<1>4. IsFiniteSet(A) /\ IsFiniteSet(B) /\ Cardinality(B) = Numbered(r, k) /\ Cardinality(A) = Numbered(q, n)
  BY <1>1, NumberedFinite
<1>5. ExistsBijection(B, D)
  <2> DEFINE f == [j \in B |-> n + j]
  <2>1. \A j \in B : j \in 1 .. k /\ n + j \in D
    BY <1>1, <1>2 DEF Marked
  <2>2. \A d \in D : d - n \in B /\ n + (d - n) = d
    BY <1>1, <1>2 DEF Marked
  <2>3. f \in [B -> D] /\ \A a, b \in B : f[a] = f[b] => a = b
    BY <1>1, <2>1, SMTT(30)
  <2>4. \A d \in D : \E j \in B : f[j] = d
    BY <2>2
  <2>5. f \in Bijection(B, D)
    BY <2>3, <2>4 DEF Bijection, Injection, Surjection, IsInjective
  <2>6. QED
    BY <2>5 DEF ExistsBijection
<1>6. IsFiniteSet(D) /\ Cardinality(D) = Cardinality(B)
  BY <1>4, <1>5, FS_Bijection
<1> HIDE DEF A, B, D, n
<1>7. Cardinality(A \cup D) = Cardinality(A) + Cardinality(D)
  <2>1. Cardinality(A \cup D) = Cardinality(A) + Cardinality(D) - Cardinality(A \cap D)
    BY <1>4, <1>6, FS_Union
  <2>2. Cardinality(A \cap D) = 0
    BY <1>3, FS_EmptySet
  <2>3. Cardinality(A) \in Nat /\ Cardinality(D) \in Nat
    BY <1>4, <1>6, FS_CardinalityType
  <2>4. QED
    BY <2>1, <2>2, <2>3
<1>8. Numbered(q \o r, n + k) = Cardinality(A \cup D)
  BY <1>1, <1>3, NumberedFinite
<1>9. QED
  BY <1>4, <1>6, <1>7, <1>8 DEF n

LEMMA NumberedAll ==
  ASSUME NEW q, NEW k \in Nat, \A j \in 1 .. k : q[j].f = "I"
  PROVE  Numbered(q, k) = k
<1>1. Marked(q, k) = 1 .. k
  BY DEF Marked
<1>2. QED
  BY <1>1, NumberedFinite, FS_Interval

LEMMA NumberedNone ==
  ASSUME NEW q, NEW k \in Int, \A j \in 1 .. k : q[j].f # "I"
  PROVE  Numbered(q, k) = 0
<1>1. Marked(q, k) = {}
  BY DEF Marked
<1>2. QED
  BY <1>1, NumberedFinite, FS_EmptySet

-----------------------------------------------------------------------------
LEMMA Division ==
  ASSUME NEW a \in Int
  PROVE  /\ a = SnMod * (a \div SnMod) + (a % SnMod)
         /\ a % SnMod \in 0 .. SnMod - 1 /\ a \div SnMod \in Int
BY FrameAssumption

LEMMA Remainder ==
  ASSUME NEW q \in Int, NEW p \in Int, NEW r \in Sn, NEW t \in Sn, SnMod * q + r = SnMod * p + t
  PROVE  r = t
<1>0. SnMod \in Nat /\ SnMod > 1 /\ r \in 0 .. SnMod - 1 /\ t \in 0 .. SnMod - 1
  BY FrameAssumption DEF Sn
<1>1. SnMod * (q - p) = t - r
  BY <1>0
<1>2. CASE q - p >= 1
  <2>1. SnMod * (q - p) >= SnMod
    BY <1>0, <1>2
  <2>2. QED
    BY <1>0, <1>1, <2>1
<1>3. CASE q - p <= -1
  <2>1. SnMod * (q - p) <= - SnMod
    BY <1>0, <1>3
  <2>2. QED
    BY <1>0, <1>1, <2>1
<1>4. CASE q = p
  BY <1>0, <1>4
<1>5. QED
  BY <1>2, <1>3, <1>4

LEMMA SmallMod == \A b \in Sn : b % SnMod = b
<1> SUFFICES ASSUME NEW b \in Sn PROVE b % SnMod = b
  OBVIOUS
<1>1. b \in Int /\ 0 \in Int /\ b % SnMod \in Sn /\ b \div SnMod \in Int
  BY SnRange, Division DEF Sn
<1>2. SnMod * 0 + b = SnMod * (b \div SnMod) + (b % SnMod)
  BY <1>1, Division, FrameAssumption
<1>3. QED
  BY <1>1, <1>2, Remainder

(* Numbers may be reduced before or after they are added.                  *)
LEMMA ModAdd == \A a, b \in Int : ((a % SnMod) + b) % SnMod = (a + b) % SnMod
<1> SUFFICES ASSUME NEW a \in Int, NEW b \in Int
             PROVE  ((a % SnMod) + b) % SnMod = (a + b) % SnMod
  OBVIOUS
<1> DEFINE q == a \div SnMod
           x == (a % SnMod) + b
           y == a + b
           u == x \div SnMod
           v == y \div SnMod
<1>1. a = SnMod * q + (a % SnMod) /\ q \in Int /\ a % SnMod \in Int /\ SnMod \in Nat
  BY Division, FrameAssumption
<1>2. x \in Int /\ y \in Int
  BY <1>1
<1>3. /\ x = SnMod * u + (x % SnMod) /\ x % SnMod \in Sn /\ u \in Int
      /\ y = SnMod * v + (y % SnMod) /\ y % SnMod \in Sn /\ v \in Int
  BY <1>2, Division DEF Sn
<1>4. y = SnMod * q + x
  BY <1>1
<1> HIDE DEF q, x, y, u, v
<1>5. SnMod * (q + u) + (x % SnMod) = SnMod * v + (y % SnMod)
  BY <1>1, <1>2, <1>3, <1>4 DEF Sn
<1>6. q + u \in Int
  BY <1>1, <1>3
<1>7. x % SnMod = y % SnMod
  BY <1>3, <1>5, <1>6, Remainder
<1>8. QED
  BY <1>7 DEF x, y

-----------------------------------------------------------------------------
(* The I frames of q are numbered from b on, and the next number is e.     *)
InOrder(q, b) ==
  \A i \in 1 .. Len(q) : q[i].f = "I" => q[i].ss = (b + Numbered(q, i - 1)) % SnMod
Consecutive(q, b, e) == InOrder(q, b) /\ e = (b + Numbered(q, Len(q))) % SnMod

LEMMA ConsecutiveConcat ==
  ASSUME NEW q \in Seq(Frames), NEW r \in Seq(Frames), NEW b \in Int, NEW m, NEW e,
         Consecutive(q, b, m), Consecutive(r, m, e)
  PROVE  Consecutive(q \o r, b, e)
<1> DEFINE n == Len(q)
           a == Numbered(q, n)
<1>1. n \in Nat /\ Len(r) \in Nat /\ Len(q \o r) = n + Len(r) /\ a \in Nat
  BY ConcatProperties, LenProperties, NumberedFinite
<1>2. \A k \in 0 .. Len(r) : (m + Numbered(r, k)) % SnMod = (b + Numbered(q \o r, n + k)) % SnMod
  <2> SUFFICES ASSUME NEW k \in 0 .. Len(r)
               PROVE  (m + Numbered(r, k)) % SnMod = (b + Numbered(q \o r, n + k)) % SnMod
    OBVIOUS
  <2>1. Numbered(r, k) \in Nat
    BY NumberedFinite
  <2>2. m = (b + a) % SnMod
    BY DEF Consecutive
  <2>3. b + a \in Int
    BY <1>1
  <2>4. (m + Numbered(r, k)) % SnMod = ((b + a) + Numbered(r, k)) % SnMod
    BY <2>1, <2>2, <2>3, ModAdd
  <2>5. (b + a) + Numbered(r, k) = b + (a + Numbered(r, k))
    BY <1>1, <2>1
  <2>6. a + Numbered(r, k) = Numbered(q \o r, n + k)
    BY NumberedConcat
  <2>7. QED
    BY <2>4, <2>5, <2>6
<1>3. e = (b + Numbered(q \o r, Len(q \o r))) % SnMod
  BY <1>1, <1>2 DEF Consecutive
<1>4. ASSUME NEW i \in 1 .. Len(q \o r), (q \o r)[i].f = "I"
      PROVE  (q \o r)[i].ss = (b + Numbered(q \o r, i - 1)) % SnMod
  <2>1. CASE i <= n
    <3>1. i \in 1 .. n /\ i - 1 \in Int /\ \A j \in 1 .. n : (q \o r)[j] = q[j]
      BY <1>1, <2>1, ConcatProperties
    <3>2. \A j \in 1 .. i - 1 : (q \o r)[j] = q[j]
      BY <1>1, <3>1
    <3>3. Numbered(q \o r, i - 1) = Numbered(q, i - 1)
      BY <3>1, <3>2, NumberedPrefix
    <3>4. q[i].f = "I" /\ q[i].ss = (b + Numbered(q, i - 1)) % SnMod
      BY <1>4, <3>1 DEF Consecutive, InOrder
    <3>5. QED
      BY <3>1, <3>3, <3>4
  <2>2. CASE i > n
    <3> DEFINE j == i - n
    <3>1. j \in 1 .. Len(r) /\ (q \o r)[i] = r[j] /\ j - 1 \in 0 .. Len(r) /\ n + (j - 1) = i - 1
      BY <1>1, <2>2, ConcatProperties
    <3>2. r[j].ss = (m + Numbered(r, j - 1)) % SnMod
      BY <1>4, <3>1 DEF Consecutive, InOrder
    <3>3. (m + Numbered(r, j - 1)) % SnMod = (b + Numbered(q \o r, i - 1)) % SnMod
      BY <1>2, <3>1
    <3>4. QED
      BY <3>1, <3>2, <3>3
  <2>3. QED
    BY <1>1, <2>1, <2>2
<1>5. QED
  BY <1>3, <1>4 DEF Consecutive, InOrder

(* A queue without I frames takes no number; one I frame takes one.        *)
LEMMA ConsecutiveNone ==
  ASSUME NEW q \in Seq(Frames), NEW b \in Sn, \A i \in 1 .. Len(q) : q[i].f # "I"
  PROVE  Consecutive(q, b, b)
<1>1. Numbered(q, Len(q)) = 0
  BY NumberedNone, LenProperties
<1>2. b \in Int /\ b + 0 = b /\ b % SnMod = b
  BY SnRange, SmallMod
<1>3. QED
  BY <1>1, <1>2 DEF Consecutive, InOrder

LEMMA ConsecutiveEmpty ==
  ASSUME NEW q \in Seq(Frames), NEW b \in Sn, Len(q) = 0
  PROVE  Consecutive(q, b, b)
<1>1. \A i \in 1 .. Len(q) : q[i].f # "I"
  OBVIOUS
<1>2. QED
  BY <1>1, ConsecutiveNone

LEMMA ConsecutiveList ==
  ASSUME NEW q \in Seq(Frames), NEW b \in Sn,
         \A i \in 1 .. Len(q) : q[i].f = "I" /\ q[i].ss = (b + i - 1) % SnMod
  PROVE  Consecutive(q, b, (b + Len(q)) % SnMod)
<1>1. Len(q) \in Nat /\ b \in Int
  BY LenProperties, SnRange
<1>2. \A k \in 0 .. Len(q) : Numbered(q, k) = k
  BY <1>1, NumberedAll
<1>3. \A i \in 1 .. Len(q) : i - 1 \in 0 .. Len(q) /\ b + i - 1 = b + (i - 1)
  BY <1>1
<1>4. QED
  BY <1>1, <1>2, <1>3, SMTT(30) DEF Consecutive, InOrder

(* The peer reads the first frame.                                         *)
LEMMA ConsecutiveTail ==
  ASSUME NEW q \in Seq(Frames), q # <<>>, NEW b \in Sn, NEW e, Consecutive(q, b, e)
  PROVE  Consecutive(Tail(q), IF Head(q).f = "I" THEN (b + 1) % SnMod ELSE b, e)
<1> DEFINE h == <<Head(q)>>
           r == Tail(q)
           d == IF Head(q).f = "I" THEN 1 ELSE 0
           c == IF Head(q).f = "I" THEN (b + 1) % SnMod ELSE b
<1>1. /\ h \in Seq(Frames) /\ r \in Seq(Frames) /\ Len(h) = 1 /\ h[1] = Head(q)
      /\ Len(q) = Len(r) + 1 /\ Len(r) \in Nat /\ \A i \in 1 .. Len(r) : r[i] = q[i + 1]
      /\ b \in Int
  BY HeadTailProperties, LenProperties, SnRange
<1>2. q = h \o r
  BY HeadTailProperties, ConcatProperties, LenProperties
<1>3. Numbered(h, 1) = d
  <2>1. CASE Head(q).f = "I"
    BY <1>1, <2>1, NumberedAll
  <2>2. CASE Head(q).f # "I"
    BY <1>1, <2>2, NumberedNone
  <2>3. QED
    BY <2>1, <2>2
<1>4. \A k \in 0 .. Len(r) : (c + Numbered(r, k)) % SnMod = (b + Numbered(q, k + 1)) % SnMod
  <2> SUFFICES ASSUME NEW k \in 0 .. Len(r)
               PROVE  (c + Numbered(r, k)) % SnMod = (b + Numbered(q, k + 1)) % SnMod
    OBVIOUS
  <2>1. Numbered(q, k + 1) = d + Numbered(r, k) /\ Numbered(r, k) \in Nat
    <3> HIDE DEF h, r, d
    <3>1. Numbered(h \o r, Len(h) + k) = Numbered(h, Len(h)) + Numbered(r, k)
      BY <1>1, NumberedConcat
    <3>2. Len(h) + k = k + 1 /\ k \in Int
      BY <1>1
    <3>3. QED
      BY <1>1, <1>2, <1>3, <3>1, <3>2, NumberedFinite
  <2>2. CASE Head(q).f = "I"
    <3>1. (((b + 1) % SnMod) + Numbered(r, k)) % SnMod = ((b + 1) + Numbered(r, k)) % SnMod
      BY <1>1, <2>1, ModAdd
    <3>2. (b + 1) + Numbered(r, k) = b + (1 + Numbered(r, k))
      BY <1>1, <2>1
    <3>3. QED
      BY <2>1, <2>2, <3>1, <3>2
  <2>3. CASE Head(q).f # "I"
    BY <2>1, <2>3
  <2>4. QED
    BY <2>2, <2>3
<1>5. e = (c + Numbered(r, Len(r))) % SnMod
  BY <1>1, <1>4 DEF Consecutive
<1>6. ASSUME NEW i \in 1 .. Len(r), r[i].f = "I" PROVE r[i].ss = (c + Numbered(r, i - 1)) % SnMod
  <2>1. i + 1 \in 1 .. Len(q) /\ i - 1 \in 0 .. Len(r) /\ (i + 1) - 1 = (i - 1) + 1 /\ r[i] = q[i + 1]
    BY <1>1
  <2>2. q[i + 1].ss = (b + Numbered(q, (i + 1) - 1)) % SnMod
    BY <1>6, <2>1 DEF Consecutive, InOrder
  <2>3. QED
    BY <1>4, <2>1, <2>2
<1>7. QED
  BY <1>5, <1>6 DEF Consecutive, InOrder
-----------------------------------------------------------------------------
(* A handler that builds frames and changes neither the link state nor     *)
(* N(R) numbers its I frames from build_send on.                           *)
Grows(w, x) ==
  /\ WorkOK(x) /\ x.close = w.close
  /\ x.st.init = w.st.init /\ x.st.build_recv = w.st.build_recv
  /\ \E q \in Seq(Frames) : x.out = w.out \o q /\ Consecutive(q, w.st.build_send, x.st.build_send)

LEMMA GrowsOn ==
  ASSUME NEW w, WorkOK(w), NEW x, Grows(w, x), NEW y, Grows(x, y)
  PROVE  Grows(w, y)
<1>1. PICK q \in Seq(Frames) : x.out = w.out \o q /\ Consecutive(q, w.st.build_send, x.st.build_send)
  BY DEF Grows
<1>2. PICK r \in Seq(Frames) : y.out = x.out \o r /\ Consecutive(r, x.st.build_send, y.st.build_send)
  BY DEF Grows
<1>3. w.out \in Seq(Frames) /\ w.st.build_send \in Int
  BY SnRange DEF WorkOK, SlaveStation
<1>4. y.out = w.out \o (q \o r) /\ q \o r \in Seq(Frames)
  <2>1. (w.out \o q) \o r = w.out \o (q \o r)
    <3> DEFINE u == w.out
    <3>1. u \in Seq(Frames)
      BY <1>3
    <3> HIDE DEF u
    <3>2. (u \o q) \o r = u \o (q \o r)
      BY <3>1, ConcatAssociative
    <3>3. QED
      BY <3>2 DEF u
  <2>2. QED
    BY <1>1, <1>2, <2>1, ConcatProperties
<1>5. Consecutive(q \o r, w.st.build_send, y.st.build_send)
  BY <1>1, <1>2, <1>3, ConsecutiveConcat
<1>6. QED
  BY <1>4, <1>5 DEF Grows

LEMMA BuildIGrows ==
  ASSUME NEW w, WorkOK(w), NEW ty \in AsduTypes, NEW cot \in Reasons,
         NEW ia0 \in BOOLEAN, NEW sel \in BOOLEAN, NEW val \in {0, 1}
  PROVE  Grows(w, BuildI(w, ty, cot, ia0, sel, val))
<1> DEFINE x == BuildI(w, ty, cot, ia0, sel, val)
           fr == IFrame(ty, cot, ia0, sel, val, w.st.build_send, w.st.build_recv)
           q == <<fr>>
<1>0. WorkOK(x)
  BY BuildIOK
<1>1. w.st.build_send \in Sn /\ w.st.build_recv \in 0 .. SnMod /\ w.out \in Seq(Frames)
  BY DEF WorkOK, SlaveStation
<1>2. fr \in Frames
  BY <1>1, FramesBuilt
<1>3. fr.f = "I" /\ fr.ss = w.st.build_send
  BY DEF IFrame
<1>4. x = [w EXCEPT !.out = Append(@, fr), !.st.build_send = (@ + 1) % SnMod]
  BY DEF BuildI
<1> HIDE DEF fr, x
<1>5. /\ x.close = w.close /\ x.st.init = w.st.init /\ x.st.build_recv = w.st.build_recv
      /\ x.out = Append(w.out, fr) /\ x.st.build_send = (w.st.build_send + 1) % SnMod
  BY <1>4 DEF WorkOK, SlaveStation
<1>6. q \in Seq(Frames) /\ Len(q) = 1 /\ q[1] = fr /\ x.out = w.out \o q
  BY <1>1, <1>2, <1>5
<1>7. Consecutive(q, w.st.build_send, x.st.build_send)
  <2> HIDE DEF q
  <2>1. w.st.build_send + 1 - 1 = w.st.build_send /\ w.st.build_send % SnMod = w.st.build_send
    BY <1>1, SnRange, SmallMod
  <2>2. \A i \in 1 .. Len(q) : q[i].f = "I" /\ q[i].ss = (w.st.build_send + i - 1) % SnMod
    BY <1>3, <1>6, <2>1
  <2>3. Consecutive(q, w.st.build_send, (w.st.build_send + Len(q)) % SnMod)
    BY <1>1, <1>6, <2>2, ConsecutiveList
  <2>4. QED
    BY <1>5, <1>6, <2>3
<1>8. QED
  BY <1>0, <1>5, <1>6, <1>7 DEF Grows, x

LEMMA NodeListGrows ==
  ASSUME NEW w, WorkOK(w), NEW k \in Nat, NEW ty \in AsduTypes, NEW cot \in Reasons
  PROVE  Grows(w, NodeList(w, k, ty, cot))
<1> DEFINE x == NodeList(w, k, ty, cot)
           q == NodeFrames(w, k, ty, cot)
<1>0. WorkOK(x)
  BY NodeListOK
<1>1. w.st.build_send \in Sn /\ w.st.build_recv \in 0 .. SnMod /\ w.out \in Seq(Frames)
  BY DEF WorkOK, SlaveStation
<1>2. \A i \in 1 .. k : q[i].f = "I" /\ q[i].ss = (w.st.build_send + i - 1) % SnMod
  BY DEF IFrame, NodeFrames
<1>3. q \in Seq(Frames) /\ Len(q) = k
  BY NodeFramesOK
<1>4. x = [w EXCEPT !.out = @ \o q, !.st.build_send = (@ + k) % SnMod]
  BY DEF NodeList, NodeFrames
<1> HIDE DEF q, x
<1>5. /\ x.close = w.close /\ x.st.init = w.st.init /\ x.st.build_recv = w.st.build_recv
      /\ x.out = w.out \o q /\ x.st.build_send = (w.st.build_send + k) % SnMod
  BY <1>4 DEF WorkOK, SlaveStation
<1>6. Consecutive(q, w.st.build_send, x.st.build_send)
  BY <1>1, <1>2, <1>3, <1>5, ConsecutiveList
<1>7. QED
  BY <1>0, <1>3, <1>5, <1>6 DEF Grows, x

(* U and S frames carry no number.                                         *)
LEMMA UnnumberedGrows ==
  ASSUME NEW w, WorkOK(w), NEW fr \in Frames, fr.f # "I", NEW x, x = [w EXCEPT !.out = Append(@, fr)]
  PROVE  Grows(w, x)
<1>1. w.st.build_send \in Sn /\ w.out \in Seq(Frames)
  BY DEF WorkOK, SlaveStation
<1>2. WorkOK(x) /\ x.close = w.close /\ x.st = w.st /\ x.out = w.out \o <<fr>>
  BY <1>1 DEF WorkOK
<1>3. <<fr>> \in Seq(Frames) /\ \A i \in 1 .. Len(<<fr>>) : <<fr>>[i].f # "I"
  OBVIOUS
<1>4. Consecutive(<<fr>>, w.st.build_send, w.st.build_send)
  BY <1>1, <1>3, ConsecutiveNone
<1>5. QED
  BY <1>2, <1>3, <1>4 DEF Grows

LEMMA NothingGrows ==
  ASSUME NEW w, WorkOK(w), NEW x, WorkOK(x), x.out = w.out, x.close = w.close,
         x.st.init = w.st.init, x.st.build_recv = w.st.build_recv, x.st.build_send = w.st.build_send
  PROVE  Grows(w, x)
<1>1. w.st.build_send \in Sn /\ w.out \in Seq(Frames)
  BY DEF WorkOK, SlaveStation
<1>2. \E q \in Seq(Frames) : Len(q) = 0 /\ w.out \o q = w.out
  <2>1. <<>> \in Seq(Frames) /\ Len(<<>>) = 0 /\ w.out \o <<>> = w.out
    BY <1>1, EmptySeq, ConcatEmptySeq
  <2>2. QED
    BY <2>1, Zenon
<1> PICK q \in Seq(Frames) : Len(q) = 0 /\ w.out \o q = w.out
  BY <1>2
<1>3. Consecutive(q, w.st.build_send, w.st.build_send)
  BY <1>1, ConsecutiveEmpty
<1>4. QED
  BY <1>3 DEF Grows

LEMMA CallsGrow ==
  ASSUME NEW w, WorkOK(w), NEW fr
  PROVE  Grows(w, iec104_s_asdu_call_all(w, fr)) /\ Grows(w, iec104_s_asdu_call_pulse(w, fr))
<1>1. ASSUME NEW x, Grows(w, x)
      PROVE  Grows(w, iec104_s_build_call_ack(x)) /\ Grows(w, iec104_s_build_call_finsh(x))
  <2>1. WorkOK(x)
    BY <1>1 DEF Grows
  <2>2. Grows(x, iec104_s_build_call_ack(x)) /\ Grows(x, iec104_s_build_call_finsh(x))
    BY <2>1, BuildIGrows DEF iec104_s_build_call_ack, iec104_s_build_call_finsh, AsduTypes, Reasons
  <2>3. QED
    BY <1>1, <2>2, GrowsOn
<1>2. ASSUME NEW x, Grows(w, x), NEW k \in Nat
      PROVE  /\ Grows(w, iec104_s_build_yx(x, k)) /\ Grows(w, iec104_s_build_yc(x, k))
             /\ Grows(w, iec104_s_build_ym(x, k))
  <2>1. WorkOK(x)
    BY <1>2 DEF Grows
  <2>2. /\ Grows(x, iec104_s_build_yx(x, k)) /\ Grows(x, iec104_s_build_yc(x, k))
        /\ Grows(x, iec104_s_build_ym(x, k))
    BY <2>1, NodeListGrows DEF iec104_s_build_yx, iec104_s_build_yc, iec104_s_build_ym, AsduTypes, Reasons
  <2>3. QED
    BY <1>2, <2>2, GrowsOn
<1>3. Grows(w, w)
  BY NothingGrows
<1>4. QED
  BY <1>1, <1>2, <1>3, SlaveAssumption DEF iec104_s_asdu_call_all, iec104_s_asdu_call_pulse

LEMMA ClockGrows ==
  ASSUME NEW w, WorkOK(w), NEW fr, NEW x \in iec104_s_asdu_clock(w, fr)
  PROVE  Grows(w, iec104_s_build_s_ack(x))
<1>1. /\ x.out = w.out /\ x.close = w.close /\ x.st.init = w.st.init
      /\ x.st.build_recv = w.st.build_recv /\ x.st.build_send = w.st.build_send
  <2>1. CASE x = w
    BY <2>1
  <2>2. CASE x # w
    <3>1. PICK p : x = [w EXCEPT !.st.t_test = p[1], !.st.t_timer = p[2]]
      BY <2>2 DEF iec104_s_asdu_clock
    <3>2. \A a, b : LET y == [w EXCEPT !.st.t_test = a, !.st.t_timer = b]
                    IN  /\ y.out = w.out /\ y.close = w.close /\ y.st.init = w.st.init
                        /\ y.st.build_recv = w.st.build_recv /\ y.st.build_send = w.st.build_send
      BY DEF WorkOK, SlaveStation
    <3>3. PICK a, b : x = [w EXCEPT !.st.t_test = a, !.st.t_timer = b]
      BY <3>1, Zenon
    <3>4. QED
      BY <3>2, <3>3, ZenonT(40)
  <2>3. QED
    BY <2>1, <2>2
<1>2. WorkOK(x)
  BY ClockOK
<1>3. SFrame(x.st.build_recv) \in Frames /\ SFrame(x.st.build_recv).f # "I"
  BY <1>2, FramesBuilt DEF WorkOK, SlaveStation, SFrame
<1>4. Grows(w, x)
  BY <1>1, <1>2, NothingGrows
<1>5. Grows(x, iec104_s_build_s_ack(x))
  BY <1>2, <1>3, UnnumberedGrows DEF iec104_s_build_s_ack
<1>6. QED
  BY <1>4, <1>5, GrowsOn

-----------------------------------------------------------------------------
(* What one pass of the exec thread does to the link state, N(R) and the   *)
(* numbers of what it writes.                                              *)
STARTDT == UFrame("STARTDT")
STOPDT == UFrame("STOPDT")

LEMMA ParseEffect ==
  ASSUME NEW w, WorkOK(w), w.out = <<>>, ~w.close, NEW fr \in Frames,
         NEW x \in iec104_s_frame_parse(w, fr)
  PROVE  /\ x.close <=> fr = STOPDT
         /\ fr = STARTDT => x.st.init = "CONNECT_OK"
         /\ fr \notin {STARTDT, STOPDT} => x.st.init = w.st.init
         /\ x.st.build_recv = IF fr.f = "I" /\ fr.own THEN fr.ss + 1 ELSE w.st.build_recv
         /\ Consecutive(x.out, w.st.build_send, x.st.build_send)
<1>0. ASSUME NEW d, NEW y, WorkOK(d), d.out = <<>>, Grows(d, y)
      PROVE  Consecutive(y.out, d.st.build_send, y.st.build_send)
  <2>1. PICK q \in Seq(Frames) : y.out = d.out \o q /\ Consecutive(q, d.st.build_send, y.st.build_send)
    BY <1>0 DEF Grows
  <2>2. y.out = q
    BY <1>0, <2>1, ConcatEmptySeq
  <2>3. QED
    BY <2>1, <2>2
<1>1. CASE fr.f = "I"
  <2> DEFINE d == iec104_s_deal_sn(w, fr)
  <2>1. fr \in IFrames /\ fr # STOPDT /\ fr # STARTDT
    BY <1>1 DEF Frames, UFrames, SFrames, STOPDT, STARTDT, UFrame
  <2>2. fr.ss + 1 \in 0 .. SnMod /\ fr.ia0 \in BOOLEAN /\ fr.sel \in BOOLEAN /\ fr.val \in {0, 1}
    BY <2>1, FrameAssumption DEF IFrames, Sn
  <2>3. /\ WorkOK(d) /\ d.out = <<>> /\ d.close = w.close /\ d.st.init = w.st.init
        /\ d.st.build_send = w.st.build_send /\ d.st.build_recv = fr.ss + 1
    BY <2>2 DEF iec104_s_deal_sn, WorkOK, SlaveStation
  <2>4. CASE ~fr.own
    <3>1. x = w
      BY <1>1, <2>4 DEF iec104_s_frame_parse, iec104_s_frame_i_parse
    <3>2. Grows(w, w)
      BY NothingGrows
    <3>3. QED
      BY <1>0, <2>1, <2>4, <3>1, <3>2
  <2>5. CASE fr.own
    <3> HIDE DEF d
    <3>1. Grows(d, iec104_s_build_yk_ack(d, fr)) /\ Grows(d, iec104_s_build_yt_ack(d, fr))
      <4>1. {"C_SE", "C_SC"} \subseteq AsduTypes /\ "ACTCON" \in Reasons
        BY DEF AsduTypes, Reasons
      <4>2. QED
        BY <2>2, <2>3, <4>1, BuildIGrows DEF iec104_s_build_yk_ack, iec104_s_build_yt_ack
    <3>2. Grows(d, iec104_s_asdu_call_all(d, fr)) /\ Grows(d, iec104_s_asdu_call_pulse(d, fr))
      BY <2>3, CallsGrow
    <3>3. \A y \in iec104_s_asdu_clock(d, fr) : Grows(d, iec104_s_build_s_ack(y))
      BY <2>3, ClockGrows
    <3>4. Grows(d, d)
      BY <2>3, NothingGrows
    <3>5. \/ x = d
          \/ x = iec104_s_asdu_call_all(d, fr) \/ x = iec104_s_asdu_call_pulse(d, fr)
          \/ x = iec104_s_build_yk_ack(d, fr) \/ x = iec104_s_build_yt_ack(d, fr)
          \/ \E y \in iec104_s_asdu_clock(d, fr) : x = iec104_s_build_s_ack(y)
      BY <1>1, <2>5 DEF iec104_s_frame_parse, iec104_s_frame_i_parse, d
    <3>6. Grows(d, x)
      BY <3>1, <3>2, <3>3, <3>4, <3>5
    <3>7. Consecutive(x.out, d.st.build_send, x.st.build_send)
      BY <1>0, <2>3, <3>6
    <3>8. x.close = d.close /\ x.st.init = d.st.init /\ x.st.build_recv = d.st.build_recv
      BY <3>6 DEF Grows
    <3>9. QED
      BY <1>1, <2>1, <2>3, <2>5, <3>7, <3>8
  <2>6. QED
    BY <2>1, <2>4, <2>5 DEF IFrames
<1>2. CASE fr.f = "U"
  <2>1. x = iec104_s_frame_u_parse(w, fr)
    BY <1>2 DEF iec104_s_frame_parse
  <2>2. fr = UFrame(fr.fn) /\ fr.f # "I"
    BY <1>2 DEF Frames, UFrames, SFrames, IFrames, UFrame
  <2>3. (fr = STARTDT <=> fr.fn = "STARTDT") /\ (fr = STOPDT <=> fr.fn = "STOPDT")
    BY <2>2 DEF STARTDT, STOPDT, UFrame
  <2>4. CASE fr.fn \in {"STARTDT", "STOPDT", "TESTER_ACK"}
    <3>1. /\ x.out = <<>> /\ x.st.build_send = w.st.build_send /\ x.st.build_recv = w.st.build_recv
          /\ x.close <=> fr.fn = "STOPDT"
          /\ fr.fn = "STARTDT" => x.st.init = "CONNECT_OK"
          /\ fr.fn = "TESTER_ACK" => x.st.init = w.st.init
      BY <2>1, <2>4 DEF iec104_s_frame_u_parse, WorkOK, SlaveStation
    <3>2. Consecutive(x.out, w.st.build_send, x.st.build_send)
      <4>1. x.out \in Seq(Frames) /\ Len(x.out) = 0 /\ w.st.build_send \in Sn
        BY <3>1, EmptySeq DEF WorkOK, SlaveStation
      <4>2. QED
        BY <3>1, <4>1, ConsecutiveEmpty
    <3>3. QED
      BY <2>2, <2>3, <2>4, <3>1, <3>2
  <2>5. CASE fr.fn \notin {"STARTDT", "STOPDT", "TESTER_ACK"}
    <3>1. Grows(w, x)
      <4>1. CASE fr.fn = "TESTER"
        <5>1. UFrame("TESTER_ACK") \in Frames /\ UFrame("TESTER_ACK").f # "I"
          BY FramesBuilt DEF UFuncs, UFrame
        <5>2. x = [w EXCEPT !.out = Append(@, UFrame("TESTER_ACK"))]
          BY <2>1, <4>1 DEF iec104_s_frame_u_parse, iec104_s_build_u_ack
        <5>3. QED
          BY <5>1, <5>2, UnnumberedGrows
      <4>2. CASE fr.fn # "TESTER"
        <5>1. x = w
          BY <2>1, <2>5, <4>2 DEF iec104_s_frame_u_parse
        <5>2. QED
          BY <5>1, NothingGrows
      <4>3. QED
        BY <4>1, <4>2
    <3>2. x.close = w.close /\ x.st.init = w.st.init /\ x.st.build_recv = w.st.build_recv
      BY <3>1 DEF Grows
    <3>3. Consecutive(x.out, w.st.build_send, x.st.build_send)
      BY <1>0, <3>1
    <3>4. QED
      BY <2>2, <2>3, <2>5, <3>2, <3>3
  <2>6. QED
    BY <2>4, <2>5
<1>3. CASE fr.f = "S"
  <2>1. x = w /\ fr # STARTDT /\ fr # STOPDT
    BY <1>3 DEF iec104_s_frame_parse, STARTDT, STOPDT, UFrame
  <2>2. Grows(w, w)
    BY NothingGrows
  <2>3. QED
    BY <1>0, <1>3, <2>1, <2>2
<1>4. QED
  BY <1>1, <1>2, <1>3 DEF Frames, UFrames, SFrames, IFrames

LEMMA StateMachineEffect ==
  ASSUME NEW w, WorkOK(w), w.out = <<>>, ~w.close, NEW x, x = iec104_s_state_machine(w)
  PROVE  /\ w.st.init = "INIT" => /\ ~x.close /\ x.out = <<>> /\ x.st.init = "OPEN"
                                  /\ x.st.build_send = 0 /\ x.st.build_recv = 0
         /\ w.st.init = "OPEN" => x.st.init = "OPEN" /\ x.st.build_send = w.st.build_send
         /\ w.st.init # "INIT" =>
              /\ x.st.build_recv = w.st.build_recv
              /\ Consecutive(x.out, w.st.build_send, x.st.build_send)
         /\ ~x.close /\ w.st.init # "DISCONNECT" => x.st.init \notin {"INIT", "DISCONNECT"}
<1> DEFINE l == LinkStep(w)
<1>0. w.st.build_send \in Sn /\ <<>> \in Seq(Frames) /\ Len(<<>>) = 0
  BY EmptySeq DEF WorkOK, SlaveStation
<1>1. CASE w.st.init = "INIT"
  <2>1. l = [w EXCEPT !.st = [iec104_s_reset_param(w.st) EXCEPT !.init = "OPEN"]]
    BY <1>1 DEF LinkStep
  <2>2. /\ l.out = <<>> /\ l.close = w.close /\ l.st.init = "OPEN"
        /\ l.st.build_send = 0 /\ l.st.build_recv = 0
    BY <2>1 DEF WorkOK, SlaveStation, iec104_s_reset_param
  <2>3. x = l
    BY <2>2 DEF iec104_s_state_machine
  <2>4. QED
    BY <1>1, <2>2, <2>3
<1>2. CASE w.st.init \in {"OPEN", "CONNECT", "DISCONNECT"}
  <2>1. /\ l.out = <<>> /\ l.close = w.close
        /\ l.st.init = IF w.st.init = "DISCONNECT" THEN "INIT" ELSE w.st.init
        /\ l.st.build_send = w.st.build_send /\ l.st.build_recv = w.st.build_recv
    BY <1>2 DEF LinkStep, WorkOK, SlaveStation
  <2>2. x = l
    BY <1>2, <2>1 DEF iec104_s_state_machine
  <2>3. Consecutive(x.out, w.st.build_send, x.st.build_send)
    BY <1>0, <2>1, <2>2, ConsecutiveEmpty
  <2>4. QED
    BY <1>2, <2>1, <2>2, <2>3
<1>3. CASE w.st.init \in {"CONNECT_OK", "IDLE"}
  <2>1. ASSUME NEW y, WorkOK(y), NEW q, q = y.out, y.st.init = "IDLE", ~y.close
        PROVE  LET z == TesterStep(y)
               IN  /\ z.st.build_recv = y.st.build_recv /\ z.st.build_send = y.st.build_send
                   /\ z.out = q \/ z.out = Append(q, UFrame("TESTER"))
                   /\ ~z.close => z.st.init = "IDLE"
    <3>1. y.st.test \in TesterStates
      BY <2>1 DEF WorkOK, SlaveStation
    <3>2. CASE y.st.test = "TESTER_START"
      BY <2>1, <3>2 DEF TesterStep, iec104_s_build_u, WorkOK, SlaveStation
    <3>3. CASE y.st.test = "TESTER_IDLE"
      BY <2>1, <3>3 DEF TesterStep, WorkOK, SlaveStation
    <3>4. CASE y.st.test = "TESTER_STOP"
      BY <2>1, <3>4 DEF TesterStep, WorkOK, SlaveStation
    <3>5. QED
      BY <3>1, <3>2, <3>3, <3>4 DEF TesterStates
  <2>2. /\ WorkOK(l) /\ ~l.close /\ l.st.init = "IDLE" /\ l.st.build_recv = w.st.build_recv
        /\ l.out \in Seq(Frames) /\ Consecutive(l.out, w.st.build_send, l.st.build_send)
    <3>1. CASE w.st.init = "IDLE"
      <4>1. l = w
        BY <3>1 DEF LinkStep
      <4>2. QED
        BY <1>0, <3>1, <4>1, ConsecutiveEmpty
    <3>2. CASE w.st.init = "CONNECT_OK"
      <4> DEFINE u == iec104_s_build_u_ack(w, "STARTDT")
                 i == iec104_s_build_init_finsh(u)
      <4>1. Grows(w, u)
        <5>1. UFrame("STARTDT_ACK") \in Frames /\ UFrame("STARTDT_ACK").f # "I"
          BY FramesBuilt DEF UFuncs, UFrame
        <5>2. u = [w EXCEPT !.out = Append(@, UFrame("STARTDT_ACK"))]
          BY DEF iec104_s_build_u_ack
        <5>3. QED
          BY <5>1, <5>2, UnnumberedGrows
      <4> HIDE DEF u
      <4>2. WorkOK(u)
        BY <4>1 DEF Grows
      <4>3. Grows(u, i)
        BY <4>2, BuildIGrows DEF iec104_s_build_init_finsh, AsduTypes, Reasons
      <4>4. Grows(w, i)
        BY <4>1, <4>3, GrowsOn
      <4> HIDE DEF i
      <4>5. PICK q \in Seq(Frames) : i.out = w.out \o q /\ Consecutive(q, w.st.build_send, i.st.build_send)
        BY <4>4 DEF Grows
      <4>6. i.out = q
        BY <4>5, ConcatEmptySeq
      <4>7. l = [i EXCEPT !.st.init = "IDLE", !.st.t_timer = 0, !.serv = "CONNECTED"]
        BY <3>2 DEF LinkStep, i, u
      <4>8. /\ l.close = i.close /\ l.out = i.out /\ l.st.init = "IDLE"
            /\ l.st.build_recv = i.st.build_recv /\ l.st.build_send = i.st.build_send
        <5>1. WorkOK(i)
          BY <4>4 DEF Grows
        <5>2. DOMAIN i = {"st", "out", "close", "serv"} /\ i.st \in SlaveStation
          BY <5>1 DEF WorkOK
        <5> HIDE DEF l
        <5>3. l.close = i.close /\ l.out = i.out /\ l.st = [i.st EXCEPT !.init = "IDLE", !.t_timer = 0]
          BY <4>7, <5>2
        <5>4. QED
          BY <5>2, <5>3 DEF SlaveStation
      <4>9. i.close = w.close /\ i.st.build_recv = w.st.build_recv
        BY <4>4 DEF Grows
      <4>10. WorkOK(l)
        BY LinkStepOK
      <4> HIDE DEF l
      <4>11. QED
        BY <4>5, <4>6, <4>8, <4>9, <4>10
    <3>3. QED
      BY <1>3, <3>1, <3>2
  <2>3. x = TesterStep(l)
    BY <2>2 DEF iec104_s_state_machine
  <2> HIDE DEF l
  <2>4. /\ x.st.build_recv = w.st.build_recv /\ x.st.build_send = l.st.build_send
        /\ x.out = l.out \/ x.out = Append(l.out, UFrame("TESTER"))
        /\ ~x.close => x.st.init = "IDLE"
    BY <2>1, <2>2, <2>3
  <2>5. Consecutive(x.out, w.st.build_send, x.st.build_send)
    <3>1. CASE x.out = l.out
      BY <2>2, <2>4, <3>1
    <3>2. CASE x.out = Append(l.out, UFrame("TESTER"))
      <4> DEFINE fr == UFrame("TESTER")
      <4>1. fr \in Frames /\ fr.f # "I"
        BY FramesBuilt DEF UFuncs, UFrame
      <4> HIDE DEF fr
      <4>2. <<fr>> \in Seq(Frames) /\ (\A i \in 1 .. Len(<<fr>>) : <<fr>>[i].f # "I")
        BY <4>1
      <4>3. l.st.build_send \in Sn
        BY <2>2 DEF WorkOK, SlaveStation
      <4>4. Consecutive(<<fr>>, l.st.build_send, l.st.build_send)
        BY <4>2, <4>3, ConsecutiveNone
      <4>5. w.st.build_send \in Int
        BY <1>0, SnRange
      <4>6. Consecutive(l.out \o <<fr>>, w.st.build_send, l.st.build_send)
        BY <2>2, <4>2, <4>4, <4>5, ConsecutiveConcat
      <4>7. Append(l.out, fr) = l.out \o <<fr>>
        BY <2>2, <4>1
      <4>8. QED
        BY <2>4, <3>2, <4>6, <4>7 DEF fr
    <3>3. QED
      BY <2>4, <3>1, <3>2
  <2>6. QED
    BY <1>3, <2>4, <2>5
<1>4. QED
  BY <1>1, <1>2, <1>3 DEF WorkOK, SlaveStation, LinkStates

(* What a pass leaves of the connections.                                  *)
LEMMA InstallEffect ==
  ASSUME LinkTypes, NEW w, WorkOK(w), SlaveInstall(w)
  PROVE  /\ \A c \in Conns : c # s_client => net'[c] = net[c]
         /\ s_client' = IF w.close THEN NoConn ELSE s_client
         /\ s_client # NoConn =>
              /\ ~w.close => /\ net'[s_client].up = net[s_client].up
                             /\ net'[s_client].cut = net[s_client].cut
              /\ w.close => net'[s_client].up = <<>>
              /\ net'[s_client].mst = "open" =>
                   /\ net[s_client].mst = "open" /\ net'[s_client].cut = net[s_client].cut
                   /\ net'[s_client].down = IF net[s_client].cut THEN net[s_client].down
                                            ELSE net[s_client].down \o w.out
<1> DEFINE n == SlaveSent(net, s_client, w.out)
<1>1. /\ net' = IF w.close THEN SlaveClosed(n, s_client) ELSE n
      /\ s_client' = IF w.close THEN NoConn ELSE s_client
  BY DEF SlaveInstall
<1>2. CASE s_client = NoConn
  <2>1. net' = net
    BY <1>1, <1>2 DEF SlaveSent, SlaveClosed
  <2>2. QED
    BY <1>1, <1>2, <2>1
<1>3. CASE s_client # NoConn
  <2> DEFINE c == s_client
  <2>1. c \in Conns /\ DOMAIN net = Conns /\ DOMAIN net[c] = Fields
    BY <1>3 DEF LinkTypes, NetOK, ConnRecord, Ends, Fields
  <2>2. /\ DOMAIN n = Conns /\ DOMAIN n[c] = Fields
        /\ \A d \in Conns : d # c => n[d] = net[d]
        /\ n[c].up = net[c].up /\ n[c].cut = net[c].cut /\ n[c].mst = net[c].mst
        /\ n[c].down = IF net[c].cut \/ net[c].mst = "closed" THEN net[c].down
                       ELSE net[c].down \o w.out
    BY <1>3, <2>1 DEF SlaveSent, Fields
  <2> HIDE DEF n
  <2>3. CASE ~w.close
    BY <1>1, <2>2, <2>3
  <2>4. CASE w.close
    <3>1. net' = SlaveClosed(n, c) /\ s_client' = NoConn
      BY <1>1, <2>4
    <3>2. CASE n[c].mst = "closed"
      <4>1. net' = [n EXCEPT ![c] = Fresh]
        BY <1>3, <3>1, <3>2 DEF SlaveClosed
      <4>2. (\A d \in Conns : d # c => net'[d] = n[d]) /\ net'[c].up = <<>> /\ net'[c].mst = "none"
        BY <2>1, <2>2, <4>1 DEF Fresh
      <4>3. QED
        BY <1>3, <2>2, <2>4, <3>1, <4>2
    <3>3. CASE n[c].mst # "closed"
      <4>1. net' = [n EXCEPT ![c].slv = "closed", ![c].up = <<>>]
        BY <1>3, <3>1, <3>3 DEF SlaveClosed
      <4>2. /\ \A d \in Conns : d # c => net'[d] = n[d]
            /\ net'[c].up = <<>> /\ net'[c].mst = n[c].mst /\ net'[c].cut = n[c].cut
            /\ net'[c].down = n[c].down
        BY <2>1, <2>2, <4>1 DEF Fields
      <4>3. QED
        BY <1>3, <2>2, <2>4, <3>1, <3>3, <4>2
    <3>4. QED
      BY <3>2, <3>3
  <2>5. QED
    BY <2>3, <2>4
<1>4. QED
  BY <1>2, <1>3
=============================================================================
