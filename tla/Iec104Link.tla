----------------------------- MODULE Iec104Link -----------------------------
(***************************************************************************)
(* What the IEC 60870-5-104 master and slave share: the link and tester    *)
(* states of iec10x_base.h, the three frame formats of iec104_base.h, the  *)
(* 15 bit sequence numbers and the millisecond clock of wow_time.c.        *)
(*                                                                         *)
(* A frame keeps what the handlers branch on.  Time is kept as the AGE of  *)
(* a time stamp (wow_time_get_msec() - stamp), in ticks, saturated one     *)
(* tick above the largest period any handler compares it with.             *)
(***************************************************************************)
EXTENDS Integers, Sequences, FiniteSets

CONSTANTS SnMod,             \* 2^15: SendSn and RecvSn are 15 bit fields
          CIRCLE_TESTER_U,   \* IEC10X_CIRCLE_TESTER_U, in ticks
          TESTER_U_TIMEOUT,  \* IEC10X_TESTER_U_TIMEOUT, in ticks
          CONNECT_TIMEOUT,   \* IEC10X_CONNECT_TIMEOUT, in ticks
          ClockBack          \* bound: ticks the wall clock may be set back

ASSUME FrameAssumption ==
  /\ SnMod \in Nat /\ SnMod > 1
  /\ CIRCLE_TESTER_U \in Nat
  /\ TESTER_U_TIMEOUT \in Nat /\ TESTER_U_TIMEOUT <= CIRCLE_TESTER_U
  /\ CONNECT_TIMEOUT \in Nat /\ CONNECT_TIMEOUT <= CIRCLE_TESTER_U
  /\ ClockBack \in Nat

-----------------------------------------------------------------------------
(* Iec10xStat_E; LINK_CLOSE is never assigned by either station.           *)
LinkStates == {"INIT", "OPEN", "CONNECT", "CONNECT_OK", "DISCONNECT", "IDLE"}
TesterStates == {"TESTER_IDLE", "TESTER_START", "TESTER_STOP"}

UFuncs == {"STARTDT", "STARTDT_ACK", "STOPDT", "STOPDT_ACK", "TESTER", "TESTER_ACK"}

(* M_TB stands for the time-tagged types, C_SC for C_SC/C_DC, C_SE for     *)
(* C_SE_NA/C_SE_NC and M_ME for the two measured-value types: the handlers *)
(* treat the members of each group alike.                                  *)
AsduTypes == {"M_EI", "M_SP", "M_ME", "M_IT", "M_TB",
              "C_IC", "C_CI", "C_CS", "C_SC", "C_SE", "UNKNOWN"}
Reasons == {"SPONT", "INIT", "ACT", "ACTCON", "ACTTERM", "INTROGEN", "REQCOGEN", "OTHER"}

Sn == 0 .. SnMod - 1

UFrames == [f : {"U"}, fn : UFuncs]
SFrames == [f : {"S"}, rs : Sn]

(* own: the common address is this station's; ia0: the information object  *)
(* address is 0; sel: the select bit 0x80 of sco/qds; val: the commanded   *)
(* value, or the qoi/qcc of an interrogation (1 when it is the general one).*)
IFrames == [f : {"I"}, ty : AsduTypes, cot : Reasons, own : BOOLEAN, ia0 : BOOLEAN,
            sel : BOOLEAN, val : {0, 1}, ss : Sn, rs : Sn]
Frames == UFrames \cup SFrames \cup IFrames

UFrame(fn) == [f |-> "U", fn |-> fn]
SFrame(rs) == [f |-> "S", rs |-> rs % SnMod]
IFrame(ty, cot, ia0, sel, val, ss, rs) ==
  [f |-> "I", ty |-> ty, cot |-> cot, own |-> TRUE, ia0 |-> ia0,
   sel |-> sel, val |-> val, ss |-> ss, rs |-> rs % SnMod]

(* The I frames among the first k of q.                                    *)
Numbered(q, k) == Cardinality({j \in 1 .. k : q[j].f = "I"})

-----------------------------------------------------------------------------
MaxAge == CIRCLE_TESTER_U + 1
Ages == (- ClockBack) .. MaxAge  \* negative: stamped before the clock was set back

Epoch == MaxAge                  \* the age of a time stamp that is 0
Older(age) == IF age < MaxAge THEN age + 1 ELSE age

(* The ages a stamp may have once settimeofday has moved the wall clock by *)
(* d ticks: a saturated age stands for every larger one.                   *)
Stepped(age, d) ==
  {a \in Ages : \/ a = age + d
                \/ age + d > MaxAge /\ a = MaxAge
                \/ age + d < - ClockBack /\ a = - ClockBack
                \/ age = MaxAge /\ a >= age + d}

-----------------------------------------------------------------------------
(***************************************************************************)
(* The TCP port of the protocol stack (wow_proto_port.c over wow_tcp.c):   *)
(* the master's client socket, the slave's listening socket with its       *)
(* accept thread, and the connections between them.  A connection is a     *)
(* pair of FIFO frame queues.  The peer of a closed or cut connection is   *)
(* not told: wow_tcp_read_timeout returns 0 for "closed by the peer" as    *)
(* for "nothing yet", and writes to it are lost.                           *)
(***************************************************************************)

CONSTANTS Conns,    \* connections that may exist at the same time
          NoConn    \* port->client == NULL

ASSUME LinkAssumption == NoConn \notin Conns

VARIABLES net,       \* net[c]: the kernel's view of connection c
          backlog,   \* connections waiting for accept(), oldest first
          m_client,  \* port->client of the master
          s_client,  \* port->client of the slave
          acc        \* the slave's accept thread

linkVars == <<net, backlog, m_client, s_client, acc>>

EndStates == {"none", "open", "closed"}

Fresh == [up |-> <<>>, down |-> <<>>, mst |-> "none", slv |-> "none", cut |-> FALSE]

LinkInit ==
  /\ net = [c \in Conns |-> Fresh]
  /\ backlog = <<>>
  /\ m_client = NoConn
  /\ s_client = NoConn
  /\ acc = [pc |-> "accept", tcp |-> NoConn]

LinkTypeOK ==
  /\ net \in [Conns -> [up : Seq(Frames), down : Seq(Frames),
                        mst : EndStates, slv : EndStates, cut : BOOLEAN]]
  /\ backlog \in Seq(Conns)
  /\ m_client \in Conns \cup {NoConn}
  /\ s_client \in Conns \cup {NoConn}
  /\ acc \in [pc : {"accept", "sleep", "conn", "install"}, tcp : Conns \cup {NoConn}]

-----------------------------------------------------------------------------
(* eth_link_send: nothing happens without a client; what is written to a   *)
(* connection that is cut or that the peer has closed never arrives.       *)
MasterSent(n, c, frames) ==
  IF c = NoConn \/ n[c].cut \/ n[c].slv = "closed" THEN n
  ELSE [n EXCEPT ![c].up = @ \o frames]

SlaveSent(n, c, frames) ==
  IF c = NoConn \/ n[c].cut \/ n[c].mst = "closed" THEN n
  ELSE [n EXCEPT ![c].down = @ \o frames]

(* What link_recv can read; eth_link_recv fails without a client.          *)
MasterInbox == IF m_client = NoConn THEN <<>> ELSE net[m_client].down
SlaveInbox == IF s_client = NoConn THEN <<>> ELSE net[s_client].up

(* wow_tcp_close on one end; the kernel forgets a connection whose two     *)
(* ends are closed.                                                        *)
MasterClosed(n, c) ==
  IF c = NoConn THEN n
  ELSE IF n[c].slv = "closed" THEN [n EXCEPT ![c] = Fresh]
  ELSE [n EXCEPT ![c].mst = "closed", ![c].down = <<>>]

SlaveClosed(n, c) ==
  IF c = NoConn THEN n
  ELSE IF n[c].mst = "closed" THEN [n EXCEPT ![c] = Fresh]
  ELSE [n EXCEPT ![c].slv = "closed", ![c].up = <<>>]

(* The network drops an established connection without telling either end. *)
LinkCut(c) ==
  /\ net[c].mst = "open" /\ net[c].slv = "open" /\ ~net[c].cut
  /\ net' = [net EXCEPT ![c].cut = TRUE, ![c].up = <<>>, ![c].down = <<>>]
  /\ UNCHANGED <<backlog, m_client, s_client, acc>>
=============================================================================
