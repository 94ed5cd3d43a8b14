-------------------------------- MODULE Ipc --------------------------------
(***************************************************************************)
(* The message service between processes (ipc/wow_ipc.c) over Unix         *)
(* SOCK_SEQPACKET sockets: one server (ipc_skt_server.c) and clients       *)
(* (ipc_skt_client.c).  Each side has an application thread and an event   *)
(* loop thread; the server's loop accepts, binds and unbinds clients and   *)
(* hands their messages on, a client's loop hands answers to a waiting     *)
(* call and everything else to the registered function.  Messages are      *)
(* kept whole and in order per connection, none is lost, but a client may  *)
(* die at any moment, and a waiting call may time out at any moment.       *)
(*                                                                         *)
(* SIGPIPE is taken to be ignored by the processes: the library does not   *)
(* do it, and a send to a client that has gone would end the server.       *)
(***************************************************************************)
EXTENDS Integers, Sequences, SequencesExt, FiniteSets

CONSTANTS
  Clients,          \* client identifiers (cliId)
  MAX_IPC_NUMNER,   \* entries the server's list may have
  Limits            \* the bounds of a behaviour, one of these: [clients, conns, tags], namely
                    \* how many clients take part, the connections made, the messages sent

ASSUME IpcBounds ==
  /\ MAX_IPC_NUMNER \in Nat
  /\ Limits \subseteq [clients : SUBSET Clients, conns : Nat, tags : Nat]

VARIABLES
  up,       \* the server runs
  clist,    \* the server's list: [conn, bind, cid, r]; r is the packet kept for wow_ipc_recv
  conn,     \* all connections so far: [cli, st, open, toS, toC]
  cli,      \* per client process
  obs,      \* what an observer notes: tags used, connections whose client died
  lim       \* the bounds

ipcVars == <<up, clist, conn, cli, obs, lim>>

NoMsg == [flag |-> "none", src |-> 0, dest |-> 0, cmd |-> "none", tag |-> 0]
ServerId == 0
Msg(flag, dest, src, cmd, tag) == [flag |-> flag, src |-> src, dest |-> dest, cmd |-> cmd, tag |-> tag]
(* What wow_ipc_broadcast sends has flag "PUSH" here, for the observer: in *)
(* the code it is IPC_CMD_COMM, and nothing looks at the difference.       *)
(* BUILD_ACK_IPC_MSG_ID: the identifier of the answer to a message, and    *)
(* the identifier whose answer a message is.                               *)
Ack(msg) == [msg EXCEPT !.src = msg.dest, !.dest = msg.src]

Off == [pc |-> "off", conn |-> 0, bsem |-> 0, sem |-> 0, sync |-> {}, resp |-> 0, req |-> 0,
        ret |-> "none", cb |-> FALSE, r |-> NoMsg, late |-> FALSE, wait |-> "none"]

Init ==
  /\ up = TRUE /\ clist = <<>> /\ conn = <<>>
  /\ cli = [k \in Clients |-> Off]
  /\ obs = [tags |-> 0, dead |-> {}]
  /\ lim \in Limits

(* A message put on a connection: nothing if the other end has gone.       *)
ToClient(cs, i, msg) == IF cs[i].open THEN [cs EXCEPT ![i].toC = Append(@, msg)] ELSE cs
ToServer(cs, i, msg) == IF cs[i].st # "closed" THEN [cs EXCEPT ![i].toS = Append(@, msg)] ELSE cs

-----------------------------------------------------------------------------
(* wow_ipc_create_client: connect, start the loop, send BIND and wait.     *)
Create(k) ==
  /\ cli[k].pc = "off" /\ up /\ k \in lim.clients /\ Len(conn) < lim.conns
  /\ conn' = Append(conn, [cli |-> k, st |-> "pending", open |-> TRUE, toC |-> <<>>,
                           toS |-> <<Msg("BIND", ServerId, k, "none", 0)>>])
  /\ cli' = [cli EXCEPT ![k] = [Off EXCEPT !.pc = "binding", !.conn = Len(conn) + 1]]
  /\ UNCHANGED <<up, clist, obs>>

BindDone(k) ==
  /\ cli[k].pc = "binding" /\ cli[k].bsem > 0
  /\ cli' = [cli EXCEPT ![k].pc = "bound", ![k].bsem = @ - 1]
  /\ UNCHANGED <<up, clist, conn, obs>>

(* set_recv_cb and the rest of the client's creation.                      *)
Ready(k) ==
  /\ cli[k].pc = "bound"
  /\ cli' = [cli EXCEPT ![k].pc = "up", ![k].cb = TRUE]
  /\ UNCHANGED <<up, clist, conn, obs>>

(* ipc_skt_exit of the client: UNBIND is sent and the socket closed.       *)
CloseOnly(k) == [conn EXCEPT ![cli[k].conn].open = FALSE]
ipc_skt_exit(k) ==
  [ToServer(conn, cli[k].conn, Msg("UNBIND", ServerId, k, "none", 0)) EXCEPT ![cli[k].conn].open = FALSE]

BindTimeout(k) ==
  /\ cli[k].pc = "binding" /\ cli[k].bsem = 0
  /\ conn' = ipc_skt_exit(k)
  /\ cli' = [cli EXCEPT ![k] = Off]
  /\ UNCHANGED <<up, clist, obs>>

wow_ipc_destroy(k) ==
  /\ cli[k].pc = "up"
  /\ conn' = ipc_skt_exit(k)
  /\ cli' = [cli EXCEPT ![k] = Off]
  /\ UNCHANGED <<up, clist, obs>>

(* The client process dies.                                                *)
Crash(k) ==
  /\ cli[k].pc # "off"
  /\ conn' = [conn EXCEPT ![cli[k].conn].open = FALSE]
  /\ obs' = [obs EXCEPT !.dead = @ \cup {cli[k].conn}]
  /\ cli' = [cli EXCEPT ![k] = Off]
  /\ UNCHANGED <<up, clist>>

-----------------------------------------------------------------------------
(* wow_ipc_send of a message the server has no function for.               *)
wow_ipc_send(k) ==
  /\ cli[k].pc = "up" /\ obs.tags < lim.tags
  /\ conn' = ToServer(conn, cli[k].conn, Msg("COMM", ServerId, k, "info", obs.tags + 1))
  /\ obs' = [obs EXCEPT !.tags = @ + 1]
  /\ UNCHANGED <<up, clist, cli>>

(* wow_ipc_send_wait: the identifier is noted, the request sent.  A send   *)
(* that fails is not noticed (its result is -1 less the header's size).    *)
wow_ipc_send_wait(k, cmd) ==
  /\ cli[k].pc = "up" /\ obs.tags < lim.tags
  /\ cli' = [cli EXCEPT ![k].pc = "waiting", ![k].sync = @ \cup {cmd}, ![k].wait = cmd,
                        ![k].req = obs.tags + 1, ![k].ret = "none"]
  /\ conn' = ToServer(conn, cli[k].conn, Msg("COMM", ServerId, k, cmd, obs.tags + 1))
  /\ obs' = [obs EXCEPT !.tags = @ + 1]
  /\ UNCHANGED <<up, clist>>

Answered(k) ==
  /\ cli[k].pc = "waiting" /\ cli[k].sem > 0
  /\ cli' = [cli EXCEPT ![k].pc = "up", ![k].sem = @ - 1, ![k].ret = "ok"]
  /\ UNCHANGED <<up, clist, conn, obs>>

(* sem_timedwait gives up; the identifier is taken back a moment later.    *)
WaitTimeout(k) ==
  /\ cli[k].pc = "waiting" /\ cli[k].sem = 0
  /\ cli' = [cli EXCEPT ![k].pc = "timedout", ![k].late = TRUE]
  /\ UNCHANGED <<up, clist, conn, obs>>

pop_sync_cmd(k) ==
  /\ cli[k].pc = "timedout"
  /\ cli' = [cli EXCEPT ![k].pc = "up", ![k].sync = @ \ {cli[k].wait}, ![k].ret = "failed"]
  /\ UNCHANGED <<up, clist, conn, obs>>

(* ipc_process_msg on the client: an answer that is waited for, a message  *)
(* for the registered function, or one that is kept for wow_ipc_recv.  A   *)
(* broadcast with the identifier of a waiting call is taken for its answer.*)
ToWaiter(c, msg) ==
  [c EXCEPT !.resp = msg.tag, !.sem = @ + 1, !.r = NoMsg,
            !.late = @ \/ (msg.flag = "PUSH" /\ msg.cmd \in c.sync)]
ProcessAny(c, msg) ==
  IF c.sync # {} THEN [ToWaiter(c, msg) EXCEPT !.sync = {}]
  ELSE [c EXCEPT !.r = NoMsg]
ipc_process_msg(c, msg) ==
  IF Ack(msg).cmd \in c.sync
  THEN [ToWaiter(c, msg) EXCEPT !.sync = @ \ {msg.cmd}]
  ELSE [c EXCEPT !.r = IF msg.cmd = "push" THEN NoMsg ELSE msg]

ClientTakes(c, msg) ==
  CASE msg.flag \in {"BIND", "UNBIND"} -> [c EXCEPT !.bsem = @ + 1, !.r = NoMsg]
    [] msg.flag \in {"COMM", "PUSH"} /\ ~c.cb -> [c EXCEPT !.r = msg]
    [] OTHER -> ipc_process_msg(c, msg)
client_recv_callback(k) ==
  /\ cli[k].pc # "off"
  /\ LET i == cli[k].conn IN
       /\ conn[i].toC # <<>>
       /\ conn' = [conn EXCEPT ![i].toC = Tail(@)]
       /\ cli' = [cli EXCEPT ![k] = ClientTakes(@, Head(conn[i].toC))]
  /\ UNCHANGED <<up, clist, obs>>

(* wow_ipc_recv of the client.                                             *)
ClientPoll(k) ==
  /\ cli[k].pc = "up" /\ cli[k].r # NoMsg
  /\ cli' = [cli EXCEPT ![k].r = NoMsg]
  /\ UNCHANGED <<up, clist, conn, obs>>

-----------------------------------------------------------------------------
(* socket_connect_callback, ipc_add_client.                                *)
Accept(i) ==
  /\ up /\ conn[i].st = "pending" /\ Len(clist) < MAX_IPC_NUMNER
  /\ conn' = [conn EXCEPT ![i].st = "accepted"]
  /\ clist' = Append(clist, [conn |-> i, bind |-> FALSE, cid |-> 0, r |-> NoMsg])
  /\ UNCHANGED <<up, cli, obs>>

(* ipc_skt_send of the server: the first entry with the identifier.        *)
SendTo(cs, cid, msg) ==
  LET found == {j \in DOMAIN clist : clist[j].cid = cid}
  IN IF found = {} THEN cs
     ELSE ToClient(cs, clist[CHOOSE j \in found : \A l \in found : j <= l].conn, msg)

(* ipc_ack_client_bind, ipc_ack_client_unbind.                             *)
ipc_ack_client_bind(j, msg, cs) ==
  /\ clist' = [clist EXCEPT ![j].bind = TRUE, ![j].cid = msg.src, ![j].r = NoMsg]
  /\ conn' = ToClient(cs, clist[j].conn, msg)

ipc_ack_client_unbind(j, msg, cs) ==
  IF clist[j].bind
  THEN /\ clist' = RemoveAt(clist, j)
       /\ conn' = [ToClient(cs, clist[j].conn, msg) EXCEPT ![clist[j].conn].st = "closed"]
  ELSE clist' = [clist EXCEPT ![j].r = NoMsg] /\ conn' = cs

(* server_recv_callback: one message of the j-th client.  The function     *)
(* registered for requests answers with the acknowledging identifier.      *)
(* The code's test of the length read compares it as unsigned, so that a   *)
(* failed read (-1) would be handled as the message read before; a read    *)
(* the loop announces is taken not to fail.                                *)
server_recv_callback(j) ==
  /\ up
  /\ LET i == clist[j].conn IN
       /\ conn[i].toS # <<>>
       /\ LET msg == Head(conn[i].toS)
              cs == [conn EXCEPT ![i].toS = Tail(@)]
          IN CASE msg.flag = "BIND" -> ipc_ack_client_bind(j, msg, cs)
               [] msg.flag = "UNBIND" -> ipc_ack_client_unbind(j, msg, cs)
               [] OTHER ->
                    /\ clist' = [clist EXCEPT ![j].r = IF msg.cmd = "info" \/ ~clist[j].bind THEN msg ELSE NoMsg]
                    /\ conn' = IF clist[j].bind /\ msg.cmd # "info" THEN SendTo(cs, msg.src, Ack(msg)) ELSE cs
  /\ UNCHANGED <<up, cli, obs>>

(* wow_ipc_recv, wow_ipc_broadcast and wow_ipc_destroy of the server.      *)
ServerPoll(j) ==
  /\ up /\ clist[j].r # NoMsg
  /\ \A l \in 1..(j - 1) : clist[l].cid # clist[j].cid
  /\ clist' = [clist EXCEPT ![j].r = NoMsg]
  /\ UNCHANGED <<up, conn, cli, obs>>

\* The bound entry of connection i: no connection is listed twice.
Bound(i) == {j \in DOMAIN clist : clist[j].conn = i /\ clist[j].bind}
ipc_skt_broadcast(cmd) ==
  /\ up /\ obs.tags < lim.tags
  /\ conn' = [i \in DOMAIN conn |->
       IF conn[i].open /\ Bound(i) # {}
       THEN [conn[i] EXCEPT !.toC = Append(@, Msg("PUSH", clist[CHOOSE j \in Bound(i) : TRUE].cid, ServerId, cmd, obs.tags + 1))]
       ELSE conn[i]]
  /\ obs' = [obs EXCEPT !.tags = @ + 1]
  /\ UNCHANGED <<up, clist, cli>>

ServerDestroy ==
  /\ up /\ obs.tags = lim.tags
  /\ up' = FALSE /\ clist' = <<>>
  /\ conn' = [i \in DOMAIN conn |-> [conn[i] EXCEPT !.st = "closed", !.toS = <<>>]]
  /\ UNCHANGED <<cli, obs>>

LoopAccepts == \E i \in DOMAIN conn : Accept(i)
ServerLoop == (\E i \in DOMAIN conn : Accept(i)) \/ (\E j \in DOMAIN clist : server_recv_callback(j))

Next ==
  /\ UNCHANGED lim
  /\ \/ \E k \in Clients :
          \/ Create(k) \/ BindDone(k) \/ Ready(k) \/ BindTimeout(k) \/ wow_ipc_destroy(k) \/ Crash(k)
          \/ wow_ipc_send(k) \/ (\E cmd \in {"get", "put"} : wow_ipc_send_wait(k, cmd))
          \/ Answered(k) \/ WaitTimeout(k) \/ pop_sync_cmd(k) \/ client_recv_callback(k) \/ ClientPoll(k)
     \/ (\E i \in DOMAIN conn : Accept(i)) \/ (\E j \in DOMAIN clist : server_recv_callback(j) \/ ServerPoll(j))
     \/ (\E cmd \in {"push", "get", "put"} : ipc_skt_broadcast(cmd)) \/ ServerDestroy

(* The server's loop thread runs.                                          *)
Spec == Init /\ [][Next]_ipcVars /\ WF_ipcVars(UNCHANGED lim /\ ServerLoop)

-----------------------------------------------------------------------------
ConnIds == UNION {1..l.conns : l \in Limits}

(* Types, and a semaphore counts at most the answers that were not waited  *)
(* for any more.                                                           *)
TypeOK ==
  /\ up \in BOOLEAN /\ Len(clist) <= MAX_IPC_NUMNER
  /\ \A j \in DOMAIN clist : clist[j].conn \in DOMAIN conn /\ clist[j].cid \in Clients \cup {0}
  /\ \A k \in Clients : /\ cli[k].pc \in {"off", "binding", "bound", "up", "waiting", "timedout"}
                        /\ cli[k].sem \in 0..lim.tags /\ cli[k].bsem \in 0..2
                        /\ cli[k].sync \subseteq {"get", "put"}
                        /\ cli[k].pc # "off" => cli[k].conn \in DOMAIN conn

(* A call that waits for an answer gets the answer to its own request, as  *)
(* long as no earlier call of that client timed out (the answer to that    *)
(* one, or the semaphore it raised, would be taken for its successor's)    *)
(* and no broadcast came with the identifier that was waited for:          *)
(* ipc_process_msg cannot tell that from the answer.                       *)
AnswerIsMine ==
  \A k \in Clients : (cli[k].ret = "ok" /\ ~cli[k].late) => cli[k].resp = cli[k].req

(* The server lists no client that has gone, except one that died, or one  *)
(* whose UNBIND is still to be read; and no connection twice.              *)
EntriesLive ==
  /\ TypeOK
  /\ \A j \in DOMAIN clist :
       \/ conn[clist[j].conn].open
       \/ clist[j].conn \in obs.dead
       \/ \E n \in DOMAIN conn[clist[j].conn].toS : conn[clist[j].conn].toS[n].flag = "UNBIND"
  /\ \A j, l \in DOMAIN clist : clist[j].conn = clist[l].conn => j = l

(* A client that left in an orderly way leaves the server's list.          *)
UnbindProcessed ==
  \A i \in ConnIds :
    (i \in DOMAIN conn /\ ~conn[i].open /\ i \notin obs.dead /\ conn[i].st = "accepted")
       ~> (i \in DOMAIN conn /\ conn[i].st = "closed")

(* Instances for TLC: one client that comes back and calls often; two that *)
(* come and go; two that call.                                             *)
Lim(cs, n, t) == [clients |-> cs, conns |-> n, tags |-> t]
MCLimits == {Lim({1}, 2, 3), Lim({0, 1}, 3, 0), Lim({0, 1}, 2, 1)}
=============================================================================
