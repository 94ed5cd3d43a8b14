------------------------------ MODULE Network -------------------------------
(***************************************************************************)
(* wow_socket.c, and the loops of wow_tcp.c and wow_udp.c above it.  A     *)
(* call that loops is a state of its own, one step per system call, so     *)
(* that the two ends of a connection interleave.  room is what the kernel  *)
(* still takes; cdown says whether the end has a countdown: the ones that  *)
(* accept made have none, and never expire.                                *)
(***************************************************************************)
EXTENDS Integers, Sequences, SequencesExt, FiniteSetsExt

CONSTANTS MAX_IP_SIZE,                  \* interfaces the array has room for: 16 in the code
          PortRoom                      \* ports it has room for: 8192 in the code

Idle == [op |-> "idle", buf |-> <<>>, n |-> 0]
wow_tcp_open(cdown) == [q |-> <<>>, room |-> 2, shut |-> FALSE, w |-> Idle, r |-> Idle, cdown |-> cdown]
wow_tcp_write_timeout(st, buf) == [st EXCEPT !.w = [op |-> "send", buf |-> buf, n |-> 0]]
wow_tcp_read_timeout(st, n) == [st EXCEPT !.r = [op |-> "recv", buf |-> <<>>, n |-> n]]
Finished(st, side) == IF side = "w" THEN [st EXCEPT !.w = Idle] ELSE [st EXCEPT !.r = Idle]
\* One round of the loop: what is left to send goes, in part, or the call fails.
wow_socket_tsend(st) ==
  {[st EXCEPT !.q = @ \o SubSeq(st.w.buf, st.w.n + 1, st.w.n + k), !.w.n = @ + k] :
     k \in 1 .. Min({st.room - Len(st.q), Len(st.w.buf) - st.w.n})}
\* The loop ends: all is sent, the send failed (also for want of room on a
\* socket that does not block), or the time is over.
SendEnds(st) == st.w.n = Len(st.w.buf) \/ Len(st.q) = st.room \/ st.shut \/ st.cdown
\* recv never waits: it takes some of what is there.
wow_socket_trecv(st) ==
  {[st EXCEPT !.q = SubSeq(@, k + 1, Len(@)), !.r.buf = @ \o SubSeq(st.q, 1, k)] :
     k \in 1 .. Min({Len(st.q), st.r.n - Len(st.r.buf)})}
\* The loop ends: all is read, nothing came in time (the select), the other
\* end is closed and nothing is left, or the time is over after a round.
RecvEnds(st) ==
  \/ Len(st.r.buf) = st.r.n
  \/ st.q = <<>>
  \/ st.cdown /\ st.r.buf # <<>>
-----------------------------------------------------------------------------
(* Datagrams: <<from, to, data>> in a network that loses, doubles and      *)
(* reorders them.  The port of a peer is its number, the address is lost   *)
(* (addr = 0) by a connect whose name does not resolve.                    *)
wow_udp_open == [addr |-> 0, port |-> 0]
wow_udp_connect(u, peer, resolves) ==
  IF resolves THEN [st |-> [addr |-> peer, port |-> peer], ret |-> 0] ELSE [st |-> [u EXCEPT !.addr = 0], ret |-> -1]
Trunc(data, n) == SubSeq(data, 1, Min({n, Len(data)}))
\* The sender of what is read becomes the peer; what does not fit is lost.
wow_socket_urecv(u, d, n) == [st |-> [addr |-> d[1], port |-> d[1]], ret |-> Trunc(d[3], n)]
wow_udp_read(u, d, n) == wow_socket_urecv(u, d, n)
\* select has timed out, or the datagram that is there is read.
wow_udp_read_timeout(u, ds, n) ==
  {[st |-> u, ret |-> <<>>]} \cup {wow_socket_urecv(u, d, n) : d \in ds}
wow_socket_usend(u, data) ==
  IF u.port = 0 \/ u.addr = 0 THEN [to |-> 0, ret |-> -1] ELSE [to |-> u.addr, ret |-> Len(data)]
wow_udp_write(u, data) == wow_socket_usend(u, data)
\* Nothing is sent once the time is over; a failed send ends the loop.
wow_udp_write_timeout(u, data) ==
  LET s == wow_socket_usend(u, data) IN
  {[to |-> 0, ret |-> 0], [s EXCEPT !.ret = IF @ < 0 THEN 0 ELSE @]}
-----------------------------------------------------------------------------
(* One socket: its options and how its connect ends. *)
wow_socket_open == [block |-> 1, nodelay |-> 0, rcv |-> 4, snd |-> 4, conn |-> FALSE]
\* The kernel doubles the size of a buffer.
wow_socket_setopt(s, ctrl, v) ==
  CASE ctrl = "BLOCK" -> [s EXCEPT !.block = IF v = 0 THEN 0 ELSE 1]
    [] ctrl = "TCP_NODELAY" -> [s EXCEPT !.nodelay = IF v = 0 THEN 0 ELSE 1]
    [] ctrl = "RECV_BUFF_SIZE" -> [s EXCEPT !.rcv = 2 * v]
    [] OTHER -> [s EXCEPT !.snd = 2 * v]
GetOption(s, ctrl) ==
  CASE ctrl = "BLOCK" -> s.block
    [] ctrl = "TCP_NODELAY" -> s.nodelay
    [] ctrl = "RECV_BUFF_SIZE" -> s.rcv
    [] OTHER -> s.snd
\* reach: the peer accepts.  A socket that does not block is told of a
\* refusal by SO_ERROR, which is read and not looked at.
wow_socket_connect(s, reach, timely) ==
  IF s.conn THEN [st |-> s, ret |-> 0]
  ELSE IF s.block = 1 THEN [st |-> [s EXCEPT !.conn = reach], ret |-> IF reach THEN 0 ELSE -1]
  ELSE IF timely THEN [st |-> [s EXCEPT !.conn = reach], ret |-> 0]
  ELSE [st |-> s, ret |-> -1]

-----------------------------------------------------------------------------
(***************************************************************************)
(* wow_ftp.c: commands on one connection, data on another.  q are the      *)
(* replies of the server that have not been read, in order; one reading    *)
(* takes any number of them that have arrived and judges the first.  A     *)
(* step with several outcomes is a set of pairs of a state and a result.   *)
(* Files are sequences of blocks: srv those of the server, dst the local   *)
(* one.  socks counts the open data connections, port is the one the       *)
(* server listens on; late is TRUE once a reply came after its reader had  *)
(* given up.                                                               *)
(***************************************************************************)

Reply(code, arg) == [code |-> code, arg |-> arg]
Timeout == Reply(-1, 0)
Closed == Reply(0, 0)
Out(st, ret) == [st |-> st, ret |-> ret]
\* Every outcome of A, continued by B.
Then(A, B(_, _)) == UNION {B(a.st, a.ret) : a \in A}

\* new: what the server answers to the command.  The reader gives up after MAX_RETRY_CNT attempts.
ftp_exe_cmdSock(st, new) ==
  LET all == st.q \o new IN
  {Out([st EXCEPT !.q = SubSeq(all, t + 1, Len(all))], all[1]) : t \in 1 .. Len(all)}
  \cup (IF st.q = <<>> THEN {Out([st EXCEPT !.q = all, !.late = @ \/ all # <<>>], Timeout), Out(st, Closed)} ELSE {})

ftp_login_server(st, user, pass) ==
  Then(ftp_exe_cmdSock(st, <<Reply(220, 0)>>), LAMBDA a, r :
    IF r.code # 220 THEN {Out(a, -1)}
    ELSE Then(ftp_exe_cmdSock(a, <<Reply(user, 0)>>), LAMBDA b, u :
      LET type(c) == Then(ftp_exe_cmdSock(c, <<Reply(200, 0)>>), LAMBDA d, t : {Out(d, IF t.code = 200 THEN 0 ELSE -1)}) IN
      CASE u.code = 230 -> type(b)
        [] u.code = 331 -> Then(ftp_exe_cmdSock(b, <<Reply(pass, 0)>>), LAMBDA c, p : IF p.code = 230 THEN type(c) ELSE {Out(c, -1)})
        [] OTHER -> {Out(b, -1)}))
\* A connection with which the server has accepted the user, or none.
wow_ftp_login(st, user, pass) ==
  {IF o.ret = 0 THEN Out([o.st EXCEPT !.on = TRUE], 0) ELSE Out([o.st EXCEPT !.q = <<>>], -1) : o \in ftp_login_server(st, user, pass)}
wow_ftp_exit(st) == [st EXCEPT !.on = FALSE, !.q = <<>>]

ftp_get_fileSize(st, f) ==
  Then(ftp_exe_cmdSock(st, <<IF st.srv[f] = <<>> THEN Reply(550, 0) ELSE Reply(213, Len(st.srv[f]))>>),
       LAMBDA a, r : {Out(a, IF r.code = 213 THEN r.arg ELSE -1)})
\* here: the directory exists already.
ftp_mk_dir(st, here) ==
  Then(ftp_exe_cmdSock(st, <<Reply(IF here THEN 250 ELSE 550, 0)>>), LAMBDA a, r :
    IF r.code = 250 THEN {Out(a, 0)}
    ELSE Then(ftp_exe_cmdSock(a, <<Reply(IF here THEN 550 ELSE 257, 0)>>), LAMBDA b, m : {Out(b, IF m.code = 257 THEN 0 ELSE -1)}))
\* The line is ended twice: the server answers the empty command as well.
ftp_delete_file(st, f) ==
  Then(ftp_exe_cmdSock([st EXCEPT !.srv[f] = <<>>],
                       <<Reply(IF st.srv[f] = <<>> THEN 550 ELSE 250, 0), Reply(500, 0)>>),
       LAMBDA a, r : {Out(a, IF r.code = 250 THEN 0 ELSE -1)})

\* The server listens on a new port, and on that one only.
ftp_create_dataChan(st) ==
  Then(ftp_exe_cmdSock([st EXCEPT !.port = @ + 1], <<Reply(227, st.port + 1)>>), LAMBDA a, r :
    {Out(a, -1)} \cup (IF r.code = 227 /\ r.arg = a.port THEN {Out([a EXCEPT !.socks = @ + 1], 0)} ELSE {}))
CloseData(st) == [st EXCEPT !.socks = @ - 1]

\* The file is opened for appending; only its size is compared in the end.
DownloadAny(st, f) == {Out([st EXCEPT !.dst = @ \o p], 0) : p \in Prefixes(st.srv[f])}
ftp_download_file(st, f) ==
  Then(ftp_create_dataChan(st), LAMBDA a, d :
    IF d # 0 THEN {Out(a, -1)}
    ELSE Then(ftp_get_fileSize(a, f), LAMBDA b, size :
      IF size <= 0 THEN {Out(CloseData(b), -1)}
      ELSE LET sent == b.srv[f] # <<>>
               new == IF sent THEN <<Reply(150, 0), Reply(226, 0)>> ELSE <<Reply(550, 0)>> IN
           Then(ftp_exe_cmdSock(b, new), LAMBDA c, r :
             IF r.code > 150 THEN {Out(CloseData(c), -1)}
             ELSE {LET e == CloseData([c EXCEPT !.dst = @ \o p]) IN Out(e, IF Len(e.dst) = size THEN 0 ELSE -1) :
                     p \in Prefixes(b.srv[f])})))

\* local: the file to send; cut: a sending failed on the way; acc: the server takes the file.
ftp_upload_file(st, f, local, cut) ==
  Then(ftp_create_dataChan(st), LAMBDA a, d :
    IF d # 0 THEN {Out(a, -1)}
    ELSE UNION {Then(ftp_exe_cmdSock(a, <<Reply(IF acc THEN 150 ELSE 553, 0)>>), LAMBDA b, r :
      LET sent == IF cut THEN Front(local) ELSE local
          took(s, content) == IF acc THEN [CloseData(s) EXCEPT !.srv[f] = content] ELSE CloseData(s)
          end(s, code) == ftp_exe_cmdSock([s EXCEPT !.port = @ + 1],
                            (IF acc THEN <<Reply(code, 0)>> ELSE <<>>) \o <<Reply(227, s.port + 1)>>) IN
      IF r.code # 150 THEN {Out(CloseData(b), -1)}
      ELSE IF local = <<>> THEN {Out([took(b, <<>>) EXCEPT !.q = IF acc THEN Append(@, Reply(226, 0)) ELSE @], -1)}
      ELSE Then(end(took(b, sent), 226) \cup end(took(b, <<>>), 451), LAMBDA c, e :
             {Out(c, IF e.code = 226 THEN 0 ELSE -1)})) : acc \in BOOLEAN})

wow_ftp_new(srv) == [on |-> FALSE, q |-> <<>>, srv |-> srv, dst |-> <<>>, socks |-> 0, port |-> 0, late |-> FALSE]
-----------------------------------------------------------------------------
(* The network interfaces of wow_net_iface.c.  tab are the descriptors of  *)
(* the process: "free", "net" (opened here) or "other".  ifs are the       *)
(* interfaces as the kernel keeps them, dev their lines in /proc/net/dev,  *)
(* lists the string lists that are in memory.  A call gives the set of     *)
(* what it may do: ioctl may fail each time.                               *)

UNSET == -1                             \* what the caller passed was not written
IFF_UP == 1
IFF_RUNNING == 64
ARPHRD_ETHER == 1
Up(i) == i.flags % 2 = 1
Running(i) == i.flags >= IFF_RUNNING

\* The lowest free descriptor, or -1.
socket(s) == LET free == {n \in DOMAIN s.tab : s.tab[n] = "free"} IN IF free = {} THEN -1 ELSE Min(free)
Opened(s) == IF socket(s) < 0 THEN s ELSE [s EXCEPT !.tab[socket(s)] = "net"]
close(s, fd) == [s EXCEPT !.tab[fd] = "free", !.wrong = @ \/ s.tab[fd] # "net"]
Gives(st, ret, val) == [st |-> st, ret |-> ret, val |-> val]
\* 0 is taken for a failure, and stays open.
NoSocket(s) == {Gives(Opened(s), -1, UNSET)}

\* One request on a socket of its own, which is closed however it ends.
Request(s, name, field) ==
  IF socket(s) <= 0 THEN NoSocket(s)
  ELSE LET c == close(Opened(s), socket(s)) IN
       {Gives(c, -1, UNSET)} \cup (IF name \in DOMAIN s.ifs THEN {Gives(c, 0, s.ifs[name][field])} ELSE {})
wow_eth_getIfaceIp(s, name) == Request(s, name, "ip")
wow_eth_getIfaceMac(s, name) == Request(s, name, "mac")
wow_eth_getIfacBroardcast(s, name) == Request(s, name, "broad")
wow_eth_getIfaceMask(s, name) == Request(s, name, "mask")
\* 1 when it is running.
wow_eth_checkIfaceRunning(s, name) ==
  {[o EXCEPT !.ret = IF o.ret = 0 /\ o.val >= IFF_RUNNING THEN 1 ELSE -1] : o \in Request(s, name, "flags")}
wow_eth_checkIfaceStatus(s, name) == IF name \in DOMAIN s.ifs THEN 0 ELSE -1
wow_eth_setIfaceIp(s, name, ip) ==
  {IF o.ret = 0 THEN [o EXCEPT !.st.ifs[name].ip = ip] ELSE o : o \in Request(s, name, "ip")}

\* The request is a union: reading the flags into it overwrites the family of
\* the address that was read before, and the kernel compares that with the
\* type of the interface.
Ifr(i, mac) == [head |-> i.flags - (i.flags % 2), data |-> mac]
wow_eth_setIfaceMac(s, name, mac) ==
  LET fd == socket(s)
      o == Opened(s)
      ifr == Ifr(s.ifs[name], mac)
      SetAddr(st, ok) == IF ok THEN [st EXCEPT !.ifs[name].mac = ifr.data] ELSE st
      SetFlags(st, f) == [st EXCEPT !.ifs[name].flags = f] IN
  IF fd <= 0 THEN NoSocket(s)
  ELSE IF name \notin DOMAIN s.ifs THEN {Gives(close(o, fd), -1, UNSET)}
  ELSE {Gives(close(o, fd), -1, UNSET)}                      \* a request before the interface is down fails
       \cup {LET st == SetAddr(SetFlags(o, ifr.head), set) IN
             Gives(close(IF up THEN SetFlags(st, ifr.head + IFF_UP) ELSE st, fd), IF set /\ up THEN 0 ELSE -1, IF up THEN 1 ELSE 0) :
               set \in (IF ifr.head = ARPHRD_ETHER THEN BOOLEAN ELSE {FALSE}), up \in BOOLEAN}

\* The interfaces that fit, the last first; memory may end within the list.
wow_eth_getIfaceName(s) ==
  LET all == Reverse(SubSeq(s.order, 1, Min({MAX_IP_SIZE, Len(s.order)})))
      c == close(Opened(s), socket(s)) IN
  IF socket(s) <= 0 THEN {Gives(Opened(s), -1, <<>>)}
  ELSE {Gives(c, -1, <<>>)}
       \cup (IF all = <<>> THEN {} ELSE {Gives([c EXCEPT !.lists = @ + 1], 0, SubSeq(all, 1, k)) : k \in 0 .. Len(all)})
\* An empty list is not freed.
wow_eth_getLocalIp(s) ==
  UNION {IF g.ret # 0 \/ g.val = <<>> THEN {Gives(g.st, -1, UNSET)}
         ELSE Request([g.st EXCEPT !.lists = @ - 1], g.val[1], "ip") : g \in wow_eth_getIfaceName(s)}

-----------------------------------------------------------------------------
(* The files under /proc.                                                  *)

\* The last line in which the name occurs.  The first number is given as what
\* was sent, although the kernel writes there what was received.
wow_eth_getIfaceRtx(dev, opened, name) ==
  LET hits == SelectSeq(dev, LAMBDA l : name \in l.within) IN
  IF ~opened THEN [ret |-> -1, tx |-> UNSET, rx |-> UNSET]
  ELSE IF hits = <<>> THEN [ret |-> 0, tx |-> UNSET, rx |-> UNSET]
  ELSE [ret |-> 0, tx |-> Last(hits).received, rx |-> Last(hits).sent]
\* What two readings a second apart differ by; neither result is looked at.
wow_eth_getIfacSpeed(dev0, dev1, opened, name) ==
  LET r0 == wow_eth_getIfaceRtx(dev0, opened, name)
      r1 == wow_eth_getIfaceRtx(dev1, opened, name) IN
  IF r0.tx = UNSET \/ r1.tx = UNSET THEN [ret |-> 0, up |-> UNSET, down |-> UNSET]
  ELSE [ret |-> 0, up |-> r1.tx - r0.tx, down |-> r1.rx - r0.rx]
\* The sockets of both tables, while they fit: beyond, memory is overwritten.
wow_eth_getOccupiedPort(tcp, udp, topened, uopened) ==
  IF topened /\ (Len(tcp) > PortRoom \/ (uopened /\ Len(udp) > PortRoom)) THEN [ret |-> UNSET - 1, tcp |-> <<>>, udp |-> <<>>]
  ELSE [ret |-> IF topened /\ uopened THEN 0 ELSE -1, tcp |-> IF topened THEN tcp ELSE <<>>,
        udp |-> IF topened /\ uopened THEN udp ELSE <<>>]
=============================================================================
