------------------------------- MODULE Ports --------------------------------
(***************************************************************************)
(* The TCP ports of wow_proto_port.c with the accept thread of wow_tcp.c,  *)
(* one step per access to port->client, which the accept thread and the    *)
(* station's thread share without a lock.  live are the connections in     *)
(* memory, client the one the port names (0 is NULL), acc.hand the one the *)
(* accept thread is about to install.  bad: a connection was freed twice   *)
(* or used after it was freed.  server is "stale" when it was closed and   *)
(* not cleared.                                                            *)
(***************************************************************************)
EXTENDS Integers, FiniteSetsExt

proto_port_eth_slave_init ==
  [client |-> 0, server |-> "none", live |-> {}, next |-> 1, bad |-> FALSE,
   acc |-> [pc |-> "off", hand |-> 0, saw |-> 0], st |-> [pc |-> "idle", saw |-> 0]]
proto_port_eth_master_init == [proto_port_eth_slave_init EXCEPT !.server = "master"]

wow_tcp_close(p, c) ==
  IF c = 0 THEN p ELSE IF c \in p.live THEN [p EXCEPT !.live = @ \ {c}] ELSE [p EXCEPT !.bad = TRUE]
\* The pointer that was tested and the one that is passed are two reads, or one.
CloseClient(p, tested) == {wow_tcp_close(p, c) : c \in {tested, p.client}}

\* What becomes of opening the listening socket: it works, there is no
\* socket, or listening on it fails.
eth_link_server_open(p) ==
  {[st |-> [p EXCEPT !.server = "open", !.acc.pc = "accept"], ret |-> 0],
   [st |-> [p EXCEPT !.server = "none"], ret |-> -1], [st |-> [p EXCEPT !.server = "stale"], ret |-> -1]}
eth_link_client_open(p) ==
  LET new == [p EXCEPT !.client = p.next, !.live = @ \cup {p.next}, !.next = @ + 1] IN
  {[st |-> new, ret |-> 0], [st |-> [wow_tcp_close(new, new.client) EXCEPT !.client = 0], ret |-> -1]}

tcp_accept_thread(p) ==
  IF p.server = "open" THEN [p EXCEPT !.acc = [pc |-> "test", hand |-> p.next, saw |-> 0], !.live = @ \cup {p.next}, !.next = @ + 1]
  ELSE [p EXCEPT !.acc.pc = "done"]
InCallback(p) == p.acc.pc \in {"test", "close", "clear", "conn", "install"}

\* The connected callback, between "conn" and "install", is the station's.
Installed(p) == [p EXCEPT !.client = p.acc.hand, !.acc = [pc |-> "accept", hand |-> 0, saw |-> 0]]
CallbackKeepsOld(p) == IF p.acc.pc = "test" THEN {[p EXCEPT !.acc.pc = "conn"]} ELSE {Installed(p)}
eth_link_aceept_cb(p) ==
  CASE p.acc.pc = "test" -> {[p EXCEPT !.acc.saw = p.client, !.acc.pc = IF p.client = 0 THEN "conn" ELSE "close"]}
    [] p.acc.pc = "close" -> {[q EXCEPT !.acc.pc = "clear"] : q \in CloseClient(p, p.acc.saw)}
    [] p.acc.pc = "clear" -> {[p EXCEPT !.client = 0, !.acc.pc = "conn"]}
    [] p.acc.pc = "conn" -> {[p EXCEPT !.acc.pc = "install"]}
    [] OTHER -> {Installed(p)}

\* link_send and link_recv hold the connection while they loop.
eth_link_send(p) == [p EXCEPT !.st = IF p.client = 0 THEN @ ELSE [pc |-> "send", saw |-> p.client]]
eth_link_recv(p) == [p EXCEPT !.st = IF p.client = 0 THEN @ ELSE [pc |-> "recv", saw |-> p.client]]
LoopEnds(p) == [p EXCEPT !.bad = @ \/ p.st.saw \notin p.live, !.st = [pc |-> "idle", saw |-> 0]]

InClose(p) == p.st.pc \in {"close", "clear", "server"}
eth_link_close(p) ==
  CASE p.st.pc = "idle" -> {[p EXCEPT !.st = IF p.client = 0 THEN @ ELSE [pc |-> "close", saw |-> p.client]]}
    [] p.st.pc = "close" -> {[q EXCEPT !.st.pc = "clear"] : q \in CloseClient(p, p.st.saw)}
    [] OTHER -> {[p EXCEPT !.client = 0, !.st = [pc |-> "idle", saw |-> 0]]}

\* The exit closes the client, then the server, whose close waits for the
\* accept thread, and then frees the port.
proto_port_eth_slave_exit(p) ==
  IF p.st.pc = "idle" THEN [wow_tcp_close(p, p.client) EXCEPT !.st.pc = "server", !.server = IF @ = "open" THEN "closed" ELSE @]
  ELSE [p EXCEPT !.bad = @ \/ p.server = "stale", !.st.pc = "gone", !.client = 0]
ExitWaits(p) == p.st.pc = "server" /\ p.server = "closed" /\ p.acc.pc # "done"
proto_port_eth_master_exit(p) == [wow_tcp_close(p, p.client) EXCEPT !.st.pc = "gone", !.client = 0]

-----------------------------------------------------------------------------
(***************************************************************************)
(* The network adapter of wow_network.c, built without TLS.  tab says who  *)
(* has each descriptor of the process, since a number that is closed is    *)
(* soon another's: "free", "own" or "other".  wrong: the adapter has       *)
(* closed or used a descriptor of another.                                 *)
(***************************************************************************)

\* The handle comes zeroed: its descriptor is 0 until the first connect.
core_sysdep_network_init == [fd |-> 0, host |-> FALSE, type |-> "TCP_CLIENT"]
wow_network_adapter_init(tab) == [h |-> core_sysdep_network_init, tab |-> tab, wrong |-> FALSE, alive |-> TRUE]

core_sysdep_network_setopt(h, opt, v) ==
  CASE opt = "SOCKET_TYPE" -> [h EXCEPT !.type = v]
    [] opt = "HOST" -> [h EXCEPT !.host = TRUE]
    [] OTHER -> h
wow_network_adapter_setopt(a, opt, v) == [a EXCEPT !.h = core_sysdep_network_setopt(a.h, opt, v)]

\* socket(): the least free number, or none.
wow_hal_socket_open(tab) == LET free == {n \in DOMAIN tab : tab[n] = "free"} IN IF free = {} THEN -1 ELSE Min(free)
wow_hal_socket_disconnect(a, fd) ==
  IF fd \notin DOMAIN a.tab THEN a
  ELSE [a EXCEPT !.tab[fd] = IF @ = "other" THEN @ ELSE "free", !.wrong = @ \/ a.tab[fd] = "other"]
\* The two loops of send and recv, over the calls of the socket: how many of n bytes are moved.
wow_hal_socket_send(fd, n) == IF fd > 0 THEN 0 .. n ELSE {-1}
wow_hal_socket_recv(fd, n) == IF fd > 0 THEN 0 .. n ELSE {-1}
wow_hal_socket_connect(up) == IF up THEN 0 ELSE -1

core_sysdep_network_open(a) ==
  LET fd == wow_hal_socket_open(a.tab) IN
  IF fd < 0 THEN [st |-> a, ret |-> -1] ELSE [st |-> [a EXCEPT !.h.fd = fd, !.tab[fd] = "own"], ret |-> 0]
core_sysdep_network_connect(a, up) ==
  IF a.h.type = "TCP_CLIENT" /\ a.h.host THEN wow_hal_socket_connect(up) ELSE -1
core_sysdep_network_close(a) == [wow_hal_socket_disconnect(a, a.h.fd) EXCEPT !.h.fd = -1]
core_sysdep_network_deinit(a) ==
  [(IF a.h.type = "TCP_CLIENT" /\ a.h.host THEN wow_hal_socket_disconnect(a, a.h.fd) ELSE a) EXCEPT !.alive = FALSE]
core_sysdep_network_send(a, n) == {[st |-> [a EXCEPT !.wrong = @ \/ (k >= 0 /\ a.tab[a.h.fd] = "other")], ret |-> k] : k \in wow_hal_socket_send(a.h.fd, n)}
core_sysdep_network_recv(a, n) == {[st |-> [a EXCEPT !.wrong = @ \/ (k >= 0 /\ a.tab[a.h.fd] = "other")], ret |-> k] : k \in wow_hal_socket_recv(a.h.fd, n)}

wow_network_adapter_connect(a, up) ==
  LET o == core_sysdep_network_open(a)
      ret == core_sysdep_network_connect(o.st, up) IN
  IF o.ret # 0 THEN o
  ELSE IF ret = 0 THEN o
  ELSE [st |-> core_sysdep_network_close(o.st), ret |-> ret]
wow_network_adapter_send(a, n) == core_sysdep_network_send(a, n)
wow_network_adapter_recv(a, n) == core_sysdep_network_recv(a, n)
wow_network_adapter_close(a) == core_sysdep_network_close(a)
wow_network_adapter_deinit(a) == core_sysdep_network_deinit(a)

-----------------------------------------------------------------------------
(***************************************************************************)
(* The serial ports of wow_usart.c and the port of the protocols above     *)
(* them (uart_link_open).  dev are the slots of the table, tab says which  *)
(* port, or whom else, each descriptor of the process belongs to, line how *)
(* each port is set up, loops the event loops that were started, as        *)
(* <<port, descriptor they watch>>.  The size of a character is the pair   *)
(* of bits of CSIZE that are set.                                          *)
(***************************************************************************)

NOBODY == -2      \* owners of a descriptor besides the ports
ALIEN == -1

gt_defParam == [dataBits |-> 8, parity |-> "NoParity", stopBits |-> 1]
hal_uart_env_init(n, tab) ==
  [dev |-> [i \in 0 .. n - 1 |-> [opened |-> FALSE, fd |-> 0, param |-> [dataBits |-> 0, parity |-> "", stopBits |-> 0], func |-> 0]],
   tab |-> tab, line |-> [i \in 0 .. n - 1 |-> <<>>], loops |-> {}, wrong |-> FALSE, inited |-> TRUE]
hal_uart_env_exit(s) == [s EXCEPT !.inited = FALSE]

\* c_cflag: six bits fall through to seven, and the two codes make eight.
Size(bits) == CASE bits = 5 -> {} [] bits = 6 -> {1, 2} [] bits = 7 -> {2} [] OTHER -> {1, 2}
Parity(par) == CASE par = "OddParity" -> {"PARENB", "PARODD"} [] par = "EvenParity" -> {"PARENB"} [] OTHER -> {}
Known(p) == p.dataBits \in 5 .. 8 /\ p.parity \in {"NoParity", "OddParity", "EvenParity"} /\ p.stopBits \in {1, 2}
uart_set_config(s, fd, p) ==
  IF fd \notin DOMAIN s.tab \/ ~Known(p) \/ (fd \in DOMAIN s.tab /\ s.tab[fd] = NOBODY) THEN [st |-> s, ret |-> -1]
  ELSE IF s.tab[fd] = ALIEN THEN [st |-> [s EXCEPT !.wrong = TRUE], ret |-> 0]
  ELSE [st |-> [s EXCEPT !.line[s.tab[fd]] = <<Size(p.dataBits), Parity(p.parity), p.stopBits>>], ret |-> 0]

\* A number of 0 counts as a failure, and is not closed.
Opens(s, i) == LET free == {n \in DOMAIN s.tab : s.tab[n] = NOBODY} IN IF free = {} THEN -1 ELSE Min(free)
wow_hal_uart_open(s, i) ==
  LET fd == Opens(s, i)
      c == uart_set_config([s EXCEPT !.tab[fd] = i], fd, gt_defParam) IN
  CASE ~s.inited -> [st |-> s, ret |-> -1]
    [] s.inited /\ s.dev[i].opened -> [st |-> s, ret |-> 0]
    [] s.inited /\ ~s.dev[i].opened /\ fd < 0 -> [st |-> s, ret |-> -1]
    [] s.inited /\ ~s.dev[i].opened /\ fd = 0 -> [st |-> [s EXCEPT !.tab[fd] = i], ret |-> -1]
    [] OTHER -> [st |-> [c.st EXCEPT !.dev[i] = [@ EXCEPT !.opened = TRUE, !.fd = fd, !.param = gt_defParam]], ret |-> 0]
wow_hal_uart_set_param(s, i, p) ==
  LET c == uart_set_config(s, s.dev[i].fd, p) IN
  IF s.inited /\ c.ret = 0 THEN [st |-> [c.st EXCEPT !.dev[i].param = p], ret |-> 0] ELSE [st |-> s, ret |-> -1]
wow_hal_uart_get_param(s, i) == s.dev[i].param
wow_hal_uart_close(s, i) ==
  IF ~s.inited \/ ~s.dev[i].opened THEN [st |-> s, ret |-> -1]
  ELSE [st |-> [s EXCEPT !.tab[s.dev[i].fd] = NOBODY, !.dev[i] = [@ EXCEPT !.fd = -1, !.opened = FALSE]], ret |-> 0]

\* Whom a transfer reaches, <<>> when it is refused.
wow_hal_uart_send(s, i) == IF s.inited /\ s.dev[i].opened THEN <<s.tab[s.dev[i].fd]>> ELSE <<>>
wow_hal_uart_send_timeout(s, i) == wow_hal_uart_send(s, i)
wow_hal_uart_recv(s, i) == IF s.inited /\ s.dev[i].opened THEN <<s.tab[s.dev[i].fd]>> ELSE <<>>
wow_hal_uart_recv_timeout(s, i) == wow_hal_uart_recv(s, i)

\* Every call starts a loop of its own, which nothing ends.
wow_hal_uart_set_recv_cb(s, i, f) ==
  IF ~s.inited \/ ~s.dev[i].opened THEN [st |-> s, ret |-> -1]
  ELSE [st |-> [s EXCEPT !.dev[i].func = f, !.loops = @ \cup {<<i, s.dev[i].fd>>}], ret |-> 0]
\* The callback runs for whatever is readable on the number the loop watches.
uart_read_cb(s, l) == [func |-> s.dev[l[1]].func, chan |-> l[1], on |-> s.tab[l[2]]]

uart_link_open(s, i, p) ==
  LET o == wow_hal_uart_open(s, i) IN
  IF o.ret # 0 THEN o ELSE [st |-> wow_hal_uart_set_param(o.st, i, p).st, ret |-> 0]
uart_link_send(s, i) == wow_hal_uart_send_timeout(s, i)
uart_link_recv(s, i) == wow_hal_uart_recv_timeout(s, i)
uart_link_close(s, i) == wow_hal_uart_close(s, i).st
proto_port_uart_exit(s, i) == wow_hal_uart_close(s, i).st
=============================================================================
