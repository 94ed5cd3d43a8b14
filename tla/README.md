# A TLA+ development of WOW Linux Eval

The repository is a framework for embedded Linux devices: `wow_hal` (serial
ports), `wow_base` (threads, timers, sockets, files, lists, IPC), `wow_iot`
(protocol stations, shared memory cache, hash containers, configuration,
database, log and other plugins) and `wow_tools`. Its core are the industrial
protocol stations: threads without locks between them, talking over links that
lose, delay and reorder what the program expects. Around them stand a cache
shared by processes that may die at any point, a message service, and a library
of containers and wrappers that all of these use.

## 1. Inventory

| Component | State it keeps | Operations | What is hard | Modelled in |
|---|---|---|---|---|
| IEC 104 slave (`wow_iec104s.c`) | link and tester state, sequence numbers, time stamps, node lists | exec thread, accept callback, spontaneous reports | three threads, no lock; several peers; clock set by command | `Iec104s`, `Iec104sPeer`, `Iec104Asdu` |
| IEC 104 master (`wow_iec104m.c`) | the same, and the last numbers received | exec thread, interrogations, commands | two threads; time-outs; select and execute | `Iec104m`, `Iec104` |
| IEC 101 master and slave (`wow_iec101*.c`) | link state machine, states of five services, copies of commands | exec threads, application calls | a line that destroys frames; one `tack` flag for everything | `Iec101Frame`, `Iec101s`, `Iec101m`, `Iec101` |
| Modbus master and slave (`modbus/`) | request and response buffers, transaction number | reads and writes, the slave's thread | messages in pieces, calls given up, late answers, changed bytes | `ModbusFrame`, `Modbus` |
| Protocol port (`wow_proto_port.c`) | `port->client`, `port->server` | open, send, receive, close, accept callback | the callback and the exec thread share a pointer | `Iec104Link` (coarse), `Ports` (one step per access) |
| TCP, UDP, sockets (`wow_tcp.c`, `wow_udp.c`, `wow_socket.c`) | socket, threads, peer address | open, connect, accept, timed read and write, options, close | partial transfers, lost datagrams, closing under a thread | `Network`, `ThreadStop` |
| Shared memory cache (`shmcache/`) | mutex, hash table, value segments, pools | open, set, get, delete, expire, recycle, clear, destroy | a process dies anywhere; recycling and rearranging in the middle of a set | `ShmTable`, `Shmcache`, `MapCache`; its sizes and configuration in `ShmConfig` |
| IPC (`ipc/`) | the server's list of clients, a client's waiting calls | create, bind, send, send and wait, broadcast, exit | clients that time out, vanish and come back | `Ipc` |
| Threads, conditions (`wow_cond.c`, `wow_thread.c`) | flag, mutex, condition | exit of every object with a thread | lost and spurious wakeups | `ThreadStop` |
| Timers, locks, singletons, shared memory, leak detector | timer list, lock words, reference counts, mappings, block list | all calls | threads and processes in any order, death inside a lock | `Sync` |
| Lists, buffers, hash containers, bitmap, Bloom filter, dictionary | nodes, indices, buckets, slots | all calls | index arithmetic, sharing and ownership of memory | `Lists`, `Buffers`, `Hashes` |
| Log, database, database log, files, directories | files, heads, statements, rows, trees | write, rotate, walk, add, read, remove | restart and crash between two writes, partial calls, stale results | `LogFile`, `Database`, `Files` |
| FTP, network adapter, serial port, plugins | connections, descriptors, parameters, lists | transfer, connect, open, configure, load | replies out of step, descriptors of others, failures half way | `Network`, `Ports`, `Plugins` |
| Ini files (`iniparser.c`, `wow_ini.c`) | dictionary, file | load, get, set, delete, save, load again | lines cut, joined or wrong; what a saved file loses | `Ini`, over `Hashes` |
| Network interfaces, RSA (`wow_net_iface.c`, `wow_rsa.c`) | sockets, lists, the kernel's interfaces; contexts and files of one call | read, set; generate, encrypt, decrypt, sign, verify | one of many requests or steps fails | `Network`, `Encode` |
| Encodings, texts, time | none | conversions | widths, edges, buffers | `Encode`, `TypeConv`, `Strings`, `Calendar` |

`PROJECT.json` lists the components with their state of modelling, and the
hazards of the code, each at its line, with the properties that would catch it.

## 2. Modules

    Iec104Link             frames, 15 bit numbers, ages of time stamps,
                           TCP connections and the protocol port
      Iec104s              the slave and the accept thread
      Iec104m              the master
        Iec104             both together
      Iec104sPeer          the slave and any peers     (MCIec104sPeer)
        Iec104sProofs      lemmas about the slave, its frames and sockets
          Iec104sPeerProofs    the slave among any peers
          Iec104Proofs         types, sockets and commands of the two stations
            Iec104OrderProofs  their sequence numbers
    Iec101Frame            frames of the serial line
      Iec101s, Iec101m     the stations
        Iec101             both together
          Iec101Proofs
    ModbusFrame            building, measuring and checking messages
      Modbus               master, link, slave         (MCModbus)
    ShmTable               the table, its chains, stripings, segments, recycling
      Shmcache             processes, mutex, recovery  (MCShmcache)
        MapCache           what the cache promises
        ShmcacheProofs
    Ipc                    server and clients
      IpcProofs
    ThreadStop             how objects that own a thread are taken down, with proofs
    Codecs                 calls on Encode, TypeConv, Strings, Calendar,
      Iec104Asdu           ShmConfig and the node lists of IEC 104
    Services               calls on LogFile, Database, Files, Ini, Network,
                           Encode, Ports, Sync and Plugins
      Containers           calls on Lists, Buffers and Hashes

**Frames of IEC 104.** A frame is a record of what the handlers branch on:
format, type, reason, own or foreign common address, information address zero or
not, select bit, value, N(S), N(R). `build_send` is an `int` in the code that is
only ever copied into a 15 bit field; it is kept modulo `SnMod`.

**Time** is the age of each time stamp, in ticks, saturated one tick above the
largest period. `Epoch` is the age of a stamp that is 0. A clock command
(`wow_time_set_cp56`) moves all ages by the same number of ticks, also below
zero (`ClockBack` bounds how far). In `Iec101`, `Modbus`, `Ipc` and `Shmcache` a
time-out is a step that may come whenever something is measured.

**Connections of IEC 104.** `net[c]` has the two queues and the state of the two
ends. Neither side is told that its peer has closed or that the network dropped
the connection: `wow_tcp_read_timeout` returns 0 in both cases and a write to
such a connection is lost. The kernel discards what a side has not read when it
closes; that a reset may also discard data of the other direction is left out.

**A station's thread.** One turn of `iec104_s_exec_thread` is three kinds of
step: the state machine, a read that takes some of the frames that arrived, and
one step per frame of the loop of `frame_parse`. The handlers are functions from
a work record (station, frames written, whether the link was closed, last event)
to the next, with the source's names; a step installs the result. The
application thread is cut finer, at the unsynchronised `build_send++`: read
(`SponBegin`, `CmdBegin`), write back (`SponPut`, `CmdPut`), send. The accept
thread is `AcceptClient` (accept, close and clear the old client), `AcceptWake`
(the end of `sleep(1)`), `AcceptConnected` (`iec104_s_reset_param`) and
`AcceptInstall`. The stations of IEC 101 are written the same way: one step per
pass of a machine or per frame.

What is coarser than the code: a pass of the exec thread over one frame is one
step, so its own `build_send++` is not split (the application's is); a read
returns whole frames. In `Iec104Link` the port's close is one step; the race of
the two closers on one pointer is in `Ports`. `deal_send`, `deal_recv` and the
command states of the slave, which it writes and never reads, are left out, and
so are the node values, which only pass through callbacks.

`SleepOutlastsParse` states what `sleep(1)` is there for: when it ends, the exec
thread has finished with the frames of the old connection. The code has nothing
else to make that true; `AckCurrent` needs it, `NoLeak` does not.

**IEC 101.** The line carries frames in both directions and may destroy
`MaxLoss` of them. Each service (connection, interrogation, pulses, commands,
set points) is a state of the station; `due` holds the timers that have run out.

**Modbus.** Messages are bytes, since framing is what can go wrong. A *plan* is
a list of calls on one backend with the number of read attempts, the pieces, the
faults and the cuts a run allows. The checksum is a stand-in for the CRC of
`modbus_rtu.c` (the code's own is checked in `Codecs`): two bytes that depend on every
byte and on its place. The slave's thread and the master's call interleave byte run by byte run.

**The cache.** `ShmTable` has the table as one record: buckets, recycle list,
stripings with their fill, the two pools, segments. `Shmcache` adds processes:
opening (with the lock file), the mutex with the owner's pid, detection of a dead
owner, one step for the critical section and one for a death inside it, which
leaves the table `torn`. `MapCache` is the abstract map: a key is given a value by a
call that is being served (the value set, or one more than it had, or 1 when that
had expired), is lost to recycling, or everything is cleared. `ImplementsMap` is the
refinement: the map is what the table holds, live or expired, and empty while the
table is torn; the calls being served are those of the processes in the critical
section.

**IPC.** Connections with their queues, the server's list, a client's state with
its semaphore, identifiers it waits for and the answer slot they share. A broadcast
may carry any identifier, that of a call included; the model marks it (`PUSH`) so that
the property can tell it from an answer, which `ipc_process_msg` cannot. A read that
the event loop announced does not fail: the length test of ipc_skt_server.c:145
compares an `int` with a `size_t`, so that a failed read passes it.

**Node values** (`Iec104Asdu`). The loops that cut a list into frames of
`IEC104X_YX_NODE_NUM` nodes, the two layouts (one address for all, or one per
object) and the decoding by the master, which ignores the types with a time
stamp. A list holds nodes of one data type (`wow_iec104_s_set_node_info` sees to
that), and the changes of one report all carry a time stamp or none does.

**Codecs and services.** The modules of pure code and of single objects are
operators from a state and arguments to a state and a result, with the source's
names. `Codecs` applies each conversion to every input of a bounded set and
compares it with an independent definition. `Services` and `Containers` keep one
object at a time (`unit`, `obj`), what its user may believe (`ref`) and what the
last call returned and should have (`ret`), and make the calls in every order,
with crashes, restarts, partial system calls and other threads where the code
can meet them. Where the code's result is undefined in C (a double free, a write
behind a buffer) the unit becomes `spent` and is no longer judged; the properties
say what holds before. A text of an ini file is a sequence of words and signs,
and the items the files are made of carry what a reader takes them to mean; a
call of the RSA wrapper (in `Encode`) is a list of steps, each of which may fail, with what its label
frees. Where the code plainly does not do what its name says, the
model does what the code does and the property states the part that holds (see
section 5).

**Taking an object down** (`ThreadStop`). `Stations` are the objects that clear
the flag of their thread under the lock they wait with (`wow_iec104_m_exit`,
`wow_iec104_s_exit`, the read thread of `wow_tcp_close`); `Early` objects release
their thread before they take the lock (the listening socket of `wow_tcp_close`,
`wow_timer_destroy`). Objects are started before they are taken down.

Definitions marked *Variant*, and the few unmarked ones `PROJECT.json` names as
mutants, are plausible slips of the same code. The specifications do not use
them; each shows that a property would notice.

## 3. Runs

| Run | Question | Properties |
|---|---|---|
| `iec104` | two stations with every kind of application call and one spontaneous report; or one time-out that races an answer | `LinkSound`, `RejectOnlyAfterRace`, `AckOnlySent`, `SelectBeforeExecute`, `ExecutedOnce` |
| `iec104_tester` | test frames on a network that drops connections | `HealthyLinkKept`, `DeadLinkNoticed` |
| `iec104s_peer` | slave, two concurrent peers that begin with STARTDT and send nothing after STOPDT, two frames of any kind between, a spontaneous report, clock steps | `TypeOK`, `NoLeak`, `AckCurrent`, `NumberedFromZero` |
| `iec104s_served` | a waiting peer is served | `WaitingServed` |
| `iec101` | two stations on a line that may destroy a frame | `SidesAgree`, `CommandsSafe`, `CallAllSettles`, `Connects` |
| `modbus` | calls over TCP and a serial line with pieces, late answers, changed bytes | `SuccessIsCurrent`, `OnlyAsked`, `StreamInSync`, `CallReturns` |
| `shmcache` | processes use the cache and die at any point; one fills, recycles and rearranges it | `OneOwner`, `TableConsistent`, `TornNotUsed`, `LockGranted`, `ImplementsMap` |
| `ipc` | clients come, call, time out, leave and die | `AnswerIsMine`, `EntriesLive`, `UnbindProcessed` |
| `thread_stop` | exit handshakes of two stations and a timer or listening socket; one station's wait may wake up spuriously | `NoUseAfterFree`, `NoLostWakeup`, `ExitReturns` |
| `codecs` | conversions over bounded inputs, node lists around the frame size | `CodesFaithful`, `TextsFaithful`, `CacheLaidOut`, `NodesDelivered` |
| `services` | containers and services, every order of calls | `ContainersSound`, `RecordsKept`, `SharedSafe`, `TransfersHonest`, `OwnersBalanced` |
| `tcp_close` | closing a listening socket | `CloseReturns` is **violated**: it may wait for ever |

What the properties say:

* `LinkSound`: types, and every accepted socket is in reach of the code
  (`NoLeak`, also in `iec104s_peer`).
* `RejectOnlyAfterRace`: the master never refuses a frame of this slave, through
  any number of reconnections, unless a thread was overtaken inside
  `build_send++` (`race`) or the numbers wrapped (`wrapped`). The two premises
  are the two known weaknesses; the property says there is no third.
* `AckOnlySent`, `AckCurrent`, `NumberedFromZero`: sequence numbers belong to the
  connection they travel on, although three threads touch them and the accept
  thread resets them in the middle of other work.
* `SelectBeforeExecute`: a command of any kind reaches `set_val_cb` only after its
  selection was confirmed on the same connection. `ExecutedOnce`: open commands
  (`C_SC` with `sco` 0) reach it no more often than the application gave them,
  whatever else it commands. All other commands are excepted and the code breaks
  this for them: `sco && 0x80` takes the confirmation of the execution for one of a
  selection, and a set point is not tested at all, so that they are executed without
  end (section 5).
* `HealthyLinkKept`, `DeadLinkNoticed`: the tester raises no false alarm and
  misses no dead link. For the slave the second is claimed for the state IDLE
  only: before STARTDT it has no tester.
* `WaitingServed`: a silent old client does not keep a new one out.
* `SidesAgree`: when the master of IEC 101 reports the link up or an
  interrogation complete, the slave agrees, although every acknowledgement sets
  the same flag and frames are destroyed. `CommandsSafe`: selection before
  execution, the command intact, acknowledgements copied from memory that is
  there. `CallAllSettles`: a begun interrogation ends, but for the last stage,
  which has no time-out. `Connects`: on a line that loses nothing the one
  request for the link status is enough.
* `SuccessIsCurrent`: a read that succeeds returns the device's data at some
  moment of that call, a write that succeeds was made during it. On a serial line
  this holds until a call has been given up: nothing in a frame tells its answer
  from the next. `OnlyAsked`: the device is never told to write what nobody asked
  for; on TCP as long as no side gave up inside a message. `StreamInSync`: both
  receivers stop where messages end, within their buffers, for every function
  and size. `CallReturns`: every call ends.
* `OneOwner`, `TornNotUsed`: recovery never hands out the mutex twice nor a half
  updated table. `LockGranted`: a waiting process gets the mutex, also from a dead
  owner, unless the owner died between taking it and recording itself.
  `TableConsistent`: chains, recycle list, counters, stripings and segments agree
  whatever was recycled or moved. `ImplementsMap`: no key is ever given a value but by
  the call in the critical section that names the key and the value.
* `AnswerIsMine`: a waiting call gets its own answer as long as no earlier call
  of that client timed out and no broadcast with the awaited identifier came in. `EntriesLive`, `UnbindProcessed`: the server forgets
  those who leave in order, and lists beyond them only the dead.
* `NoUseAfterFree` excludes the objects in `Spurious`: `wow_mutex_cond_wait` is
  called once and not in a loop, so where `pthread_cond_wait` returns without a
  signal, exit frees the object under its thread. For all others it holds.
  `NoLostWakeup` and `ExitReturns` hold for both.
* The properties of `codecs` and `services` are conjunctions of one part for each
  object, each with its own comment: for example `RingIsQueue` and
  `KvIsBalancedMap` of `ContainersSound`, `LogKeepsNewest` (across a crash between
  a message and its head) and `FileFaithful` of `RecordsKept`, `LocksExclude` and
  `InitBalanced` of `SharedSafe`, `FtpJudged` and `StreamFaithful` of
  `TransfersHonest`, `PortOwns` of `OwnersBalanced`, `CrcIsRemainder` of
  `CodesFaithful`, `CalendarWalks` of `TextsFaithful`, `LayoutSound` of
  `CacheLaidOut` and `AddressRight` of `NodesDelivered`.

**Bounds.** Two connections of IEC 104 let a new one arrive while the old is
being given up, which is where the accept thread matters; a third only repeats
that. `SnMod` is 5 in `iec104s_peer`, so that the numbers wrap, and larger than
the frames one pass sends; the other runs keep away from the wrap. One tick as
the longest period keeps every order of the periods (test period 30 s, time-outs
3 s) as an order of steps; `iec104_tester` uses a time-out of one tick so that
an answer within the tick is in time. `MaxCmds`, `MaxSpon` and `MaxPeer` bound
the calls of the environment; one command already takes four frames and their
interleavings. `MaxDisturb` bounds, together with the spontaneous reports, the
ticks that come while an answer is still under way: the exec loops turn every
0.1 s, so as a rule a tick finds everything answered, and one exception is
enough to give up a connection in the middle of a command. One destroyed frame
(`MaxLoss`) reaches every stage of every service of IEC 101; `MaxYt` bounds the
chain of executions that a set point starts. The plans of `MCModbus` put three
small calls in every order on an undisturbed link, pairs with faults, and single
calls at the largest sizes and with wrong addresses; the code reads ten times
before it gives up, the plans once or twice. `MCShmcache` has one process with
two stripings and five keys from a half full, a full and a fragmented table, and
two or three processes with one key and a death. The instances of
`ipc` (`MCLimits`) have one client that comes back and calls often, two that come
and go, and two that call; one of them has the identifier 0, which an entry of
the server's list also has before it is bound (wow_ipc.h allows 0 to 255). In `codecs`
a frame size of 3 and lists of 0 to 7 nodes cover the empty list, full frames, a
short last frame and two of them; `LastDay` is in the year 2100. In `services`
buffers and tables have room for two to four items, so that they fill, wrap,
collide and grow within a few calls; `MaxRestarts` is 2, `Procs` are three; an
ini file has up to three items of eleven kinds, and `MaxOps` leaves room to change,
save and load it again.
Connections are symmetric in the runs of IEC 104 without liveness.

**Fairness.** Weak fairness of the threads: exec threads, accept threads and
event loops are loops that the scheduler runs again, and time passes.
`AcceptWake` has strong fairness in `Iec104sPeer`, because `sleep(1)` ends
however often the exec thread is parsing meanwhile. In `Iec101` only the timer of
the interrogation must run out. In `Modbus` a read of the link returns, with or
without data. In `Shmcache` a process that is scheduled leaves its critical
section or dies, and one that polls the mutex for ever finds it free if it is
free again and again (strong fairness of the poll). Nothing obliges peers,
applications or the network to act. In `ThreadStop` the two threads are fair,
spurious wakeups are not.

`CHECK_DEADLOCK FALSE` is set where everything may have been taken down or used
up: `ThreadStop`, `Modbus`, `Ipc`, `Services`.

## 4. Proofs

TLAPS proves the following for every value of the constants, under the
assumptions the modules name (`FrameAssumption`, `LinkAssumption`,
`SlaveAssumption`, `MasterAssumption`, `CompositionAssumption`, `LineAssumption`,
`ReportsAssumption`, `BoundsAssumption`, `PidAssumption`, `IpcBounds`: types and
positive sizes, pairwise different special values, and
for `Shmcache` that 0 is no pid).

| Theorem | Property | Inductive invariant |
|---|---|---|
| `NothingLeaked` (`Iec104sPeerProofs`) | `NoLeak` | `LinkInv` |
| `TypesHold` (same) | `TypeOK` of the slave | `TypeInv` |
| `AcksAreCurrent` (same) | `AckCurrent` | `TypeInv`, `LinkInv`, `OrderInv` |
| `NumbersFromZero` (same) | `NumberedFromZero` | the same and `NumberInv` |
| `SoundLink` (`Iec104Proofs`) | `LinkSound` of the two stations | `TypeInv`, `SocketInv` |
| `SelectedFirst` (same) | `SelectBeforeExecute` | the same and `CmdInv` |
| `CommandsExecutedOnce` (same) | `ExecutedOnce` | the same and `OnceInv` |
| `HealthyFramesTaken`, `AcksFollowSends` (`Iec104OrderProofs`) | `RejectOnlyAfterRace`, `AckOnlySent` | `TypeInv`, `SocketInv`, `CmdInv`, `OrderInv` |
| `SidesAlwaysAgree`, `CommandsStaySafe` (`Iec101Proofs`) | `SidesAgree`, `CommandsSafe` | `LineInv` |
| `MutexProtects`, `TornTableIsCleared` (`ShmcacheProofs`) | `OneOwner`, `TornNotUsed` | `LockInv` |
| `EntriesStayLive`, `AnswersMatch` (`IpcProofs`) | `EntriesLive`, `AnswerIsMine` | `IpcInv` |
| `ExitIsSafe`, `NoWakeupIsLost` (`ThreadStop`) | `NoUseAfterFree`, `NoLostWakeup` | `IInv`, `WInv` |

**Sockets of IEC 104.** That an accept drops no socket depends on where the
accept thread is. `LinkInv` adds: the accept thread holds a connection exactly
when it is past `accept()`; while it does, `port->client` is NULL; both pointers
point to open connections; and the backlog holds distinct connections that are
not accepted yet. The frame handlers enter only through `SlaveInstall`, for an
arbitrary work record (`InstallInv`). Neither this nor the types need
`SleepOutlastsParse`. For the composition `MasterLinked` adds the master's end:
its pointer is to a connection it has not closed.

**Types.** `TypeInv` strengthens the types by what keeps `Head(recv_buf)` defined
(the exec thread parses only while frames are left) and by what the application
thread has in hand. One lemma per handler says that a well formed work record
goes to a well formed one (`WorkOK`, `MWorkOK`).

**Numbers of the slave.** The N(R) the slave sends counts the I frames that came
over `port->client`; frames of an old connection may still be in `recv_buf` when a
new one is accepted, and `iec104_s_reset_param` runs in both threads. `OrderInv`
says where the frames that were sent and not yet counted are (queue, buffer, none
after a STOPDT), and that a connection not yet started has STARTDT in front.
`NumberInv` says that the I frames queued for each peer continue the numbers it has
received and that `NextSn`, what the application thread has in hand included,
continues the queue. Both theorems have the hypothesis `SleepOutlastsParse`;
without it TLC finds the late frame that is counted on the wrong connection. The
lemmas about numbering (`NumberedConcat`, `ConsecutiveConcat`, `ModAdd`) are stated
for any sequences.

**Commands.** The slave keeps nothing of a selection (`stat` is written and never
read), so that it executes only what it confirmed rests on the master and on what
travels. `CmdInv`: on the served connection every execute command on its way to
the slave, or in `recv_buf`, is for a selection in `chosen`, and so is every
confirmation on its way back or in the master's buffer (`Serving`, `Parsing`);
connections that wait for accept carry STARTDT first and no execute command, and
nothing comes back on them (`Queued`); until the slave has left INIT, where it
forgets `chosen`, all of this holds for the empty set (`Unstarted`). The
hypothesis is `SleepOutlastsParse` again: an old connection's commands must not
outlive the reset.

**Commands, once.** What the slave executes has no number of its own, and a
connection that was replaced may still deliver. `OnceInv` is an account: commands
executed (of the open ones), in the application thread's hand (`Hand`), on their way to the slave and
confirmations on their way back (`Travelling`), in the buffers of the two exec
threads (`Reading`, `Answering`), and executions left on a connection that the master
has given up and the slave still reads (`Behind`) are together no more than the
application gave. Each handler turns a selection into at most one confirmation, that
into at most one execute command, and that into at most one execution
(`SlaveConfirms`, `MasterExecutes`, `ParseOnce`); closing and cutting only lose
(`QueuesLost`). A selection on a connection the master has left no longer counts:
its confirmation cannot reach the master; and `CmdInv` is needed for what is
installed by the accept thread to carry no execute command. A sum over all
connections is not needed, two have a name: `m_client` and `s_client`. Besides
`SleepOutlastsParse` nothing is assumed. The account is of open commands only (`Commands`);
the application may give any others beside them, whose frames it does not count: the
master answers the confirmation of their execution with another one
(wow_iec104m.c:704), which no account covers.

**Numbers of the two stations.** `iec104_m_deal_sn` refuses a frame whose N(S) or
N(R) is below the last one dealt with, and the master keeps these two numbers in
fields that are reset by a state machine, while the slave resets its own in two
threads. `OrderInv` of `Iec104OrderProofs` says, as long as no thread was overtaken
in `build_send++` and no number wrapped: the frames on their way to the master,
those in its buffer included, have numbers that never fall and lie between what the
master dealt with and what the slave sends next (`DownLane`, `Rising`), the same for
the way to the slave (`UpLane`), and no frame acknowledges more than was sent
(`Acked`). What an application thread has in hand belongs to the lane
(`MasterHand`, `SlaveHand`: `NextM` and `NextS` are the numbers of the frames that
will be written next, not of the counters). When the slave does not serve the
master's connection, nothing bounds the lane from the slave's side; a connection that
waits for accept finds a master that has forgotten its numbers (`MasterOpens`) and a
slave that starts at zero with no report in hand (`SlaveOpens`), which is what makes
the next lane start in order. `CmdInv` is needed for the order in which a connection
is started. Besides `SleepOutlastsParse` the two theorems need `AnswersFit`: what the
slave sends in one step, the answer to an interrogation, is shorter than the period
of the numbers, since `wrapped` could not see a whole period pass within one step (the
period of the code is 32768).

**IEC 101.** Every acknowledgement on the serial line is the same frame whatever it
is for, and both stations keep one `tack` for all machines; what a station may
believe is therefore a matter of what can still be on the line. `LineInv` is an
account: the interrogations the slave completed and the master did not report
cover the terminations on the line and the one the master has in hand
(`TermsPaid`), the selections the slave acknowledged and did not execute cover the
acknowledgements and execute commands on the line (`CommandsPaid`). A destroyed frame
only leaves a surplus, so the number of losses does not matter. An answer to the request
for the link status is on the line only once the slave is connected, and the slave
never goes back (`Connected`); every single command on the line carries its point
(`Line`, `Whole`); a machine of the slave that is going to acknowledge has its copy
(`Backed`), the slave's pulse machine never leaves IDLE (`Silent`). `Count` and its
lemmas (`CountConcat`, `CountTail`) are about any sequences; the handlers are functions
of a work record and have one lemma each.

**The lock of the cache.** `LockInv`: the pid in the lock is that of the owner
between recording and releasing (`PidIsOwner`), a process is suspected only if it
is dead (`SuspectIsDead`), the mutex is used only after the set up of the segment
was finished (`SetUpFirst`), under the lock file (`FileLockHeld`), and a torn table
belongs to an owner that is dead or is about to clear it.

**IPC.** `IpcInv` consists of what is still on the way to the server (`ListInv`: a
connection that is not bound has its BIND in front), of when a client may call
(`BindInv`: what came to it before lies in front of the answer to BIND), of the
order of a client's connections, entries and requests (`OrderInv`), and of `CallInv`:
at most one of the request, its answer and the semaphore is there while a call
waits, and none while no call does. The theorems hold with the client identifier
0, which an entry also has before it is bound.

**Threads.** The invariants tie the place of each thread to the holder of the mutex
and to the flag: the flag of a station falls only under the lock that is given up
by waiting. `ExitIsSafe` is about the objects not in `Spurious`.

**What is only model-checked, and why.**

* All liveness: the prover has neither fairness nor ENABLED.
* `TableConsistent` and `ImplementsMap` of the cache: the table is walked with
  folds, so that what a call does to all chains needs induction over data, which
  the installed provers cannot instantiate.
* `HealthyLinkKept` of IEC 104: a statement about time, true only while every tick
  finds all that arrived answered and the test time-out is at least a tick; its
  invariant would have to follow the test frame through every thread.
* Modbus, the codecs, services and containers: `ModbusFrame`, `Calendar`,
  `Database`, `Files`, `Hashes`, `Lists` and `Strings` declare RECURSIVE operators,
  with which the prover loses its arithmetic.

## 5. What the code does that its reader may not expect

The models do what the code does; these are the places where that differs from
names, comments or documents, and where the properties carry an exception.

* **IEC 104.** A control command with a value other than 0, and every set point, is
  executed without end (`sco && 0x80`, wow_iec104m.c:704): `ExecutedOnce` excepts them. The connect time-out compares with a
  stamp that is always 0 (:934). The end of an interrogation is never reported:
  the slave sends address 0x1001, the master refuses it (wow_iec104s.c:384). Fifty
  float measurements make 265 bytes in a buffer of 256 (:581). Normalized
  measurements with their own addresses are reported under address plus index
  (wow_iec104m.c:369).
* **TCP, threads.** Closing a listening socket or the timer manager may wait for
  a signal that was already given (`tcp_close`). The accept callback and a
  station's close may free one client twice or lose a connection; a failed listen
  leaves a pointer that exit closes again.
* **IEC 101.** `set_node_info` never inserts the first node of a sub-list. The
  slave's yk machine stores its next state in `stat.yt`. Acknowledgements count one
  byte per object. Late interrogations of the master store a service event as
  state. Pulses never start on the slave. The link status is asked for once.
* **Modbus.** After a call was given up a TCP master stays one answer behind, a
  serial one takes the old answer; the TCP slave does not find the beginning of
  a message again; multiple writes are not checked against the buffer; the
  master's mutex is never taken.
* **Cache.** A death between `trylock` and the store of the pid blocks everyone.
  `shm_object_pool_remove` returns its predecessor's offset, so a striping may end
  in neither pool or in both. A process that has not mapped the newest segments
  fails to set. `load_config` returns the result of the last item read, and an
  absent text item leaves the caller's pointer unset.
* **IPC.** A broadcast with the identifier a call waits for is taken for its answer
  (wow_ipc.c:84). The server's exit destroys the list before it stops its loop; a failed
  send looks like a success to `send_wait`; the entry of a client that died stays
  and catches the answers of its successor.
* **Containers.** Removing from the middle of a byte array moves the wrong bytes;
  the key/value tree keeps pointers to freed strings after the deletion of a node
  with two children; hash maps refuse 0 as key or value and never shrink a count;
  the Bloom filter's clear takes shared bits away; dictionary and lists return
  codes other than documented.
* **Conversions.** `char2long` reads every word from the start;
  `uint16_to_uint32` stores all in the first; floats in order cdab are not read as
  they were written; binary texts count 32 bits; 8 bit signed values fall through
  to the next case; `wow_str_replace` never returns for an empty text or pattern;
  time stamps overflow an `int` from 2039 on and every fourth year is a leap year.
* **Services.** Two log files changed in one second tie at the next start, and
  each restart of a full one appends once more. Reading the oldest or newest
  entries of the database's log never returns. Unsigned database values come back
  with a sign. FTP replies run one behind after a download; a failed send in an
  upload is a success. Every opening of a semaphore sets its value. A timer
  changed while the loop enters its callback is used after it was freed. The leak
  detector loses blocks of size 0. `io_seek` returns -1 though it moved. Accepted
  sockets have no time-out. Six data bits become eight. A plugin whose
  initialisation failed stays loaded.
* **Ini files.** A wrong line is forgotten when a section or key follows it; a
  last line without a newline makes the file unreadable, unless it is one byte;
  names outside a section are lost when the file is saved, and when there is no
  section every save and load puts another colon before them; a value with a
  semicolon is cut; the numbers -13765 and -137.65 cannot be read; a line of
  blanks makes the parser read in front of its buffer.
* **Interfaces and keys.** `wow_eth_setIfaceMac` reads the flags into the request
  that holds the address, so the kernel always refuses it, after the interface
  was taken down and before it is brought up; `wow_eth_checkIfaceRunning` returns
  1, not 0, for a running interface; upload and download are exchanged, and the
  counters of `eth1` are those of `eth10` where both exist. A key that cannot be
  read leaves its file open, `wow_rsa_encrypt_by_file` imports two empty numbers
  and never succeeds, `wow_rsa_decrypt_by_str` always does, and
  `wow_rsa_generate_by_file` does when the private file could not be opened.

## 6. Not modelled, and the plan

Left: mixed reports with and without time stamps and frames of IEC 104 cut by a
read (a byte-level `frame_parse`); reads of the cache without the lock while a
writer recycles what they return; two threads calling one Modbus master or one
IPC client at once. For proofs: `SuccessIsCurrent` and `OnlyAsked` of Modbus, once `ModbusFrame` is written without
RECURSIVE operators.

Left out for good: the parsers behind the JSON and XML wrappers (cJSON, ezxml),
SQLite, quadsort, what mbedtls computes, and other vendored code; TLS, which is
not built; the shell, debug output and `ntpdate`, which are single system calls
or console text; the build system.
