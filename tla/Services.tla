------------------------------ MODULE Services ------------------------------
(***************************************************************************)
(* The services around the protocols, one at a time (unit), besides the    *)
(* containers: the log, the database, FTP, locks, shared memory, timers,   *)
(* the leak detector, files, ini files, sockets, ports, the network        *)
(* adapter and interfaces, keys and plugins.  obj is the service as the    *)
(* code keeps it, ref what its users know, ret the pair of what the last   *)
(* call gave and what it should have given.  A unit whose next step C,     *)
(* SQLite or the code itself leaves without an outcome is "spent".         *)
(***************************************************************************)
EXTENDS Containers

CONSTANTS Int8Bits,                 \* bits of an int8_t
          Procs,                    \* processes or threads
          MaxMsgs, MaxRestarts,     \* messages logged, restarts of the process
          MaxRows,                  \* entries and data of the database's log
          MaxPort,                  \* data connections the FTP server offered
          MaxCells,                 \* length of a file, bytes on a stream
          MaxConns,                 \* connections a port ever has
          ASCIILINESZ,              \* bytes of a line of an ini file
          MAX_IP_SIZE, PortRoom     \* interfaces and ports there is room for

LF == INSTANCE LogFile
DB == INSTANCE Database
NE == INSTANCE Network
SY == INSTANCE Sync
FI == INSTANCE Files
PO == INSTANCE Ports
PL == INSTANCE Plugins
IR == INSTANCE Ini
RS == INSTANCE Encode

Step(u, o) == Call(u, o, ref, 0, 0)
-----------------------------------------------------------------------------
(* Log.  msgs are the newest messages a reader may count on, at most two,  *)
(* the newest last, as <<number, length>>.                                 *)
MaxMsgLen == 2                         \* cells of a message; a file's size is at least HEAD + 2 * MaxMsgLen - 1
Newest2(s) == IF Len(s) > 2 THEN Tail(s) ELSE s
\* Two files written in the same second: which is the newest is not known.
Tie(lf) == lf.hfile = LF!NULL /\ lf.num > 1 /\ Cardinality(LF!Newest(lf)) > 1

LogPrint ==
  /\ unit = "log" /\ ref.next <= MaxMsgs
  /\ \E lvl \in {0, 1}, len \in 1 .. MaxMsgLen, dt \in {0, 1}, junk \in {0, 6} :
       LET lf == LF!log_new_module(obj.lf)
           cells == [i \in 1 .. len |-> ref.next]
           msgs == IF Tie(lf) THEN <<>> ELSE ref.msgs IN
       /\ junk # 0 => DOMAIN lf.disk = {} /\ lf.num > 1
       /\ dt # 0 => lf.num > 1 /\ lf.level >= lvl
       /\ Call("log", [lf |-> LF!log_print(obj.lf, lvl, cells, obj.now + dt, junk), now |-> obj.now + dt],
               IF lf.level < lvl THEN ref ELSE [ref EXCEPT !.msgs = Newest2(Append(msgs, <<ref.next, len>>)), !.next = @ + 1],
               0, 0)
\* Files that exist already were written under another size or number: what
\* the log then makes of them is not claimed.
LogSet ==
  /\ unit = "log"
  /\ \/ \E size \in {4, 9}, num \in 1 .. 3 :
          IF DOMAIN obj.lf.disk # {} THEN Spend
          ELSE \/ Step("log", [obj EXCEPT !.lf = LF!wow_log_set_module_file(obj.lf, size, num)])
               \/ ~obj.lf.made /\ Step("log", [obj EXCEPT !.lf = LF!wow_log_set_default_file(obj.lf, size, num)])
     \/ \E level \in {0, 1} :
          \/ ~obj.lf.made /\ Step("log", [obj EXCEPT !.lf = LF!wow_log_set_default_level(obj.lf, level)])
          \/ Step("log", [obj EXCEPT !.lf = LF!wow_log_set_module_level(obj.lf, level)])
\* The process is ended and started, between two messages or before the head of the last is written.
LogRestart ==
  /\ unit = "log" /\ ref.restarts < MaxRestarts /\ obj.lf.made
  /\ obj.lf.def.size = obj.lf.size /\ obj.lf.def.num = obj.lf.num
  /\ \/ Call("log", [obj EXCEPT !.lf = LF!log_exit(obj.lf)],
             [ref EXCEPT !.restarts = @ + 1], 0, 0)
     \/ /\ obj.lf.hfile # LF!NULL /\ ref.next <= MaxMsgs
        /\ LET cut == LF!Content(obj.lf, [i \in 1 .. MaxMsgLen |-> ref.next], obj.now) IN
           Call("log", [obj EXCEPT !.lf = LF!log_exit(cut)],
                [ref EXCEPT !.restarts = @ + 1, !.next = @ + 1, !.msgs = IF @ = <<>> THEN @ ELSE <<Last(@)>>], 0, 0)
Intact(disk, m) ==
  \E f \in DOMAIN disk : \E p \in 0 .. Len(disk[f].data) - m[2] : \A i \in 1 .. m[2] : disk[f].data[p + i] = m[1]
-----------------------------------------------------------------------------
(* Database.  left are the rows the walk still owes; when known is FALSE   *)
(* the walk goes over a statement that was left in the middle.             *)
Query == [s \in {"s1", "s2", "s3"} |-> CASE s = "s1" -> <<11, 12>> [] s = "s2" -> <<21>> [] OTHER -> <<>>]
Owes(rows, known) == [left |-> rows, known |-> known]
DbExec ==
  /\ unit = "db"
  /\ \/ \E rows \in {<<>>, <<31>>, <<31, 32>>}, ok \in BOOLEAN :
          LET x == DB!wow_database_exec(obj, rows, ok) IN Call("db", x.st, Owes(IF ok THEN rows ELSE <<>>, TRUE), x.ret, IF ok THEN 0 ELSE -1)
     \/ \E s \in DOMAIN Query :
          \/ Call("db", DB!wow_database_statement_exec(obj, s, Query),
                  Owes(Query[s], obj.tab = <<>> /\ obj.at[s] = 0 /\ (Query[s] # <<>> \/ obj.statement = DB!NULL)), 0, 0)
          \/ Call("db", DB!db_sqlite3_statement_exit(obj, s), Owes(<<>>, TRUE), 0, 0)
     \/ Call("db", DB!db_sqlite3_statement_init(obj), Owes(<<>>, TRUE), 0, 0)
DbNext ==
  /\ unit = "db"
  /\ LET n == DB!wow_database_result_next(obj, Query)
         want == IF ref.left = <<>> THEN <<>> ELSE <<Head(ref.left)>> IN
     \* The NULL at the end of a statement's rows resets it: the walk starts again.
     Call("db", n.st, IF ref.left = <<>> THEN [ref EXCEPT !.known = @ /\ obj.statement = DB!NULL] ELSE [ref EXCEPT !.left = Tail(@)],
          n.ret, IF ref.known THEN want ELSE n.ret)

(* Log of the database.  fresh: no entry's data has been read yet. *)
DbLogAdd ==
  /\ unit = "dblog" /\ Len(obj.idx) < MaxRows - 1
  /\ \E t \in 1 .. 2 :
       LET a == DB!wow_sql_log_addEntry(obj, t) IN
       IF a.ret = DB!NEVER THEN Spend
       ELSE Call("dblog", a.st, [ref EXCEPT !.ids = Append(@, Len(ref.ids) + 1)], a.ret, Len(ref.ids) + 1)
DbLogData ==
  /\ unit = "dblog" /\ Len(obj.data) < MaxRows
  /\ \E id \in ToSet(ref.ids), v \in {1, 2} :
       Call("dblog", DB!wow_sql_log_addEntryData(obj, id, v), [ref EXCEPT !.data = Append(@, <<id, v>>)], 0, 0)
\* The callback refuses at its stop-th call at the latest.
DbLogRead ==
  /\ unit = "dblog" /\ ref.fresh
  /\ \E id \in ToSet(ref.ids), stop \in 1 .. MaxRows :
       LET g == DB!wow_sql_log_getEntryData(obj, id, stop)
           of == SelectSeq(ref.data, LAMBDA r : r[1] = id)
           all == [i \in DOMAIN of |-> of[i][2]] IN
       Call("dblog", g.st, [ref EXCEPT !.fresh = FALSE], g.calls, IF stop <= Len(all) \/ all = <<>> THEN SubSeq(all, 1, Min({stop, Len(all)})) ELSE g.calls)
DbLogRange ==
  /\ unit = "dblog"
  /\ \/ \E to \in 0 .. 2, stop \in 1 .. 2 :
          LET g == DB!wow_sql_log_getEntry(obj, 1, to, stop) IN
          IF g.ret \in {DB!NEVER, DB!WILD} THEN Spend
          ELSE Call("dblog", g.st, [ref EXCEPT !.fresh = FALSE], g.calls, IF ref.fresh /\ to = 0 THEN <<>> ELSE g.calls)
     \/ DB!wow_sql_log_getOldestEntries(obj) = DB!NEVER /\ Spend
     \/ DB!wow_sql_log_getNewestEntries(obj) = DB!NEVER /\ Spend
DbLogOpen ==
  /\ unit = "dblog"
  /\ \/ \E n \in 1 .. MaxRows - 1 : Step("dblog", DB!wow_sql_log_SetMaxEntrySize(obj, n))
     \/ LET x == DB!wow_sql_log_exit(obj) IN Call("dblog", DB!wow_sql_log_init(x.idx, x.data), [ref EXCEPT !.fresh = TRUE], 0, 0)

(* Values of a row, in the extreme numbers of their types. *)
Types == DB!Ints \cup DB!UInts
Range2(t) == IF t \in DB!Ints THEN -(2^(DB!Width(t) - 1)) .. 2^(DB!Width(t) - 1) - 1 ELSE 0 .. 2^DB!Width(t) - 1
Corners == UNION {{-(2^(DB!Width(t) - 1)), -1, 0, 1, 2^(DB!Width(t) - 1) - 1, 2^(DB!Width(t) - 1), 2^DB!Width(t) - 1} : t \in Types}
\* An unsigned number that has its highest bit set is stored as a negative one.
Lossless(t, u, n) == n \in Range2(u) /\ (t \in DB!UInts => n < 2^(DB!Width(t) - 1))
ValueRead ==
  /\ unit = "value"
  /\ \E u \in Types :
       LET n == ref[2]
           row == DB!db_sqlite3_column(obj)
           want == IF Lossless(ref[1], u, n) THEN n ELSE DB!database_value_get(obj, u) IN
       \/ Call("value", obj, ref, DB!database_value_get(obj, u), want)
       \/ Call("value", obj, ref, DB!database_value_get(row, u), IF Lossless(ref[1], u, n) THEN n ELSE DB!database_value_get(row, u))
-----------------------------------------------------------------------------
(* FTP.  ref: what the last call was to have done, checked in FtpJudged. *)
Ftp(outs, what, f) == \E o \in outs : Call("ftp", o.st, [what |-> what, file |-> f, empty |-> obj.dst = <<>>], o.ret, o.ret)
FtpLogin ==
  /\ unit = "ftp"
  /\ \/ ~obj.on /\ \E user \in {230, 331, 530}, pass \in {230, 530} : Ftp(NE!wow_ftp_login(obj, user, pass), "login", "")
     \/ obj.on /\ Call("ftp", NE!wow_ftp_exit(obj), [what |-> "exit", file |-> "", empty |-> FALSE], 0, 0)
FtpCommand ==
  /\ unit = "ftp" /\ obj.on /\ Len(obj.q) < 3 /\ obj.port < MaxPort
  /\ \E f \in {"f", "g"} :
       \/ Ftp(NE!ftp_get_fileSize(obj, f), "size", f)
       \/ \E here \in BOOLEAN : Ftp(NE!ftp_mk_dir(obj, here), "mkdir", f)
       \/ Ftp(NE!ftp_delete_file(obj, f), "delete", f)
       \/ Ftp(NE!ftp_download_file(obj, f), "down", f)
       \/ \E local \in {<<>>, <<3, 4>>}, cut \in BOOLEAN :
            (cut => local # <<>>) /\ Ftp(NE!ftp_upload_file(obj, f, local, cut), IF cut THEN "cut" ELSE "up", f)
-----------------------------------------------------------------------------
(* Locks.  in are the processes between lock and unlock; sure is FALSE     *)
(* once the semaphore was set again or removed while one was inside.       *)
AtomicStep ==
  unit = "atomic" /\ \E p \in Procs : \E o \in SY!AtomicSee(obj, p) \cup SY!AtomicSwap(obj, p) \cup SY!wow_atomic_unlock(obj, p) : Step("atomic", o)
SemStep ==
  /\ unit = "sem" /\ obj.made < 3
  /\ \E p \in Procs :
       \/ p \notin ref.in /\ Call("sem", SY!wow_sem_new(obj, p), [ref EXCEPT !.sure = @ /\ ref.in = {}], 0, 0)
       \/ p \notin ref.in /\ \E o \in SY!wow_sem_lock(obj, p) :
            Call("sem", o.st, IF o.ret = 0 THEN [ref EXCEPT !.in = @ \cup {p}] ELSE ref, 0, 0)
       \/ p \in ref.in /\ Call("sem", SY!wow_sem_unlock(obj, p).st, [ref EXCEPT !.in = @ \ {p}], 0, 0)
       \/ p \notin ref.in /\ Call("sem", SY!wow_sem_free(obj, p), [ref EXCEPT !.sure = @ /\ ref.in = {}], 0, 0)
       \/ Call("sem", SY!SemUndo(obj, p), [ref EXCEPT !.in = @ \ {p}], 0, 0)
FileLockStep ==
  /\ unit = "flock"
  /\ \E p \in Procs :
       \/ \E o \in SY!wow_file_read_lock(obj, p) \cup SY!wow_file_write_lock(obj, p) : Step("flock", o)
       \/ Step("flock", SY!wow_file_unlock(obj, p))
MutexStep ==
  /\ unit = "mutex"
  /\ \/ \E p \in Procs : \E o \in SY!wow_mutex_lock(obj, p) : Step("mutex", o)
     \/ obj # 0 /\ Step("mutex", SY!wow_mutex_unlock(obj))
\* raced: the modules were ended while a thread was inside one.
SingletonStep ==
  /\ unit = "single"
  /\ \/ \E t \in Procs :
          \/ obj.pc[t][1] = "idle" /\ \E m \in SY!Mods : Step("single", SY!wow_singleton_instance(obj, t, m))
          \/ obj.pc[t][1] = "init" /\ \E ok \in BOOLEAN : Step("single", SY!InitReturns(obj, t, ok))
          \/ obj.pc[t][1] = "set" /\ Step("single", SY!SetExit(obj, t))
     \/ ~ref.raced /\ Call("single", SY!_wow_singleton_exit(obj), [raced |-> \E t \in Procs : obj.pc[t][1] # "idle"], 0, 0)
\* shrunk: the generations of the file that were mapped with two sizes.
ShmStep ==
  /\ unit = "shm"
  /\ \/ \E p \in Procs, size \in 1 .. 2, create \in BOOLEAN :
          LET s == SY!shm_map_file(obj, p, size, create) IN
          /\ obj.made < 3 \/ obj.gen # 0
          /\ Call("shm", s.st, IF obj.gen # 0 /\ obj.size[obj.gen] > size THEN [ref EXCEPT !.shrunk = @ \cup {obj.gen}] ELSE ref,
                  s.ret, IF obj.gen = 0 /\ ~create THEN -1 ELSE 0)
     \/ Step("shm", SY!shm_unmap_file(obj))
-----------------------------------------------------------------------------
(* Timers.  cb[id] is the callback last added, on the ids that are started; *)
(* raced: a call changed the timer that the loop had in hand.               *)
Ids == {1, 2}
TimerCall ==
  /\ unit = "timer" /\ obj.next < 5
  /\ \E id \in Ids :
       LET race == ref.raced \/ (obj.picked # 0 /\ SY!InHand(obj, id)) IN
       \/ \E cb \in {1, 2} : Call("timer", SY!wow_timer_add(obj, id, cb), [ref EXCEPT !.cb[id] = cb, !.on = @ \ {id}, !.raced = race], 0, 0)
       \/ LET s == SY!wow_timer_start(obj, id) IN
          Call("timer", s.st, [ref EXCEPT !.on = IF ref.cb[id] = 0 THEN @ ELSE @ \cup {id}], s.ret, IF ref.cb[id] = 0 THEN -1 ELSE 0)
       \/ LET s == SY!wow_timer_stop(obj, id) IN
          Call("timer", s.st, [ref EXCEPT !.on = @ \ {id}, !.raced = race], s.ret, IF ref.cb[id] = 0 THEN -1 ELSE 0)
       \/ Call("timer", SY!wow_timer_remove(obj, id), [ref EXCEPT !.on = @ \ {id}, !.cb[id] = 0, !.raced = race], 0, 0)
TimerLoop ==
  /\ unit = "timer"
  /\ \/ obj.picked = 0 /\ \E o \in SY!timer_loop_entry(obj) : Step("timer", o)
     \/ /\ obj.picked # 0
        /\ LET k == SY!timer_watcher_cb(obj)
               w == obj.list[k] IN
           IF k = 0 THEN Spend
           ELSE Call("timer", [obj EXCEPT !.picked = 0], [ref EXCEPT !.raced = FALSE],
                     <<w.id \in ref.on, w.cb>>, IF ref.raced THEN <<w.id \in ref.on, w.cb>> ELSE <<TRUE, ref.cb[w.id]>>)

(* Leak detector.  ref are the blocks the program holds, <<address, size>>. *)
Free == SY!Slots \ {b[1] : b \in ref}
MleakStep ==
  /\ unit = "mleak"
  /\ \/ \E p \in Free, n \in 0 .. SY!MAXSIZE : Call("mleak", SY!wow_mleak_malloc(obj, p, n), ref \cup {<<p, n>>}, 0, 0)
     \* An empty block is not found again, and stays.
     \/ \E b \in ref : Call("mleak", SY!wow_mleak_free(obj, b[1]), IF b[2] = 0 THEN ref ELSE ref \ {b}, 0, 0)
     \/ \E b \in ref, n \in 0 .. SY!MAXSIZE, p \in Free :
          LET r == SY!wow_mleak_realloc(obj, b[1], n, p) IN
          Call("mleak", r.list, IF b[2] = 0 \/ n <= b[2] THEN ref ELSE (ref \ {b}) \cup {<<p, n>>},
               r.ret, IF b[2] = 0 THEN b[1] ELSE IF n <= b[2] THEN 0 ELSE p)
     \/ IF SY!wow_mleak_print(obj) THEN Step("mleak", obj) ELSE Spend
-----------------------------------------------------------------------------
(* Ini files.  A file is made of items: their lines, what they are, and    *)
(* the name and value a reader takes from them.  map is what its user      *)
(* knows of the dictionary, file and ok what loading the file is to give,  *)
(* ops how many calls were made.                                           *)
Item(what, lines, name, val) == [what |-> what, lines |-> lines, name |-> name, val |-> val]
Items == {
  Item("sec", << <<" ", "[", "A", " ", "]">> >>, <<"a">>, IR!NULL),
  Item("sec", << <<"[", "b", "]", " ">> >>, <<"b">>, IR!NULL),
  Item("key", << <<"K", " ", "=", " ", "y", ";", "x">> >>, <<"k">>, <<"y">>),
  Item("key", << <<"k", "=", "'", "v", ";", "w", "'">> >>, <<"k">>, <<"v", ";", "w">>),
  Item("key", << <<"j", "=", " ", "\"", "-13765", "\"", " ", ";">> >>, <<"j">>, <<"-13765">>),
  Item("key", << <<"j", "=">> >>, <<"j">>, <<>>),
  Item("key", << <<"k", "=", "\\">>, <<" ", "7">> >>, <<"k">>, <<"7">>),
  Item("none", << <<>>, <<";", "x", "=">> >>, <<>>, <<>>),
  Item("junk", << <<"x">> >>, <<>>, <<>>),
  Item("blank", << <<" ">> >>, <<>>, <<>>),
  Item("long", << [i \in 1 .. ASCIILINESZ - 1 |-> IF i = 2 THEN "=" ELSE "x"] >>, <<>>, <<>>)}
IniNames == {<<"A", ":", "K">>, <<"b", ":", "j">>, <<"b">>}
MaxOps == 5                            \* items of the file and calls together
Full(its, i) ==
  LET secs == {j \in 1 .. i : its[j].what = "sec"} IN
  CASE its[i].what = "sec" -> its[i].name
    [] OTHER -> (IF secs = {} THEN <<>> ELSE its[Max(secs)].name) \o <<":">> \o its[i].name
Meant(its) ==
  LET at == {i \in DOMAIN its : its[i].what \in {"sec", "key"}} IN
  [n \in {Full(its, i) : i \in at} |-> its[Max({i \in at : Full(its, i) = n})].val]
\* An error is forgotten when a section or a key comes behind it, and a single
\* byte without a newline when it is the last.
Loads(its, nl) ==
  /\ \A i \in DOMAIN its : its[i].what # "long"
  /\ \A i \in DOMAIN its : its[i].what = "junk" => (i = Len(its) /\ ~nl) \/ \E j \in i + 1 .. Len(its) : its[j].what \in {"sec", "key"}
  /\ nl \/ Last(its).what \in {"junk", "blank"}
NoName(n) == ":" \notin ToSet(n)
\* What a saved dictionary reads as: the names of no section are lost, all get
\* another section when there is none, and a value ends where a comment begins.
Bare(v, null) == IF v = IR!NULL THEN null ELSE IF ";" \in ToSet(v) THEN <<v[1]>> ELSE v
AfterReload(map) ==
  LET secs == {n \in DOMAIN map : NoName(n)}
      kept == {n \in DOMAIN map : \E s \in secs : IsPrefix(s \o <<":">>, n)} IN
  IF secs = {} THEN [n \in {<<":">> \o m : m \in DOMAIN map} |-> Bare(map[Tail(n)], <<"(null)">>)]
  ELSE [n \in secs \cup kept |-> IF n \in secs THEN IR!NULL ELSE Bare(map[n], <<>>)]

IniFile(its, nl) == [lines |-> FlattenSeq([i \in DOMAIN its |-> its[i].lines]), nl |-> nl]
IniNew(its, nl) ==
  New("ini", [d |-> IR!D!dictionary_new(0), on |-> FALSE, file |-> IniFile(its, nl)],
      [map |-> Meant(<<>>), file |-> Meant(its), ok |-> Loads(its, nl), ops |-> Len(its)])
IniCall(o, r, got, want) == Call("ini", o, [r EXCEPT !.ops = @ + 1], got, want)
IniLoad ==
  /\ unit = "ini" /\ ref.ops < MaxOps
  /\ LET l == IR!wow_ini_init(obj.file) IN
     IF l.wild THEN Spend
     ELSE IniCall(IF l.ok THEN [obj EXCEPT !.d = l.d, !.on = TRUE] ELSE obj, IF ref.ok THEN [ref EXCEPT !.map = ref.file] ELSE ref, l.ok, ref.ok)
IniChange ==
  /\ unit = "ini" /\ ref.ops < MaxOps /\ obj.on
  /\ \/ \E n \in IniNames, v \in {IR!NULL, <<"v", ";", "w">>, <<"-137.65">>} :
          LET s == IR!wow_ini_set_string(obj.d, n, v) IN
          IniCall([obj EXCEPT !.d = s.st], [ref EXCEPT !.map = Map(@, IR!strlwc(n), v)], s.ret, 0)
     \/ \E n \in IniNames :
          IniCall([obj EXCEPT !.d = IR!wow_ini_del(obj.d, n)], [ref EXCEPT !.map = Without(@, IR!strlwc(n))], 0, 0)
     \/ IniCall([obj EXCEPT !.file = IR!wow_ini_save(obj.d)], [ref EXCEPT !.file = AfterReload(ref.map), !.ok = TRUE], 0, 0)
-----------------------------------------------------------------------------
(* An open file.  ref: the file its user believes in; last is the kind of  *)
(* the last access, since a stream may not be read right after a write     *)
(* (nor written right after a read) unless its place was set in between.   *)
Bufs == {<<7>>, <<7, 8>>, <<7, 8, 9>>}
Modes == {"RDONLY", "WRONLY", "RDWR", "CREATE", "WRCLEAR", "APPEND"}
Mixed(op) == obj.ctx = "fio" /\ ref.last \notin {"", op}
RefWrite(r, cells) ==
  LET at == IF obj.fl.app THEN Len(r.data) ELSE r.pos IN
  IF cells = <<>> THEN r ELSE [r EXCEPT !.data = FI!Place(@, at, cells), !.pos = at + Len(cells)]
FileOpen ==
  /\ unit = "closed"
  /\ \E ctx \in {"io", "fio"}, mode \in Modes, here \in BOOLEAN :
       LET o == FI!wow_hfile_open(ctx, mode, here, obj) IN
       /\ o # <<>> /\ unit' = "file" /\ obj' = o[1] /\ ret' = <<0, 0>>
       /\ ref' = [data |-> o[1].disk, pos |-> 0, last |-> ""] /\ UNCHANGED hash
FileWrite ==
  /\ unit = "file" /\ Len(ref.data) < MaxCells /\ ref.pos < MaxCells
  /\ \E b \in Bufs :
       IF Mixed("w") THEN Spend
       ELSE \E o \in (IF obj.ctx = "io" THEN FI!io_write(obj, b) ELSE {FI!fio_write(obj, b)}) :
              Call("file", o.st, [RefWrite(ref, SubSeq(b, 1, o.ret)) EXCEPT !.last = IF obj.fl.w THEN "w" ELSE @], 0, 0)
FileRead ==
  /\ unit = "file"
  /\ \E n \in 1 .. 3 :
       IF Mixed("r") THEN Spend
       ELSE \E o \in (IF obj.ctx = "io" THEN FI!io_read(obj, n) ELSE {FI!fio_read(obj, n)}) :
              LET k == Len(o.ret) IN
              Call("file", o.st, [ref EXCEPT !.pos = @ + k, !.last = IF obj.fl.r THEN "r" ELSE @],
                   o.ret, IF k = 0 THEN <<>> ELSE SubSeq(ref.data, ref.pos + 1, ref.pos + k))
FilePlace ==
  /\ unit = "file"
  /\ \/ \E off \in 0 .. 2 :
          LET s == IF obj.ctx = "io" THEN FI!io_seek(obj, off, 0) ELSE FI!fio_seek(obj, off, 0) IN
          Call("file", s.st, [ref EXCEPT !.pos = off, !.last = ""], s.ret, 0)
     \/ LET s == IF obj.ctx = "io" THEN [st |-> obj, ret |-> FI!io_size(obj)] ELSE FI!fio_size(obj) IN
        Call("file", s.st, [ref EXCEPT !.last = ""], s.ret, Len(ref.data))
     \/ LET s == IF obj.ctx = "io" THEN obj ELSE FI!fio_sync(obj) IN Call("file", s, [ref EXCEPT !.last = ""], s.disk, ref.data)
FileClose ==
  /\ unit = "file" /\ unit' = "closed" /\ ref' = <<>>
  /\ obj' = FI!fio_close(obj) /\ ret' = <<obj', ref.data>> /\ UNCHANGED hash

(* A tree of files.  A call is judged when it returns: 0 means that it has *)
(* done what it says, and nothing that is not below its path has changed.  *)
Paths == UNION {[1 .. n -> {"a", "b"}] : n \in 1 .. 2}
Same(fs, S) == \A q \in S : FI!Has(fs, q) /\ fs[q] = obj[q]
Tree(o, others, done) == Call("tree", o.fs, ref, Same(o.fs, others) /\ (o.ret = 0) = done, TRUE)
TreeStep ==
  /\ unit = "tree"
  /\ \E p \in Paths :
       LET file(q) == FI!wow_file_is_file(obj, q) = 1
           all == DOMAIN obj
           free == \A n \in 1 .. Len(p) - 1 : ~file(SubSeq(p, 1, n)) IN
       \/ LET o == FI!wow_dir_create(obj, p) IN Tree(o, all, free /\ (o.ret = 0 => \A n \in 1 .. Len(p) : FI!Has(o.fs, SubSeq(p, 1, n))))
       \/ LET o == FI!wow_file_create(obj, p) IN Tree(o, IF file(p) THEN all \ {p} ELSE all, free /\ ~FI!IsDir(obj, p) /\ (o.ret = 0 => FI!Has(o.fs, p) /\ o.fs[p] = <<>>))
       \/ LET o == FI!wow_file_remove(obj, p) IN Tree(o, all \ {p}, FI!Below(obj, p) = {p} /\ (o.ret = 0 => ~FI!Has(o.fs, p)))
       \/ \E stuck \in {<<>>} \cup Paths : \E o \in FI!wow_dir_remove(obj, p, stuck) :
            Tree(o, all \ FI!Below(obj, p), FI!IsDir(obj, p) /\ FI!Below(o.fs, p) = {})
       \/ \E q \in Paths : file(p) /\ LET o == FI!wow_file_rename(obj, p, q) IN
            Tree(o, all \ {p, q}, FI!Has(o.fs, q) /\ o.fs[q] = obj[p] /\ (p # q => ~FI!Has(o.fs, p)))
       \/ file(p) /\ obj[p] = <<>> /\ \E c \in {"x", "n"} : Step("tree", [obj EXCEPT ![p] = <<c>>])
TreeAsk ==
  /\ unit = "tree"
  /\ \E p, q \in Paths :
       LET file(x) == FI!wow_file_is_file(obj, x) = 1
           cmp == FI!wow_file_compare(obj, p, q)
           ask(got, want) == Call("tree", obj, ref, <<got>> = <<want>>, TRUE) IN
       \/ file(p) /\ file(q) /\ (IF cmp = 2 THEN Spend ELSE ask(cmp = 0, obj[p] = obj[q]))
       \/ file(p) /\ ask(FI!wow_file_line_num(obj, p), Len(SelectSeq(obj[p], LAMBDA c : c = "n")))
       \/ file(p) /\ ask(FI!wow_file_info(obj, p), <<"FILE_REG", FI!wow_file_size(obj, p)>>)
       \/ ask(FI!wow_path_is_dir(obj, p), IF FI!wow_file_check_exist(obj, p) = 0 THEN -1 ELSE IF file(p) THEN 0 ELSE 1)
       \/ ask(Cardinality(FI!wow_dir_fileList(obj, p, TRUE)), Cardinality({c \in {"a", "b"} : file(Append(p, c))}))
-----------------------------------------------------------------------------
(* A stream: done are the bytes its writers were told were sent and the    *)
(* bytes its readers were given.                                           *)
StreamWrite ==
  /\ unit = "stream"
  /\ \/ /\ obj.w = NE!Idle /\ ~obj.shut
        /\ \E n \in 1 .. MaxCells - ref.next : Step("stream", NE!wow_tcp_write_timeout(obj, [i \in 1 .. n |-> ref.next + i]))
     \/ obj.w # NE!Idle /\ ~obj.shut /\ \E o \in NE!wow_socket_tsend(obj) : Step("stream", o)
     \/ /\ obj.w # NE!Idle /\ NE!SendEnds(obj)
        /\ Call("stream", NE!Finished(obj, "w"),
                [ref EXCEPT !.sent = @ \o SubSeq(obj.w.buf, 1, obj.w.n), !.next = @ + Len(obj.w.buf)], 0, 0)
StreamRead ==
  /\ unit = "stream"
  /\ \/ obj.r = NE!Idle /\ \E n \in 1 .. 3 : Step("stream", NE!wow_tcp_read_timeout(obj, n))
     \/ obj.r # NE!Idle /\ \E o \in NE!wow_socket_trecv(obj) : Step("stream", o)
     \/ obj.r # NE!Idle /\ NE!RecvEnds(obj) /\ Call("stream", NE!Finished(obj, "r"), [ref EXCEPT !.read = @ \o obj.r.buf], 0, 0)
StreamClose == unit = "stream" /\ ~obj.shut /\ Step("stream", [obj EXCEPT !.shut = TRUE])

(* Datagrams: net is what is on its way to us, sent the addressee of each  *)
(* answer and whom it answers.                                             *)
Peers == {1, 2}
UdpNet ==
  /\ unit = "udp"
  /\ \/ \E p \in Peers, n \in 1 .. 3 : Call("udp", obj, [ref EXCEPT !.net = @ \cup {<<p, 0, [i \in 1 .. n |-> p]>>}], 0, 0)
     \/ \E d \in ref.net : Call("udp", obj, [ref EXCEPT !.net = @ \ {d}], 0, 0)
UdpStep ==
  /\ unit = "udp"
  /\ \/ \E p \in Peers, ok \in BOOLEAN :
          LET c == NE!wow_udp_connect(obj, p, ok) IN Call("udp", c.st, [ref EXCEPT !.peer = IF ok THEN p ELSE 0], c.ret, IF ok THEN 0 ELSE -1)
     \/ \E n \in 1 .. 2, d \in ref.net, dup \in BOOLEAN :
          LET r == NE!wow_udp_read(obj, d, n) IN
          Call("udp", r.st, [ref EXCEPT !.peer = d[1], !.net = IF dup THEN @ ELSE @ \ {d}], r.ret, [i \in 1 .. Min({n, Len(d[3])}) |-> d[1]])
     \/ \E r \in NE!wow_udp_read_timeout(obj, ref.net, 3) :
          Call("udp", r.st, IF r.ret = <<>> THEN ref ELSE [ref EXCEPT !.peer = r.ret[1], !.net = {d \in @ : d[3] # r.ret}], 0, 0)
     \/ LET s == NE!wow_udp_write(obj, <<1>>) IN Call("udp", obj, ref, s.to, ref.peer)
     \/ \E s \in NE!wow_udp_write_timeout(obj, <<1>>) : Call("udp", obj, ref, <<s.to, s.ret>>, IF s.ret = 0 THEN <<s.to, 0>> ELSE <<ref.peer, 1>>)

(* A socket: ref are the values set, and whether the peer accepted us. *)
Ctrls == {"BLOCK", "TCP_NODELAY", "RECV_BUFF_SIZE", "SEND_BUFF_SIZE"}
Kept(c, v) == IF c \in {"BLOCK", "TCP_NODELAY"} THEN v ELSE 2 * v
SocketStep ==
  /\ unit = "socket"
  /\ \/ \E c \in Ctrls, v \in {0, 1} : Call("socket", NE!wow_socket_setopt(obj, c, v), [ref EXCEPT !.set[c] = Kept(c, v)], 0, 0)
     \/ \E c \in Ctrls : Call("socket", obj, ref, NE!GetOption(obj, c), ref.set[c])
     \/ \E reach, timely \in BOOLEAN :
          LET c == NE!wow_socket_connect(obj, reach, timely) IN
          Call("socket", c.st, [ref EXCEPT !.conn = @ \/ c.st.conn], c.ret, IF obj.block = 1 THEN IF reach \/ ref.conn THEN 0 ELSE -1 ELSE c.ret)
-----------------------------------------------------------------------------
(* A TCP port.  over counts the pairs of a close and a callback that met.  *)
Port(o, met) == IF o.bad THEN Spend ELSE Call("port", o, [over |-> ref.over + (IF met THEN 1 ELSE 0)], 0, 0)
AcceptStep ==
  /\ unit = "port"
  /\ \/ /\ obj.acc.pc = "accept" /\ (obj.server = "open" => obj.next <= MaxConns)
        /\ Port(PO!tcp_accept_thread(obj), obj.server = "open" /\ PO!InClose(obj))
     \/ PO!InCallback(obj) /\ \E o \in PO!eth_link_aceept_cb(obj) : Port(o, FALSE)
PortStep ==
  /\ unit = "port"
  /\ \/ /\ obj.st.pc = "idle" /\ obj.server \in {"none", "stale"}
        /\ \E o \in PO!eth_link_server_open(obj) : Call("port", o.st, ref, o.ret, o.ret)
     \/ /\ obj.st.pc = "idle" /\ obj.server = "master" /\ obj.client = 0 /\ obj.next <= MaxConns
        /\ \E o \in PO!eth_link_client_open(obj) : Call("port", o.st, ref, o.ret, IF o.st.client = 0 THEN -1 ELSE 0)
     \/ obj.st.pc = "idle" /\ (Port(PO!eth_link_send(obj), FALSE) \/ Port(PO!eth_link_recv(obj), FALSE))
     \/ obj.st.pc \in {"send", "recv"} /\ Port(PO!LoopEnds(obj), FALSE)
     \/ /\ obj.st.pc \in {"idle", "close", "clear"}
        /\ \E o \in PO!eth_link_close(obj) : Port(o, obj.st.pc = "idle" /\ PO!InClose(o) /\ PO!InCallback(obj))
     \/ /\ obj.server # "master" /\ obj.st.pc \in {"idle", "server"} /\ ~PO!ExitWaits(obj)
        /\ Port(PO!proto_port_eth_slave_exit(obj), obj.st.pc = "idle" /\ PO!InCallback(obj))
     \/ obj.server = "master" /\ obj.st.pc = "idle" /\ Port(PO!proto_port_eth_master_exit(obj), FALSE)

(* The network adapter, in a process whose other parts open and close      *)
(* files.  wild: it was connected twice, changed its type while connected, *)
(* or was closed before it was ever connected (then it closes number 0).   *)
Owned == {n \in DOMAIN obj.tab : obj.tab[n] = "own"}
Adapter(o, wild, got, want) == Call("adapter", o, [wild |-> ref.wild \/ wild], got, want)
AdapterStep ==
  /\ unit = "adapter" /\ obj.alive
  /\ \/ \E opt \in {<<"SOCKET_TYPE", "TCP_CLIENT">>, <<"SOCKET_TYPE", "TCP_SERVER">>, <<"HOST", "">>, <<"PORT", "">>} :
          Adapter(PO!wow_network_adapter_setopt(obj, opt[1], opt[2]), opt[1] = "SOCKET_TYPE" /\ Owned # {}, 0, 0)
     \/ \E up \in BOOLEAN :
          LET c == PO!wow_network_adapter_connect(obj, up) IN
          Adapter(c.st, Owned # {}, c.ret, IF up /\ obj.h.host /\ obj.h.type = "TCP_CLIENT" /\ PO!wow_hal_socket_open(obj.tab) >= 0 THEN 0 ELSE -1)
     \/ \E o \in PO!wow_network_adapter_send(obj, 1) \cup PO!wow_network_adapter_recv(obj, 1) : Adapter(o.st, FALSE, o.ret >= 0, obj.h.fd > 0)
     \/ Adapter(PO!wow_network_adapter_close(obj), obj.h.fd = 0, 0, 0)
     \/ Adapter(PO!wow_network_adapter_deinit(obj), obj.h.fd = 0, 0, 0)
AdapterOther ==
  /\ unit = "adapter"
  /\ \/ \E n \in {PO!wow_hal_socket_open(obj.tab)} : n >= 0 /\ Step("adapter", [obj EXCEPT !.tab[n] = "other"])
     \/ \E n \in DOMAIN obj.tab : n > 0 /\ obj.tab[n] = "other" /\ Step("adapter", [obj EXCEPT !.tab[n] = "free"])

(* Serial ports.  wild: one is set up before it was opened (its number is  *)
(* 0 then); left: the ones closed since their callback was set.            *)
Params == {[dataBits |-> 7, parity |-> "OddParity", stopBits |-> 2], [dataBits |-> 6, parity |-> "NoParity", stopBits |-> 1],
           [dataBits |-> 9, parity |-> "NoParity", stopBits |-> 1]}
Uart(o, wild, left) == IF wild THEN Spend ELSE Call("uart", o.st, [left |-> ref.left \cup left], 0, 0)
Ends(i) == IF \E l \in obj.loops : l[1] = i THEN {i} ELSE {}
UartStep ==
  /\ unit = "uart" /\ obj.inited
  /\ \E i \in DOMAIN obj.dev :
       \/ Uart(PO!wow_hal_uart_open(obj, i), FALSE, {})
       \/ \E p \in Params : Uart(PO!wow_hal_uart_set_param(obj, i, p), obj.dev[i].fd = 0, {}) \/ Uart(PO!uart_link_open(obj, i, p), FALSE, {})
       \/ Uart(PO!wow_hal_uart_close(obj, i), FALSE, Ends(i))
       \/ Uart([st |-> PO!uart_link_close(obj, i)], FALSE, Ends(i))
       \/ Uart([st |-> PO!proto_port_uart_exit(obj, i)], FALSE, Ends(i))
       \/ obj.loops = {} /\ Uart(PO!wow_hal_uart_set_recv_cb(obj, i, i + 1), FALSE, {})
       \/ Call("uart", obj, ref, PO!uart_link_send(obj, i) \o PO!uart_link_recv(obj, i) \o PO!wow_hal_uart_send(obj, i) \o PO!wow_hal_uart_recv(obj, i),
               IF obj.dev[i].opened THEN <<i, i, i, i>> ELSE <<>>)
       \/ \E l \in obj.loops : LET c == PO!uart_read_cb(obj, l) IN
            Call("uart", obj, ref, <<c.func, c.on>>, IF c.chan \in ref.left THEN <<c.func, c.on>> ELSE <<c.chan + 1, c.chan>>)
UartOther ==
  /\ unit = "uart"
  /\ \/ \E n \in {PO!Opens(obj, 0)} : n >= 0 /\ Step("uart", [obj EXCEPT !.tab[n] = PO!ALIEN])
     \/ \E n \in DOMAIN obj.tab : obj.tab[n] = PO!ALIEN /\ Step("uart", [obj EXCEPT !.tab[n] = PO!NOBODY])
     \* The table is freed: a loop that still runs would use it.
     \/ obj.inited /\ (IF obj.loops # {} THEN Spend ELSE Step("uart", PO!hal_uart_env_exit(obj)))
Wanted(p) == <<IF p.dataBits = 6 THEN {1} ELSE PO!Size(p.dataBits), PO!Parity(p.parity), p.stopBits>>

(* Plugins.  twice: they were initialised again before they were ended;    *)
(* failed: how often the initialisation of a loaded file failed.           *)
Descs == <<[module |-> "a", pri |-> 1, file |-> ""], [module |-> "b", pri |-> 2, file |-> ""],
           [module |-> "c", pri |-> 2, file |-> "c.so"], [module |-> "a", pri |-> 3, file |-> "a.so"]>>
Mods == {"a", "b", "c"}
FilesOf(ms) == {d.file : d \in {e \in ToSet(Descs) : e.module \in ms /\ e.file # ""}}
PluginStep ==
  /\ unit = "plugin"
  /\ \/ /\ ref.n < 2
        /\ \E on \in SUBSET Mods : on # {} /\ \E works \in SUBSET on :
             Call("plugin", PL!wow_plugin_init(obj, on, Descs, works),
                  [twice |-> obj.list # <<>>, on |-> on, n |-> ref.n + 1,
                   failed |-> [f \in DOMAIN ref.failed |-> ref.failed[f] + (IF f \in FilesOf(on \ works) THEN 1 ELSE 0)]], 0, 0)
     \/ obj.list # <<>> /\ (IF ref.twice THEN Spend ELSE Call("plugin", PL!wow_plugin_exit(obj), [ref EXCEPT !.on = {}], 0, 0))
     \/ \E m \in Mods :
          LET of == {d \in ToSet(Descs) : d.module = m /\ m \in ref.on}
              top == {d \in of : \A e \in of : d.pri >= e.pri} IN
          ~ref.twice /\ Call("plugin", obj, ref, ToSet(PL!wow_plugin_get_user(obj, m)), top)
(* Network interfaces.  ref: what the kernel has, by what was asked of it, *)
(* and the string lists the user holds; dark: an interface whose bringing  *)
(* up failed; spare: the lists that were left.                             *)
Ether == "eth1"
Iface(flags, n) == [flags |-> flags, ip |-> n, mac |-> n, broad |-> n + 10, mask |-> 255]
IfaceNew(zero) ==
  [tab |-> [n \in 0 .. 2 |-> IF n = 0 THEN zero ELSE "free"], order |-> <<"lo", Ether, "eth10">>, lists |-> 0, wrong |-> FALSE,
   ifs |-> [n \in {"lo", Ether, "eth10"} |-> Iface(IF n = Ether THEN 67 ELSE 66, IF n = Ether THEN 1 ELSE 2)]]
IfaceCall(outs, r, want) == \E o \in outs : Call("iface", o.st, r, <<o.ret, o.val>>, IF o.ret = 0 THEN <<0, want>> ELSE <<o.ret, NE!UNSET>>)
IfaceGet ==
  /\ unit = "iface"
  /\ \E n \in DOMAIN obj.ifs :
       \/ IfaceCall(NE!wow_eth_getIfaceIp(obj, n), ref, ref.ip[n])
       \/ IfaceCall(NE!wow_eth_getIfaceMac(obj, n), ref, obj.ifs[n].mac)
       \/ IfaceCall(NE!wow_eth_getIfacBroardcast(obj, n), ref, obj.ifs[n].broad)
       \/ IfaceCall(NE!wow_eth_getIfaceMask(obj, n), ref, 255)
       \/ \E o \in NE!wow_eth_checkIfaceRunning(obj, n) : Call("iface", o.st, ref, o.ret = 1, o.val # NE!UNSET /\ NE!Running(obj.ifs[n]))
       \/ Call("iface", obj, ref, NE!wow_eth_checkIfaceStatus(obj, n), 0)
IfaceSet ==
  /\ unit = "iface"
  /\ \/ \E o \in NE!wow_eth_setIfaceIp(obj, Ether, 3) :
          Call("iface", o.st, IF o.ret = 0 THEN [ref EXCEPT !.ip[Ether] = 3] ELSE ref, o.ret, o.ret)
     \* The address is never set, and the interface is up afterwards unless that failed.
     \/ \E o \in NE!wow_eth_setIfaceMac(obj, Ether, 4) :
          Call("iface", o.st, [ref EXCEPT !.dark = IF o.val = NE!UNSET THEN @ ELSE o.val = 0], <<o.ret, o.st.ifs[Ether].mac>>, <<-1, 1>>)
     \/ \E f \in {3, 67} : NE!Up(obj.ifs[Ether]) /\ Step("iface", [obj EXCEPT !.ifs[Ether].flags = f])
IfaceList ==
  /\ unit = "iface" /\ obj.lists < 2
  /\ \/ \E o \in NE!wow_eth_getIfaceName(obj) :
          Call("iface", o.st, IF o.ret = 0 THEN [ref EXCEPT !.held = @ + 1] ELSE ref,
               o.ret = 0 /\ ~IsPrefix(o.val, Reverse(SubSeq(obj.order, 1, MAX_IP_SIZE))), FALSE)
     \* The first of the list is the last interface that fits.
     \/ \E o \in NE!wow_eth_getLocalIp(obj) :
          Call("iface", o.st, [ref EXCEPT !.spare = @ \/ (o.ret # 0 /\ o.st.lists > obj.lists)], <<o.ret, o.val>>,
               IF o.ret = 0 THEN <<0, ref.ip[obj.order[MAX_IP_SIZE]]>> ELSE <<-1, NE!UNSET>>)
     \/ ref.held > 0 /\ Call("iface", [obj EXCEPT !.lists = @ - 1], [ref EXCEPT !.held = @ - 1], 0, 0)
     \/ \E n \in DOMAIN obj.tab :
          \/ obj.tab[n] = "other" /\ Step("iface", [obj EXCEPT !.tab[n] = "free"])
          \/ n = NE!socket(obj) /\ Step("iface", [obj EXCEPT !.tab[n] = "other"])
Dev(bytes) ==
  <<[within |-> {"lo"}, received |-> 5, sent |-> 5], [within |-> {Ether}, received |-> bytes, sent |-> 1],
    [within |-> {Ether, "eth10"}, received |-> 7, sent |-> 2 * bytes]>>
PortLists == {<<>>, <<80>>, <<80, 80, 443>>}
ProcRead ==
  /\ unit = "iface"
  /\ \/ \E n \in {"lo", Ether, "eth10", "wlan"}, open \in BOOLEAN :
          LET v == NE!wow_eth_getIfacSpeed(Dev(1), Dev(4), open, n) IN
          \* eth1 is found in eth10's line as well.  Up and down are exchanged.
          Call("iface", obj, ref, v, IF ~open \/ n = "wlan" THEN [ret |-> 0, up |-> NE!UNSET, down |-> NE!UNSET]
                                     ELSE [ret |-> 0, up |-> 0, down |-> IF n = "lo" THEN 0 ELSE 6])
     \/ \E t \in PortLists, u \in PortLists, to \in BOOLEAN, uo \in BOOLEAN :
          LET p == NE!wow_eth_getOccupiedPort(t, u, to, uo) IN
          IF p.ret \notin {0, -1} THEN Spend
          ELSE Call("iface", obj, ref, <<p.ret, p.tcp, p.udp>>, IF to /\ uo THEN <<0, t, u>> ELSE <<-1, IF to THEN t ELSE <<>>, <<>> >>)

(* RSA: one call, step by step. *)
RsaStep == unit = "rsa" /\ ~RS!Done(obj) /\ \E ok \in BOOLEAN : Step("rsa", RS!Advance(obj, ok))
-----------------------------------------------------------------------------
Init ==
  \/ ContainersInit
  \/ \E size \in {4, 5}, num \in 1 .. 3 :
       New("log", [lf |-> LF!log_init(1, size, num), now |-> 0], [msgs |-> <<>>, next |-> 1, restarts |-> 0])
  \/ New("db", DB!db_sqlite3_init(DOMAIN Query), Owes(<<>>, TRUE))
  \/ New("dblog", DB!wow_sql_log_init(<<>>, <<>>), [ids |-> <<>>, data |-> <<>>, fresh |-> TRUE])
  \/ \E t \in Types : \E n \in Corners \cap Range2(t) : New("value", DB!database_value_set(t, n), <<t, n>>)
  \/ New("ftp", NE!wow_ftp_new([f \in {"f", "g"} |-> IF f = "f" THEN <<1, 2>> ELSE <<>>]), [what |-> "new", file |-> "", empty |-> TRUE])
  \/ New("atomic", SY!AtomicNew, <<>>)
  \/ New("sem", SY!SemNone, [in |-> {}, sure |-> TRUE])
  \/ New("flock", SY!FileFree, <<>>)
  \/ New("mutex", 0, <<>>)
  \/ New("single", SY!SingleNew, [raced |-> FALSE])
  \/ New("shm", SY!ShmNone, [shrunk |-> {}])
  \/ New("timer", SY!wow_timer_create, [cb |-> [i \in Ids |-> 0], on |-> {}, raced |-> FALSE])
  \/ New("mleak", SY!_wow_mleak_init, {})
  \/ \E data \in {<<>>, <<1, 2, 3>>} : New("closed", data, <<>>)
  \/ \E n \in 1 .. 3 : \E its \in [1 .. n -> Items], nl \in BOOLEAN : IniNew(its, nl)
  \/ \E zero \in {"free", "other"} :
       New("iface", IfaceNew(zero), [ip |-> [n \in {"lo", Ether, "eth10"} |-> IF n = Ether THEN 1 ELSE 2], held |-> 0, dark |-> FALSE, spare |-> FALSE])
  \/ \E c \in DOMAIN RS!Programs : New("rsa", RS!Start(c), <<>>)
  \/ New("tree", [p \in {} |-> <<>>], <<>>)
  \/ \E cdown \in BOOLEAN : New("stream", NE!wow_tcp_open(cdown), [sent |-> <<>>, read |-> <<>>, next |-> 0])
  \/ New("udp", NE!wow_udp_open, [peer |-> 0, net |-> {}])
  \/ New("socket", NE!wow_socket_open, [set |-> [c \in Ctrls |-> NE!GetOption(NE!wow_socket_open, c)], conn |-> FALSE])
  \/ \E o \in {PO!proto_port_eth_slave_init, PO!proto_port_eth_master_init} : New("port", o, [over |-> 0])
  \/ New("adapter", PO!wow_network_adapter_init([n \in 0 .. 2 |-> IF n = 0 THEN "other" ELSE "free"]), [wild |-> FALSE])
  \/ New("uart", PO!hal_uart_env_init(2, [n \in 0 .. 2 |-> IF n = 0 THEN PO!ALIEN ELSE PO!NOBODY]), [left |-> {}])
  \/ New("plugin", PL!plugin_init(Mods, FilesOf(Mods)), [twice |-> FALSE, on |-> {}, n |-> 0, failed |-> [f \in FilesOf(Mods) |-> 0]])

Next ==
  \/ ContainersNext
  \/ LogPrint \/ LogSet \/ LogRestart
  \/ DbExec \/ DbNext \/ DbLogAdd \/ DbLogData \/ DbLogRead \/ DbLogRange \/ DbLogOpen \/ ValueRead
  \/ FtpLogin \/ FtpCommand
  \/ AtomicStep \/ SemStep \/ FileLockStep \/ MutexStep \/ SingletonStep \/ ShmStep
  \/ TimerCall \/ TimerLoop \/ MleakStep
  \/ FileOpen \/ FileWrite \/ FileRead \/ FilePlace \/ FileClose \/ TreeStep \/ TreeAsk \/ IniLoad \/ IniChange
  \/ StreamWrite \/ StreamRead \/ StreamClose \/ UdpNet \/ UdpStep \/ SocketStep
  \/ AcceptStep \/ PortStep \/ AdapterStep \/ AdapterOther \/ UartStep \/ UartOther \/ PluginStep
  \/ IfaceGet \/ IfaceSet \/ IfaceList \/ ProcRead \/ RsaStep

Spec == Init /\ [][Next]_vars
-----------------------------------------------------------------------------
\* Every state is one of the units, and what grows stays within its bound.
TypeOK ==
  /\ ContainersTypeOK
  /\ unit \in ContainerUnits \cup {"log", "db", "dblog", "value", "ftp", "atomic", "sem", "flock", "mutex", "single", "shm", "timer", "mleak",
               "file", "closed", "tree", "ini", "stream", "udp", "socket", "port", "adapter", "uart", "plugin", "iface", "rsa", "spent"}
  /\ unit = "ftp" => obj.socks \in 0 .. 1 /\ obj.port \in 0 .. MaxPort + 2
  /\ unit = "stream" => Len(obj.q) <= obj.room
  /\ unit = "log" => obj.lf.size <= LF!LOG_MAX_FILE_SIZE /\ obj.lf.num <= LF!LOG_MAX_FILE_NUM

\* The two newest messages are whole on the disk, wherever the circle or the
\* turn of the files stands, across restarts of the process and a crash
\* between a message and its head (then the newest complete one is).
LogKeepsNewest == unit = "log" => \A i \in DOMAIN ref.msgs : Intact(obj.lf.disk, ref.msgs[i])

\* The files stay as small as they were configured: one message more than the
\* size, and for a single file one more for each restart after a full turn.
LogBounded ==
  unit = "log" =>
    \A f \in DOMAIN obj.lf.disk :
      Len(obj.lf.disk[f].data) <= 5 + MaxMsgLen * (1 + ref.restarts)

\* A walk over a result gives every row once, in order, and then NULL,
\* whatever was executed, prepared or walked half before.
WalkComplete == unit = "db" => Answers

\* An entry of the database's log gets the number its data is stored under,
\* across re-openings, and its data is delivered in the order it was added.
EntriesKept == unit = "dblog" => Answers

\* A number that both the type it was stored as and the type it is read as can
\* hold is read as itself, from the value and through the database.
ValueKept == unit = "value" => Answers

\* A transfer that reports success moved the whole file, although replies may
\* come late, in one piece or be those of an earlier command, and no command
\* leaves a data connection open.
FtpJudged ==
  unit = "ftp" =>
    /\ obj.socks = 0
    /\ ref.what = "down" /\ ref.empty /\ ret[1] = 0 => obj.dst = obj.srv[ref.file]
    /\ ref.what = "up" /\ ret[1] = 0 /\ ~obj.late => obj.srv[ref.file] = <<3, 4>>

\* No two processes are inside the spin lock, the semaphore or a write lock,
\* and one that ends inside, in order or not, leaves the semaphore free.
LocksExclude ==
  /\ unit = "atomic" => Cardinality(SY!Holders(obj)) <= 1 /\ (obj.lock = 1) = (SY!Holders(obj) # {})
  /\ unit = "sem" /\ ref.sure => Cardinality(ref.in) <= 1 /\ (obj.gen # 0 => obj.val + Cardinality(ref.in) = 1)
  /\ unit = "flock" => Cardinality(obj.w) <= 1 /\ (obj.w # {} => obj.r \subseteq obj.w)

\* A module is initialised by one thread only, and its exit runs as often as
\* its initialisation succeeded, unless all are ended while one is being made.
InitBalanced == unit = "single" /\ ~ref.raced => \A m \in SY!Mods : obj.live[m] \in 0 .. 1

\* What a process has mapped lies within the file, unless another process
\* mapped the same file with a smaller size.
ShmBacked ==
  unit = "shm" => \A p \in Procs : LET g == obj.map[p][1] IN g # 0 /\ g \notin ref.shrunk => obj.map[p][2] <= obj.size[g]

\* A callback that runs is the one last given to a timer that is started,
\* unless that timer was changed while the loop was entering it.
TimerHonest == unit = "timer" => Answers

\* The list is exactly the blocks the program holds, so a report of leaks has
\* no false and no missing lines.
MleakExact ==
  unit = "mleak" => /\ {<<obj[i].ptr, obj[i].size>> : i \in DOMAIN obj} = ref /\ Len(obj) = Cardinality(ref) /\ Answers

\* Both backends read and write at the place their user knows, whatever the
\* kernel does with each call, and what was synchronised or closed is on disk.
FileFaithful ==
  /\ unit \in {"file", "closed"} => Answers
  /\ unit = "file" => FI!fflush(obj).disk = ref.data /\ (obj.pend = <<>> => obj.pos = ref.pos)

\* The dictionary of an ini file is what its lines, the calls and the last
\* load say, every getter and the lists of sections and keys agree with it, and
\* what was saved loads again to what the format can keep; the numbers that
\* stand for "not found" are never given as values.
IniKept ==
  unit = "ini" =>
    /\ Answers
    /\ {<<e.key, e.val>> : e \in ToSet(IR!Entries(obj.d))} = {<<n, ref.map[n]>> : n \in DOMAIN ref.map}
    /\ Len(IR!Entries(obj.d)) = Cardinality(DOMAIN ref.map)
    /\ \A n \in IniNames \cup DOMAIN ref.map :
         LET m == IR!strlwc(n)
             v == IF m \in DOMAIN ref.map THEN ref.map[m] ELSE IR!NULL
             has == m \in DOMAIN ref.map /\ v # IR!NULL IN
         /\ IR!wow_ini_get_string(obj.d, n) = (IF has THEN [ret |-> 0, val |-> v] ELSE IR!Failed)
         /\ m \in DOMAIN ref.map => has \/ IR!wow_ini_get_int(obj.d, n).ret = IR!WILD
         /\ has \/ m \notin DOMAIN ref.map =>
              /\ IR!wow_ini_get_int(obj.d, n).ret = 0 <=> has /\ v # <<"-13765">>
              /\ IR!wow_ini_get_double(obj.d, n).ret = 0 <=> has /\ v # <<"-137.65">>
              /\ IR!wow_ini_get_bool(obj.d, n).ret = 0 <=> has /\ v = <<"y">>
    /\ {IR!iniparser_getsecname(obj.d, i - 1) : i \in 1 .. IR!iniparser_getnsec(obj.d)} = {n \in DOMAIN ref.map : NoName(n)}
    /\ \A s \in {n \in DOMAIN ref.map : NoName(n)} :
         IR!iniparser_getsecnkeys(obj.d, s) = Cardinality({n \in DOMAIN ref.map : IsPrefix(s \o <<":">>, n)})

\* A call on the tree does what it says when it returns 0, touches nothing
\* else, and a removal that fails has removed only from below its path.
TreeJudged == unit = "tree" => Answers /\ \A q \in DOMAIN obj : FI!IsDir(obj, Front(q))

\* What the readers were given and what is on its way is exactly what the
\* writers were told was sent, and nothing is sent twice or skipped when a
\* call takes up after a partial one.
StreamFaithful ==
  unit = "stream" => ref.read \o obj.r.buf \o obj.q = ref.sent \o SubSeq(obj.w.buf, 1, obj.w.n)

\* An answer goes to the sender of the datagram read last, or to the peer
\* connected after it, and is not sent to anyone once a connect has failed.
UdpAnswers == unit = "udp" => Answers

\* An option reads back as it was set, and a blocking connect reports success
\* only for a connection that exists.
SocketHonest == unit = "socket" => Answers

\* The port names a connection that is still in memory, and a connection that
\* neither the port nor the accept thread holds was lost to a close that met a
\* callback: at most one for each such meeting, none otherwise, not even when
\* clients replace each other while data is sent and after the port is ended.
PortOwns ==
  unit = "port" =>
    /\ Answers
    /\ Cardinality(obj.live \ {obj.client, obj.acc.hand}) <= ref.over
    /\ obj.client # 0 /\ obj.st.pc = "idle" /\ obj.acc.pc # "clear" /\ ref.over = 0 => obj.client \in obj.live

\* The adapter closes and uses only descriptors it opened itself, although a
\* number it closed may be another's at once, holds at most one, and none
\* when it is ended, whatever connect did, for a user who is not wild.
AdapterBalanced ==
  unit = "adapter" /\ ~ref.wild => Answers /\ ~obj.wrong /\ Cardinality(Owned) <= (IF obj.alive THEN 1 ELSE 0)

\* An open serial port is set up as its parameters say (six data bits apart),
\* is reached by what is sent to it, and its callback runs for it alone until
\* it is closed; a failed or refused setting changes neither side.
UartHonest ==
  unit = "uart" =>
    /\ Answers /\ ~obj.wrong
    /\ \A i \in DOMAIN obj.dev :
         LET p == PO!wow_hal_uart_get_param(obj, i) IN
         /\ obj.dev[i].opened => obj.tab[obj.dev[i].fd] = i /\ (p.dataBits # 6 => obj.line[i] = Wanted(p))
         /\ {n \in DOMAIN obj.tab : obj.tab[n] = i} \ {0} \subseteq {obj.dev[i].fd}

\* Plugins are initialised by falling priority, each exit answers one
\* successful initialisation, and when all are ended only the files of
\* plugins that failed are still loaded.
PluginsBalanced ==
  unit = "plugin" =>
    /\ Answers
    /\ \A i \in 1 .. Len(obj.last) - 1 : obj.last[i] >= obj.last[i + 1]
    /\ obj.list = <<>> => (\A m \in Mods : obj.live[m] = 0) /\ (\A f \in DOMAIN obj.open : obj.open[f] = ref.failed[f])

\* Every call gives back the descriptor it took (number 0 apart) and no other,
\* and the lists it made but an empty one; what is read is what the kernel has
\* or was set; the interface stays up unless bringing it up failed, although
\* its address can never be set.
IfaceBalanced ==
  unit = "iface" =>
    /\ Answers /\ ~obj.wrong
    /\ {n \in DOMAIN obj.tab : obj.tab[n] = "net"} \subseteq {0}
    /\ obj.lists = ref.held \/ (ref.spare /\ obj.lists > ref.held)
    /\ NE!Up(obj.ifs[Ether]) \/ ref.dark

\* When a call on a key is over, no file is open unless a number could not be
\* read from the key's, and it returns 0 only when every step succeeded: all
\* but decrypt_by_str, generate_by_file, which fails only for its last write,
\* and generate_by_str, which does not look at what it wrote.
RsaJudged ==
  unit = "rsa" /\ RS!Done(obj) =>
    /\ obj.held \cap {"key", "pub", "priv", "sig"} = (IF "read" \in obj.failed THEN {"key"} ELSE {})
    /\ "rsa" \in obj.held \/ "mpi" \in obj.held => "key" \in obj.failed
    /\ "pk" \in obj.held => obj.call \in {"encrypt_by_str", "decrypt_by_str", "sign_by_str", "verify_by_str"}
    /\ obj.ret = 0 /\ obj.failed # {} => <<obj.call, obj.failed>> \in
         {<<"decrypt_by_str", {"seed"}>>, <<"decrypt_by_str", {"crypt"}>>, <<"generate_by_str", {"pem"}>>,
          <<"generate_by_file", {"write"}>>, <<"generate_by_file", {"priv"}>>, <<"generate_by_file", {"write", "priv"}>>}
    /\ obj.call = "encrypt_by_file" => obj.ret # 0
-----------------------------------------------------------------------------
\* The containers are the sequences, queues, maps and sets their interfaces
\* promise, in memory and in what they answer.
ContainersSound ==
  /\ TypeOK
  /\ SlistIsSequence /\ SplitIsFields /\ RingIsQueue /\ BytesAreSequence /\ KvIsBalancedMap
  /\ MapIsMap /\ SetIsSet /\ StrReplaced /\ BitmapIsSet /\ BloomNoFalseNegative /\ DictIsMap

\* What was recorded is there and is read back, from the log, the database,
\* the ini file and the files, through restarts, crashes, failures and partial calls.
RecordsKept ==
  /\ LogKeepsNewest /\ LogBounded /\ WalkComplete /\ EntriesKept /\ ValueKept
  /\ FileFaithful /\ TreeJudged /\ IniKept

\* What threads and processes share is kept apart: locks exclude, modules are
\* made once, mappings are backed, timers call what they were given, and the
\* list of blocks is exact.
SharedSafe == LocksExclude /\ InitBalanced /\ ShmBacked /\ TimerHonest /\ MleakExact

\* A transfer that reports success made it, and nothing else happened on the
\* way: over FTP, a stream, datagrams or a connecting socket.
TransfersHonest == FtpJudged /\ StreamFaithful /\ UdpAnswers /\ SocketHonest

\* Connections, descriptors, devices, keys and plugins are opened, used and given
\* back by their owner, once, whatever fails in between.
OwnersBalanced == PortOwns /\ AdapterBalanced /\ UartHonest /\ PluginsBalanced /\ IfaceBalanced /\ RsaJudged
=============================================================================
