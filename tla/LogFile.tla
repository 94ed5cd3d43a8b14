------------------------------ MODULE LogFile ------------------------------
(***************************************************************************)
(* wow_log.c: the files of one module of the log.  A log of one file       *)
(* begins with a head that holds the position of the next message and is   *)
(* written over in a circle; a log of several files writes them in turn.   *)
(* A file is a sequence of cells: a message is Len(cells) cells with its   *)
(* number, a head that holds position p is the cell -p, a hole is 0.       *)
(***************************************************************************)
EXTENDS Integers, Sequences, FiniteSetsExt

HEAD == 1                        \* LOG_MAX_FILE_BYTE, one cell here
LOG_MAX_FILE_NUM == 3
LOG_MAX_FILE_SIZE == 5
NULL == -1

log_init(level, size, num) ==
  [def |-> [level |-> level, size |-> size, num |-> num], made |-> FALSE,
   level |-> 0, size |-> 0, num |-> 0, sel |-> 0, pos |-> 0, hfile |-> NULL, disk |-> [i \in {} |-> <<>>]]
\* The process ends and starts again: only the files stay, and the defaults are set again.
log_exit(st) == [log_init(st.def.level, st.def.size, st.def.num) EXCEPT !.disk = st.disk]

Put(data, pos, cells) ==
  [i \in 1 .. Max({Len(data), pos + Len(cells)}) |->
     IF i - pos \in 1 .. Len(cells) THEN cells[i - pos] ELSE IF i <= Len(data) THEN data[i] ELSE 0]
Atoi(cell) == IF cell < 0 THEN -cell ELSE 0
Has(st, f) == f \in DOMAIN st.disk
Save(st, f, data, now) ==
  [st EXCEPT !.disk = [g \in DOMAIN st.disk \cup {f} |-> IF g = f THEN [data |-> data, mtime |-> now] ELSE st.disk[g]]]
Remove(st, f) == [st EXCEPT !.disk = [g \in DOMAIN st.disk \ {f} |-> st.disk[g]]]
\* Opening with O_CREAT makes an empty file where there is none.
Open(st, f, now) == [(IF Has(st, f) THEN st ELSE Save(st, f, <<>>, now)) EXCEPT !.hfile = f]

InitForgetsHead(st, now) == [Save(Open(st, 0, now), 0, <<-HEAD>>, now) EXCEPT !.pos = HEAD]
log_init_one_file(st, now) ==
  LET o == Open(st, 0, now) IN
  IF o.disk[0].data = <<>> THEN [Save(o, 0, <<-HEAD>>, now) EXCEPT !.pos = HEAD]
  ELSE [o EXCEPT !.pos = Atoi(o.disk[0].data[1])]

Existing(st) == {f \in 0 .. st.num - 1 : Has(st, f)}
Newest(st) == {f \in Existing(st) : \A g \in Existing(st) : st.disk[g].mtime <= st.disk[f].mtime}
\* fileSize is not initialised: when no file exists it holds junk.
log_init_mutil_file(st, now, junk) ==
  LET last == IF Existing(st) = {} THEN 0 ELSE Min(Newest(st))
      fileSize == IF Existing(st) = {} THEN junk ELSE Len(st.disk[last].data)
      select == (last + 1) % st.num IN
  IF fileSize > st.size
  THEN [Open(Remove(st, select), select, now) EXCEPT !.pos = 0, !.sel = select]
  ELSE [Open(st, last, now) EXCEPT !.pos = fileSize, !.sel = last]

Opened(st, now, junk) ==
  IF st.hfile # NULL THEN st
  ELSE IF st.num = 1 THEN log_init_one_file(st, now)
  ELSE log_init_mutil_file(st, now, junk)
\* The message is in the file, its head is not written yet.
Content(st, cells, now) ==
  [Save(st, st.hfile, Put(st.disk[st.hfile].data, st.pos, cells), now) EXCEPT !.pos = st.pos + Len(cells)]
WritePos(st, now) ==
  IF st.num = 1 THEN Save(st, st.hfile, Put(st.disk[st.hfile].data, 0, <<-st.pos>>), now) ELSE st
Turn(st, now) ==
  LET sel == (st.sel + 1) % st.num IN
  IF st.pos <= st.size THEN st
  ELSE IF st.num = 1 THEN [st EXCEPT !.pos = HEAD]
  ELSE [Open(Remove(st, sel), sel, now) EXCEPT !.sel = sel, !.pos = 0]
log_write_file(st, cells, now, junk) == Turn(WritePos(Content(Opened(st, now, junk), cells, now), now), now)

log_new_module(st) ==
  IF st.made THEN st
  ELSE [st EXCEPT !.made = TRUE, !.level = st.def.level, !.size = st.def.size, !.num = st.def.num]
log_print(st, lvl, cells, now, junk) ==
  LET n == log_new_module(st) IN
  IF n.level >= lvl THEN log_write_file(n, cells, now, junk) ELSE n
Cut(a, b) == Min({a, b})
wow_log_set_module_file(st, size, num) ==
  [log_new_module(st) EXCEPT !.size = Cut(size, LOG_MAX_FILE_SIZE), !.num = Cut(num, LOG_MAX_FILE_NUM)]
wow_log_set_default_file(st, size, num) ==
  [st EXCEPT !.def.size = Cut(size, LOG_MAX_FILE_SIZE), !.def.num = Cut(num, LOG_MAX_FILE_NUM)]
wow_log_set_module_level(st, level) == [log_new_module(st) EXCEPT !.level = level]
wow_log_set_default_level(st, level) == [st EXCEPT !.def.level = level]
=============================================================================
