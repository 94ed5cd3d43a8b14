------------------------------- MODULE Files -------------------------------
(***************************************************************************)
(* wow_hfile.c over hfile/io.c and hfile/fio.c, wow_file.c and wow_dir.c.  *)
(* An open file is [ctx, fl, disk, pos, pend]: the backend, the rights its *)
(* mode gives it, what is on the disk, the place of the next access and    *)
(* what the stream has been given and not written yet (always empty for    *)
(* the system calls).  A tree of files maps each path, a sequence of       *)
(* names, to DIR or to the content of the file.                            *)
(***************************************************************************)
EXTENDS Integers, Sequences, SequencesExt, FiniteSetsExt

MAX_RETRY_CNT == 3
BUFSIZ == 2             \* what a stream holds back
STEP == 2               \* 1024*1024 bytes of one call

Fl(r, w, creat, trunc, app) == [r |-> r, w |-> w, creat |-> creat, trunc |-> trunc, app |-> app]
io_flags(mode) ==
  CASE mode = "RDONLY" -> Fl(TRUE, FALSE, FALSE, FALSE, FALSE)
    [] mode = "WRONLY" -> Fl(FALSE, TRUE, FALSE, FALSE, FALSE)
    [] mode = "RDWR" -> Fl(TRUE, TRUE, FALSE, FALSE, FALSE)
    [] mode = "CREATE" -> Fl(TRUE, TRUE, TRUE, FALSE, FALSE)
    [] mode = "WRCLEAR" -> Fl(FALSE, TRUE, TRUE, TRUE, FALSE)
    [] OTHER -> Fl(TRUE, TRUE, FALSE, FALSE, TRUE)
fio_flags(mode) ==
  CASE mode = "RDONLY" -> Fl(TRUE, FALSE, FALSE, FALSE, FALSE)
    [] mode = "WRONLY" -> Fl(FALSE, TRUE, TRUE, TRUE, FALSE)
    [] mode = "RDWR" -> Fl(TRUE, TRUE, FALSE, FALSE, FALSE)
    [] mode = "WRCLEAR" -> Fl(TRUE, TRUE, TRUE, TRUE, FALSE)
    [] OTHER -> Fl(TRUE, TRUE, TRUE, FALSE, TRUE)
\* here: the file exists.  An empty result: it could not be opened.
wow_hfile_open(ctx, mode, here, data) ==
  LET fl == IF ctx = "io" THEN io_flags(mode) ELSE fio_flags(mode) IN
  IF ~here /\ ~fl.creat THEN <<>>
  ELSE <<[ctx |-> ctx, fl |-> fl, disk |-> IF here /\ ~fl.trunc THEN data ELSE <<>>, pos |-> 0, pend |-> <<>>]>>

Place(data, pos, cells) ==
  IF cells = <<>> THEN data
  ELSE [i \in 1 .. Max({Len(data), pos + Len(cells)}) |->
          IF i - pos \in 1 .. Len(cells) THEN cells[i - pos] ELSE IF i <= Len(data) THEN data[i] ELSE 0]
Written(f, cells) ==
  LET at == IF f.fl.app THEN Len(f.disk) ELSE f.pos IN
  [f EXCEPT !.disk = Place(@, at, cells), !.pos = IF cells = <<>> THEN @ ELSE at + Len(cells)]

\* Every course of the loop of calls: the kernel moves some of the step asked
\* for, is interrupted, or fails.  moved: how much of the data has gone.
RECURSIVE Calls(_, _, _)
Calls(left, cnt, avail) ==
  IF left = 0 THEN {<<>>}
  ELSE {<<>>}
       \cup (IF cnt < MAX_RETRY_CNT THEN Calls(left, cnt + 1, avail) ELSE {})
       \cup UNION {{<<n>> \o c : c \in Calls(left - n, cnt, avail - n)} : n \in 1 .. Min({left, STEP, avail})}
Total(c) == FoldLeft(LAMBDA a, n : a + n, 0, c)
\* Each call takes up where the one before stopped.
RECURSIVE Chunks(_, _, _)
Chunks(f, buf, c) ==
  IF c = <<>> THEN f ELSE Chunks(Written(f, SubSeq(buf, 1, c[1])), SubSeq(buf, c[1] + 1, Len(buf)), Tail(c))
io_write(f, buf) ==
  IF ~f.fl.w THEN {[st |-> f, ret |-> 0]}
  ELSE {[st |-> Chunks(f, buf, c), ret |-> Total(c)] : c \in Calls(Len(buf), 0, Len(buf))}
Left(f) == Max({0, Len(f.disk) - f.pos})
io_read(f, n) ==
  IF ~f.fl.r THEN {[st |-> f, ret |-> <<>>]}
  ELSE {[st |-> [f EXCEPT !.pos = @ + Total(c)], ret |-> SubSeq(f.disk, f.pos + 1, f.pos + Total(c))] :
          c \in Calls(n, 0, Min({n, Left(f)}))}
\* It moves whatever the origin, and says 0 only if the new place is the offset.
io_seek(f, off, origin) ==
  [st |-> [f EXCEPT !.pos = origin + off], ret |-> IF origin + off = off THEN 0 ELSE -1]
io_size(f) == Len(f.disk)

(* The stream of the C library *)
fflush(f) == [Written(f, f.pend) EXCEPT !.pend = <<>>]
fio_write(f, buf) ==
  LET held == [f EXCEPT !.pend = @ \o buf] IN
  IF ~f.fl.w THEN [st |-> f, ret |-> 0]
  ELSE [st |-> IF Len(held.pend) > BUFSIZ THEN fflush(held) ELSE held, ret |-> Len(buf)]
fio_read(f, n) ==
  LET k == Min({n, Left(f)}) IN
  IF ~f.fl.r THEN [st |-> f, ret |-> <<>>] ELSE [st |-> [f EXCEPT !.pos = @ + k], ret |-> SubSeq(f.disk, f.pos + 1, f.pos + k)]
fio_seek(f, off, origin) == [st |-> [fflush(f) EXCEPT !.pos = origin + off], ret |-> 0]
\* The size is the place of the end; the place is put back.
fio_size(f) == LET g == fflush(f) IN [st |-> g, ret |-> Len(g.disk)]
fio_sync(f) == fflush(f)
fio_close(f) == fflush(f).disk
-----------------------------------------------------------------------------
DIR == <<"dir">>
Has(fs, p) == p \in DOMAIN fs
IsDir(fs, p) == p = <<>> \/ (Has(fs, p) /\ fs[p] = DIR)
With(fs, p, what) == [q \in DOMAIN fs \cup {p} |-> IF q = p THEN what ELSE fs[q]]
Below(fs, p) == {q \in DOMAIN fs : IsPrefix(p, q)}
But(fs, gone) == [q \in DOMAIN fs \ gone |-> fs[q]]
wow_dir_is_dir(fs, p) == IF Has(fs, p) /\ fs[p] = DIR THEN 1 ELSE 0
wow_file_is_file(fs, p) == IF Has(fs, p) /\ fs[p] # DIR THEN 1 ELSE 0
wow_path_is_dir(fs, p) == IF Has(fs, p) THEN wow_dir_is_dir(fs, p) ELSE -1
wow_file_check_exist(fs, p) == IF Has(fs, p) THEN 1 ELSE 0

\* What is there already is as good as made, whatever it is.
mkdir(fs, p) ==
  IF Has(fs, p) THEN [fs |-> fs, ret |-> 0]
  ELSE IF IsDir(fs, Front(p)) THEN [fs |-> With(fs, p, DIR), ret |-> 0] ELSE [fs |-> fs, ret |-> -1]
wow_dir_create(fs, p) ==
  FoldLeft(LAMBDA a, n : IF a.ret = 0 THEN mkdir(a.fs, SubSeq(p, 1, n)) ELSE a, [fs |-> fs, ret |-> 0], [n \in 1 .. Len(p) |-> n])

\* The entries come in any order, and one of them, stuck, cannot be removed.
\* open counts the directory streams that are never closed.
RECURSIVE wow_dir_remove(_, _, _)
RECURSIVE Entries(_, _, _, _)
wow_dir_remove(fs, p, stuck) ==
  IF ~IsDir(fs, p) THEN {[fs |-> fs, ret |-> -1, open |-> 0]}
  ELSE Entries(fs, p, stuck, {q \in Below(fs, p) : Len(q) = Len(p) + 1})
Entries(fs, p, stuck, todo) ==
  IF todo = {} THEN {IF p = stuck THEN [fs |-> fs, ret |-> -1, open |-> 0] ELSE [fs |-> But(fs, {p}), ret |-> 0, open |-> 0]}
  ELSE UNION {LET one == IF fs[q] = DIR THEN wow_dir_remove(fs, q, stuck)
                         ELSE {IF q = stuck THEN [fs |-> fs, ret |-> -1, open |-> 0] ELSE [fs |-> But(fs, {q}), ret |-> 0, open |-> 0]} IN
              UNION {IF r.ret # 0 THEN {[r EXCEPT !.ret = -1, !.open = @ + 1]} ELSE Entries(r.fs, p, stuck, todo \ {q}) : r \in one} : q \in todo}

\* The directories are made, whether that fails or not, and the file emptied.
wow_file_create(fs, p) ==
  LET d == IF Len(p) > 1 THEN wow_dir_create(fs, Front(p)).fs ELSE fs IN
  IF IsDir(d, Front(p)) /\ ~IsDir(d, p) THEN [fs |-> With(d, p, <<>>), ret |-> 0] ELSE [fs |-> d, ret |-> -1]
wow_file_remove(fs, p) ==
  IF Has(fs, p) /\ Below(fs, p) = {p} THEN [fs |-> But(fs, {p}), ret |-> 0] ELSE [fs |-> fs, ret |-> -1]
wow_file_size(fs, p) == IF Has(fs, p) THEN Len(fs[p]) ELSE -1
wow_file_line_num(fs, p) == IF Has(fs, p) THEN Cardinality({i \in DOMAIN fs[p] : fs[p][i] = "n"}) ELSE -1
wow_file_info(fs, p) == IF Has(fs, p) THEN <<IF fs[p] = DIR THEN "FILE_DIR" ELSE "FILE_REG", Len(fs[p])>> ELSE <<>>
\* A file only, over a file or nothing.
wow_file_rename(fs, p, q) ==
  IF Has(fs, p) /\ fs[p] # DIR /\ ~IsDir(fs, q) /\ IsDir(fs, Front(q))
  THEN [fs |-> IF p = q THEN fs ELSE With(But(fs, {p}), q, fs[p]), ret |-> 0] ELSE [fs |-> fs, ret |-> -1]
\* The streams are closed inside the loop: equal first blocks are followed by
\* a read of a closed stream (2, no outcome the code defines).
wow_file_compare(fs, p, q) ==
  LET a == SubSeq(fs[p], 1, Min({STEP, Len(fs[p])}))
      b == SubSeq(fs[q], 1, Min({STEP, Len(fs[q])})) IN
  IF ~Has(fs, p) \/ ~Has(fs, q) THEN -1
  ELSE IF Len(a) # Len(b) THEN 1 ELSE IF a = <<>> THEN 0 ELSE IF a = b THEN 2 ELSE 1
\* The names are put right behind the path given: joined tells whether it ended in a slash.
wow_dir_fileList(fs, p, slash) ==
  {[dir |-> p, joined |-> slash, name |-> Last(q)] : q \in {q \in Below(fs, p) : Len(q) = Len(p) + 1 /\ fs[q] # DIR}}
=============================================================================
