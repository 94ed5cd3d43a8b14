------------------------------ MODULE Database ------------------------------
(***************************************************************************)
(* wow_database.c over wow_sqlite.c: one handle keeps one result, either a *)
(* table that exec read at once (tab) or the prepared statement that is    *)
(* being walked (statement); result is TRUE when the walk has taken hold   *)
(* of it.  at[s] is the row statement s stands on, 0 when it is reset, and *)
(* q[s] are the rows its query yields.  A row asked for and not there is   *)
(* the empty sequence.                                                     *)
(***************************************************************************)
EXTENDS Integers, Sequences, SequencesExt, FiniteSetsExt

NULL == "none"

db_sqlite3_init(ss) ==
  [tab |-> <<>>, statement |-> NULL, rid |-> 0, count |-> 0, result |-> FALSE, at |-> [s \in ss |-> 0]]

(* SQLite *)
sqlite3_step(st, s, q) ==
  IF st.at[s] < Len(q[s]) THEN [st |-> [st EXCEPT !.at[s] = @ + 1], ret |-> "ROW"] ELSE [st |-> st, ret |-> "DONE"]
sqlite3_reset(st, s) == [st EXCEPT !.at[s] = 0]

db_sqlite3_result_exit(st) == [st EXCEPT !.tab = <<>>, !.statement = NULL, !.rid = 0, !.count = 0]
db_sqlite3_result_load(st) == st.tab # <<>> \/ st.statement # NULL
\* ok: the statement text could be executed.
db_sqlite3_exec(st, rows, ok) ==
  LET c == db_sqlite3_result_exit(st) IN
  IF ~ok THEN [st |-> c, ret |-> -1]
  ELSE [st |-> IF rows = <<>> THEN c ELSE [c EXCEPT !.tab = rows, !.count = Len(rows)], ret |-> 0]
db_sqlite3_statement_init(st) == db_sqlite3_result_exit(st)
db_sqlite3_statement_exit(st, s) == sqlite3_reset(db_sqlite3_result_exit(st), s)
db_sqlite3_statement_exec(st, s, q) ==
  LET p == sqlite3_step(st, s, q) IN
  IF p.ret = "ROW" THEN [p.st EXCEPT !.statement = s, !.rid = 0, !.count = -1]
  ELSE sqlite3_reset(p.st, s)
\* SQLite refuses to bind a statement that is in the middle of its rows.
db_sqlite3_statement_bind(st, s) == IF st.at[s] = 0 THEN 0 ELSE -1
\* The next row of the result: its number, or -1.
db_sqlite3_result_row_iterator_next(st, q) ==
  LET none == [st |-> st, ret |-> -1]
      step == sqlite3_step(st, st.statement, q) IN
  IF st.tab # <<>>
  THEN IF st.rid < st.count THEN [st |-> [st EXCEPT !.rid = @ + 1], ret |-> st.rid] ELSE none
  ELSE IF st.statement = NULL THEN none
  ELSE IF st.rid = 0 THEN [st |-> [st EXCEPT !.rid = 1], ret |-> 0]
  ELSE IF step.ret = "ROW" THEN [st |-> step.st, ret |-> 0]
  ELSE [st |-> sqlite3_reset(step.st, st.statement), ret |-> -1]
\* A statement that has been reset has no row: its columns are SQLite's NULL (0).
db_sqlite3_result_col_iterator_item(st, q, row) ==
  IF st.tab # <<>> THEN st.tab[row + 1] ELSE IF st.at[st.statement] = 0 THEN 0 ELSE q[st.statement][st.at[st.statement]]

wow_database_exec(st, rows, ok) == db_sqlite3_exec(st, rows, ok)
wow_database_statement_exec(st, s, q) == db_sqlite3_statement_exec([st EXCEPT !.result = FALSE], s, q)
wow_database_result_next(st, q) ==
  LET has == st.result \/ db_sqlite3_result_load(st)
      n == db_sqlite3_result_row_iterator_next(st, q)
      row == db_sqlite3_result_col_iterator_item(n.st, q, n.ret) IN
  IF has /\ n.ret >= 0 /\ (n.ret < st.count \/ st.count = -1)
  THEN [st |-> [n.st EXCEPT !.result = TRUE], ret |-> <<row>>]
  ELSE [st |-> [(IF has THEN n.st ELSE st) EXCEPT !.result = FALSE], ret |-> <<>>]

-----------------------------------------------------------------------------
(***************************************************************************)
(* wow_database_log.c: a log of time-stamped entries, each with data, kept *)
(* in two tables and read through prepared statements that are prepared    *)
(* once.  idx is the index table, pairs of id and time in the order of     *)
(* their ids, data the other, pairs of id and value; par holds the bound   *)
(* parameters.  A call that has not returned after Fuel rounds of its loop *)
(* never does: its loop has come back to where it was.                     *)
(***************************************************************************)

Fuel == 12
NEVER == -8
WILD == -9
Stmts == {"count", "data", "range", "old", "new"}
Ids(st) == {st.idx[i][1] : i \in DOMAIN st.idx}
Times(st) == {st.idx[i][2] : i \in DOMAIN st.idx}
Where(s, P(_)) == SelectSeq(s, P)
\* The rows of each query.
Rows(st) ==
  [s \in Stmts |->
     CASE s = "count" -> <<<<Len(st.idx)>>>>
       [] s = "data" -> Where(st.data, LAMBDA r : r[1] = st.par.data)
       [] s = "range" -> Where(st.idx, LAMBDA r : r[2] \in st.par.range[1] .. st.par.range[2])
       [] s = "old" -> Where(st.idx, LAMBDA r : r[1] = Min({i \in Ids(st) : <<i, Min(Times(st))>> \in ToSet(st.idx)}))
       [] s = "new" -> Where(st.idx, LAMBDA r : r[1] = Max({i \in Ids(st) : <<i, Max(Times(st))>> \in ToSet(st.idx)}))]
Exec(st, s) == [st EXCEPT !.db = wow_database_statement_exec(st.db, s, Rows(st))]
Next(st) == LET n == wow_database_result_next(st.db, Rows(st)) IN [st |-> [st EXCEPT !.db = n.st], ret |-> n.ret]

\* The tables are as an earlier run left them; the count of entries is read back.
wow_sql_log_init(idx, data) ==
  LET st == [db |-> db_sqlite3_init(Stmts), idx |-> idx, data |-> data, cur |-> 0, max |-> 0,
             par |-> [data |-> 0, range |-> <<1, 0>>]]
      n == Next(Exec(st, "count")) IN
  [n.st EXCEPT !.cur = n.ret[1][1]]
wow_sql_log_exit(st) == [idx |-> st.idx, data |-> st.data]
wow_sql_log_SetMaxEntrySize(st, n) == [st EXCEPT !.max = n]

\* Both tables' statements are executed again for as long as that succeeds.
RECURSIVE Oldest(_, _, _)
Oldest(st, s, fuel) == IF fuel = 0 THEN NEVER ELSE Oldest(Next(Exec(st, s)).st, s, fuel - 1)
wow_sql_log_getOldestEntries(st) == Oldest(st, "old", Fuel)
wow_sql_log_getNewestEntries(st) == Oldest(st, "new", Fuel)

wow_sql_log_addEntry(st, t) ==
  LET new == [st EXCEPT !.idx = Append(@, <<1 + Max(Ids(st) \cup {0}), t>>), !.cur = @ + 1] IN
  IF new.cur > new.max THEN [st |-> new, ret |-> wow_sql_log_getOldestEntries(new)]  \* sql_log_deleteOldestEntry
  ELSE [st |-> new, ret |-> new.cur]
wow_sql_log_addEntryData(st, id, v) == [st EXCEPT !.data = Append(@, <<id, v>>)]

\* The callback says stop at its stop-th call.  A row of another statement has no such columns.
RECURSIVE Deliver(_, _, _)
Deliver(st, stop, calls) ==
  LET n == Next(Exec(st, "data")) IN
  IF n.ret = <<>> THEN [st |-> n.st, ret |-> 0, calls |-> calls]
  ELSE IF n.st.db.statement # "data" THEN [st |-> n.st, ret |-> WILD, calls |-> calls]
  ELSE IF Len(calls) + 1 = stop THEN [st |-> n.st, ret |-> 0, calls |-> Append(calls, n.ret[1][2])]
  ELSE IF Len(calls) = Fuel THEN [st |-> n.st, ret |-> NEVER, calls |-> calls]
  ELSE Deliver(n.st, stop, Append(calls, n.ret[1][2]))
wow_sql_log_getEntryData(st, id, stop) ==
  IF db_sqlite3_statement_bind(st.db, "data") # 0 THEN [st |-> st, ret |-> -1, calls |-> <<>>]
  ELSE Deliver([st EXCEPT !.par.data = id], stop, <<>>)

RECURSIVE Entries(_, _, _, _)
Entries(st, stop, calls, fuel) ==
  LET n == Next(Exec(st, "range"))
      d == wow_sql_log_getEntryData(n.st, n.ret[1][1], stop) IN
  IF fuel = 0 THEN [st |-> st, ret |-> NEVER, calls |-> calls]
  ELSE IF n.ret = <<>> THEN [st |-> n.st, ret |-> 0, calls |-> calls]
  ELSE IF n.st.db.statement # "range" \/ d.ret = WILD THEN [st |-> n.st, ret |-> WILD, calls |-> calls]
  ELSE Entries(d.st, stop, calls \o d.calls, fuel - 1)
wow_sql_log_getEntry(st, from, to, stop) ==
  IF db_sqlite3_statement_bind(st.db, "range") # 0 THEN [st |-> st, ret |-> -1, calls |-> <<>>]
  ELSE Entries([st EXCEPT !.par.range = <<from, to>>], stop, <<>>, Fuel)

-----------------------------------------------------------------------------
(***************************************************************************)
(* wow_database_val.c: a value of a row, a type and a union of all         *)
(* representations.  Widths keep their proportions: an int8_t has Int8Bits *)
(* bits, an int16_t twice as many, and so on.  A float is counted in       *)
(* halves.  raw is what the member that was stored holds, unsigned.        *)
(***************************************************************************)

CONSTANT Int8Bits

Ints == {"INT8", "INT16", "INT32", "INT64"}
UInts == {"UINT8", "UINT16", "UINT32", "UINT64"}
Floats == {"FLOAT", "DOUBLE"}
Width(type) == Int8Bits * (CASE type \in {"INT8", "UINT8"} -> 1
                         [] type \in {"INT16", "UINT16"} -> 2
                         [] type \in {"INT32", "UINT32"} -> 4
                         [] OTHER -> 8)
Unsigned(n, type) == n % 2^Width(type)
Signed(n, type) == LET u == Unsigned(n, type) IN IF u < 2^(Width(type) - 1) THEN u ELSE u - 2^Width(type)
As(n, type) == IF type \in Ints THEN Signed(n, type) ELSE IF type \in UInts THEN Unsigned(n, type) ELSE 2 * n
Truncated(halves) == IF halves < 0 THEN -((-halves) \div 2) ELSE halves \div 2

Swap(type) == CASE type = "UINT8" -> "INT8" [] type = "UINT16" -> "INT16" [] type = "UINT32" -> "INT32" [] OTHER -> "INT64"
\* The setters of unsigned numbers store the signed type.
database_value_set(type, n) ==
  [type |-> IF type \in UInts THEN Swap(type) ELSE type,
   raw |-> IF type \in Floats THEN n ELSE Unsigned(n, type)]
\* The member that the type names, as a number.
Member(v) == IF v.type \in Floats THEN Truncated(v.raw) ELSE As(v.raw, v.type)
database_value_int32(v) == Signed(Member(v), "INT32")
database_value_int64(v) == Signed(Member(v), "INT64")
database_value_uint32(v) == Unsigned(Member(v), "UINT32")
database_value_uint64(v) == Unsigned(Member(v), "UINT64")
database_value_int16(v) == Signed(database_value_int32(v), "INT16")
database_value_int8(v) == Signed(database_value_int32(v), "INT8")
database_value_uint16(v) == Unsigned(database_value_uint32(v), "UINT16")
database_value_uint8(v) == Unsigned(database_value_uint32(v), "UINT8")
database_value_double(v) == IF v.type \in Floats THEN v.raw ELSE 2 * As(v.raw, v.type)
database_value_get(v, type) ==
  CASE type = "INT8" -> database_value_int8(v) [] type = "INT16" -> database_value_int16(v)
    [] type = "INT32" -> database_value_int32(v) [] type = "INT64" -> database_value_int64(v)
    [] type = "UINT8" -> database_value_uint8(v) [] type = "UINT16" -> database_value_uint16(v)
    [] type = "UINT32" -> database_value_uint32(v) [] type = "UINT64" -> database_value_uint64(v)
    [] OTHER -> database_value_double(v)
\* What a statement is bound to, and what the column gives back: a number of the widest type.
db_sqlite3_bind_value(v) ==
  CASE v.type \in {"INT64", "UINT64"} -> database_value_int64(v)
    [] v.type \in Floats -> database_value_double(v)
    [] OTHER -> database_value_int32(v)
db_sqlite3_column(v) ==
  database_value_set(IF v.type \in Floats THEN "DOUBLE" ELSE "INT64", db_sqlite3_bind_value(v))
=============================================================================
