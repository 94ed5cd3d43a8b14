------------------------------- MODULE Strings -------------------------------
(***************************************************************************)
(* The string helpers of wow_str.c and the growing string of wow_string.c. *)
(* A text is a sequence of characters, without its end.  The buffer of a   *)
(* growing string is a sequence of capicity characters, NUL where the code *)
(* cleared it.                                                             *)
(***************************************************************************)
LOCAL INSTANCE Integers
LOCAL INSTANCE Sequences
LOCAL INSTANCE SequencesExt

CONSTANT DEFALUT_STRING_SZIE

From(s, k) == SubSeq(s, k, Len(s))
\* strstr: the first place of p in s, 0 for none.
Strstr(s, p) ==
  LET at == {k \in 1 .. Len(s) - Len(p) + 1 : SubSeq(s, k, k + Len(p) - 1) = p}
  IN  IF at = {} THEN 0 ELSE CHOOSE k \in at : \A j \in at : k <= j

\* strsep cuts at every single delimiter: two next to each other enclose an
\* empty field, and so do the ends of the text.
wow_str_split(s, delims) ==
  FoldLeft(LAMBDA f, c : IF c \in delims THEN Append(f, <<>>)
                         ELSE [f EXCEPT ![Len(f)] = Append(@, c)], << <<>> >>, s)

\* The arguments after the first; NULL ones are passed over.
NULL == <<"null">>
wow_str_combine(str1, more) ==
  IF str1 = <<>> THEN [ok |-> FALSE, str |-> <<>>]
  ELSE [ok |-> TRUE, str |-> FoldLeft(LAMBDA r, t : IF t = NULL THEN r ELSE r \o t, str1, more)]

wow_str_has_suffix(s, t) == Len(s) >= Len(t) /\ From(s, Len(s) - Len(t) + 1) = t
wow_str_has_prefix(s, t) == Len(s) >= Len(t) /\ SubSeq(s, 1, Len(t)) = t

\* The growth of the buffer by halves until it is large enough.  From size
\* 0 it never is: 1.5 * 0 = 0.
RECURSIVE Grown(_, _)
Grown(old, size) == IF old < size THEN Grown((3 * old) \div 2, size) ELSE old
getLen(old, size) == Grown(IF old = 1 THEN 2 ELSE old, size)
NeverLong(cur, size) == cur = 0 /\ size > 0

\* b is the buffer: what has been written and its size as the code counts it.
ensureSpace(cur, size) == IF cur < size THEN getLen(cur, size) ELSE cur

\* hang: the call does not return (an empty text, or an empty pattern, which
\* is found at every place again).  fits: no write went past the buffer.
RECURSIVE Replaced(_, _, _, _, _, _)
Replaced(s, pat, rep, dest, cur, fits) ==
  LET p == Strstr(s, pat)
      add == IF p = 0 THEN s ELSE SubSeq(s, 1, p - 1) \o rep
      size == Len(dest) + Len(add) + 1
      now == ensureSpace(cur, size)
  IN  IF p = 0 THEN [hang |-> FALSE, str |-> dest \o add, fits |-> fits /\ size <= now]
      ELSE Replaced(From(s, p + Len(pat)), pat, rep, dest \o add, now, fits /\ size <= now)
wow_str_replace(s, pat, rep) ==
  IF pat = <<>> \/ NeverLong(Len(s), 1) THEN [hang |-> TRUE, str |-> <<>>, fits |-> TRUE]
  ELSE Replaced(s, pat, rep, <<>>, Len(s), TRUE)

-----------------------------------------------------------------------------
(* String_T *)
NUL == "nul"
Zeros(n) == [i \in 1 .. n |-> NUL]
wow_string_new == [size |-> 0, data |-> Zeros(DEFALUT_STRING_SZIE), ok |-> TRUE]

string_resize(st, cap) == [st EXCEPT !.data = SubSeq(@ \o Zeros(cap), 1, cap)]

\* Writes of src at place p (from 0); ok falls when one goes past the buffer.
Write(st, p, src) ==
  [st EXCEPT !.ok = @ /\ p + Len(src) <= Len(st.data),
             !.data = [i \in DOMAIN @ |-> IF i \in p + 1 .. p + Len(src) THEN src[i - p] ELSE @[i]]]
Clear(st, p, n) == Write(st, p, Zeros(n))
\* memmove of n characters from place p to the start.
Move(st, p, n) ==
  [Write(st, 0, SubSeq(st.data \o Zeros(n), p + 1, p + n)) EXCEPT !.ok = st.ok /\ p + n <= Len(st.data)]

wow_string_left(st, n) ==
  IF n > 0 /\ st.size > n THEN [Clear(st, n, st.size - n) EXCEPT !.size = n] ELSE st
wow_string_right(st, n) ==
  IF n > 0 /\ st.size > n
  THEN [Clear(Move(st, st.size - n, n), n, st.size - n) EXCEPT !.size = n] ELSE st
\* The move takes size - snLen characters where snLen are wanted, and the
\* other branch clears from snLen on.
wow_string_mid(st, k, n) ==
  IF n = 0 \/ k >= st.size THEN st
  ELSE IF st.size > n + k
  THEN [Clear(Move(st, k, st.size - n), n, st.size - n) EXCEPT !.size = n]
  ELSE [Clear(Move(st, k, st.size - k), n, st.size - k) EXCEPT !.size = st.size - k]

wow_string_append_data(st, t) ==
  LET cap == Len(st.data)
      grown == IF st.size + Len(t) < cap THEN st
               ELSE string_resize(st, IF Len(t) > cap THEN cap + Len(t) ELSE 2 * cap)
  IN  [Write(grown, st.size, t) EXCEPT !.size = st.size + Len(t)]
wow_string_append_string(st, add) ==
  LET cap == Len(st.data)
      grown == IF add.size < cap - st.size THEN st ELSE string_resize(st, Len(add.data) + cap)
  IN  [Write(grown, st.size, SubSeq(add.data, 1, add.size)) EXCEPT !.size = st.size + add.size]

\* The text as C sees it: up to the first NUL; "open" when there is none.
wow_string_data(st) ==
  LET z == SelectInSeq(st.data, LAMBDA c : c = NUL)
  IN  IF z = 0 THEN [open |-> TRUE, str |-> st.data] ELSE [open |-> FALSE, str |-> SubSeq(st.data, 1, z - 1)]

\* Found only if the searched text is shorter than the string.
wow_string_str(st, t) == IF Len(t) >= st.size THEN 0 ELSE Strstr(wow_string_data(st).str, t)
\* strncmp over the length of the other text: 0 when the string starts with it.
wow_string_cmp(st, t) == wow_str_has_prefix(wow_string_data(st).str, t)
=============================================================================
