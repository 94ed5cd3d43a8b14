-------------------------------- MODULE Ini ---------------------------------
(***************************************************************************)
(* The ini files of iniparser.c and wow_ini.c, over the dictionary of      *)
(* dictionary.c.  A text is a sequence of words and signs: " " stands for  *)
(* a run of blanks, ";" for both signs that start a comment; the words "A" *)
(* and "K" are "a" and "k" in capitals.  Each counts as one byte of the    *)
(* line.  A file is its lines, and whether the last ends with a newline.   *)
(***************************************************************************)
EXTENDS Integers, Sequences, SequencesExt, FiniteSetsExt

CONSTANTS ASCIILINESZ,                  \* signs a line has room for: 1024 in the code
          DICTMINSZ, HashSize, Grow

NULL == <<"NULL">>
INI_INVALID_KEY == <<"INVALID">>
WILD == -2                              \* a NULL text is read

D == INSTANCE Hashes WITH NoKey <- NULL, UNDEF <- NULL
\* Texts of the same length collide.
dictionary_hash == [k \in Seq(STRING) |-> Len(k)]

strlwc(s) == [i \in DOMAIN s |-> CASE s[i] = "A" -> "a" [] s[i] = "K" -> "k" [] OTHER -> s[i]]
Words(s) == {i \in DOMAIN s : s[i] # " "}
strstrip(s) == IF Words(s) = {} THEN <<>> ELSE SubSeq(s, Min(Words(s)), Max(Words(s)))
Rtrim(s) == IF Words(s) = {} THEN <<>> ELSE SubSeq(s, 1, Max(Words(s)))

\* What "%[^...]" of scanf takes, and what it leaves.
Run(s, stop) == LET at == {i \in DOMAIN s : s[i] \in stop} IN IF at = {} THEN s ELSE SubSeq(s, 1, Min(at) - 1)
Rest(s, n) == SubSeq(s, n + 1, Len(s))

-----------------------------------------------------------------------------
(* Reading.                                                                *)

\* The text behind "key =": quoted, up to a comment, or nothing.
Value(s) ==
  LET Quoted(q) == IF s # <<>> /\ s[1] = q THEN Run(Tail(s), {q}) ELSE <<>>
      bare == strstrip(Run(s, {";"})) IN
  CASE Quoted("\"") # <<>> -> strstrip(Quoted("\""))
    [] Quoted("\"") = <<>> /\ Quoted("'") # <<>> -> strstrip(Quoted("'"))
    [] OTHER -> IF bare \in {<<"\"", "\"">>, <<"'", "'">>} THEN <<>> ELSE bare

iniparser_line(text, section) ==
  LET line == strstrip(text)
      name == Run(Tail(line), {"]"})
      key == Run(line, {"="}) IN
  CASE line = <<>> -> [sta |-> "LINE_EMPTY"]
    [] line # <<>> /\ line[1] = ";" -> [sta |-> "LINE_COMMENT"]
    [] line # <<>> /\ line[1] = "[" /\ Last(line) = "]" ->
         [sta |-> "LINE_SECTION", section |-> IF name = <<>> THEN section ELSE strlwc(strstrip(name))]
    [] line # <<>> /\ line[1] \notin {";", "="} /\ (line[1] = "[" => Last(line) # "]") /\ key # line ->
         [sta |-> "LINE_VALUE", key |-> strlwc(strstrip(key)), value |-> Value(strstrip(Rest(line, Len(key) + 1)))]
    [] OTHER -> [sta |-> "LINE_ERROR"]

Set(w, k, v) == LET s == D!dictionary_set(w.d, dictionary_hash, k, v) IN [w EXCEPT !.d = s.st, !.errs = s.ret]

\* The switch of iniparser_load.  A line that is set clears the count of errors.
Take(w, l) ==
  CASE l.sta = "LINE_SECTION" -> [Set(w, l.section, NULL) EXCEPT !.section = l.section]
    [] l.sta = "LINE_VALUE" -> Set(w, w.section \o <<":">> \o l.key, l.value)
    [] l.sta = "LINE_ERROR" -> [w EXCEPT !.errs = @ + 1]
    [] OTHER -> w

\* One line of the file, behind the one that ended with a backslash (text).
\* When a line is blanks only, the sign before the buffer is read.
ReadLine(w, l, nl) ==
  LET raw == w.text \o l
      body == Rtrim(raw) IN
  IF w.long \/ Len(raw) = (IF nl THEN 0 ELSE 1) THEN w
  ELSE IF ~nl \/ Len(raw) + 2 > ASCIILINESZ THEN [w EXCEPT !.long = TRUE]
  ELSE IF body # <<>> /\ Last(body) = "\\" THEN [w EXCEPT !.text = Front(body)]
  ELSE [Take(w, iniparser_line(body, w.section)) EXCEPT !.text = <<>>, !.wild = @ \/ body = <<>>]

iniparser_load(file) ==
  LET n == Len(file.lines)
      w == FoldLeft(LAMBDA x, i : ReadLine(x, file.lines[i], i < n \/ file.nl),
                    [d |-> D!dictionary_new(0), section |-> <<>>, text |-> <<>>, errs |-> 0, long |-> FALSE, wild |-> FALSE],
                    [i \in 1 .. n |-> i]) IN
  [d |-> w.d, ok |-> ~w.long /\ w.errs = 0, wild |-> w.wild]
wow_ini_init(file) == iniparser_load(file)

-----------------------------------------------------------------------------
(* The entries, and writing them.                                          *)

Entries(d) == SelectSeq([i \in 1 .. d.size |-> d.slots[i - 1]], LAMBDA s : s.key # NULL)
Sections(d) == SelectSeq(Entries(d), LAMBDA s : ":" \notin ToSet(s.key))
iniparser_getnsec(d) == Len(Sections(d))
iniparser_getsecname(d, n) == Sections(d)[n + 1].key

iniparser_getstring(d, key, def) == D!dictionary_get(d, dictionary_hash, strlwc(key), def)
iniparser_find_entry(d, entry) == iniparser_getstring(d, entry, INI_INVALID_KEY) # INI_INVALID_KEY
iniparser_getseckeys(d, s) ==
  IF iniparser_find_entry(d, s) THEN SelectSeq(Entries(d), LAMBDA e : IsPrefix(s \o <<":">>, e.key)) ELSE <<>>
iniparser_getsecnkeys(d, s) == Len(iniparser_getseckeys(d, s))

Line(key, val) == key \o <<" ", "=", " ">> \o val
iniparser_dumpsection_ini(d, s) ==
  LET Item(e) == Line(Rest(e.key, Len(s) + 1), IF e.val = NULL THEN <<>> ELSE e.val)
      keys == iniparser_getseckeys(d, s) IN
  IF iniparser_find_entry(d, s) THEN << <<>>, <<"[">> \o s \o <<"]">> >> \o [i \in DOMAIN keys |-> Item(keys[i])] \o << <<>> >>
  ELSE <<>>
iniparser_dump_ini(d) ==
  LET all == Entries(d) IN
  IF iniparser_getnsec(d) < 1
  THEN [i \in DOMAIN all |-> Line(all[i].key, IF all[i].val = NULL THEN <<"(null)">> ELSE all[i].val)]
  ELSE FlattenSeq([n \in 1 .. iniparser_getnsec(d) |-> iniparser_dumpsection_ini(d, iniparser_getsecname(d, n - 1))]) \o << <<>> >>
wow_ini_save(d) == [lines |-> iniparser_dump_ini(d), nl |-> TRUE]

wow_ini_set_string(d, key, val) == D!dictionary_set(d, dictionary_hash, strlwc(key), val)
wow_ini_del(d, key) == D!dictionary_unset(d, dictionary_hash, strlwc(key))

-----------------------------------------------------------------------------
(* The getters: 0 or an error, and the value.  The value that means "not   *)
(* found" may be in the file as well.  Reals are in hundredths.            *)

Failed == [ret |-> -1, val |-> 0]
Number(s) == CASE s = <<"7">> -> 7 [] s = <<"-13765">> -> -13765 [] s = <<"-137.65">> -> -137 [] OTHER -> 0
Hundredths(s) == IF s = <<"-137.65">> THEN -13765 ELSE 100 * Number(s)
iniparser_getboolean(s, notfound) ==
  CASE s # <<>> /\ s[1] \in {"y", "true", "1"} -> 1 [] s # <<>> /\ s[1] \in {"n", "false", "0"} -> 0 [] OTHER -> notfound

\* x is what the text of the key converts to, none what a missing key does.
Got(s, x, none) ==
  IF s = NULL THEN [ret |-> WILD, val |-> 0]
  ELSE IF s = INI_INVALID_KEY \/ x = none THEN Failed ELSE [ret |-> 0, val |-> x]
Text(d, key) == iniparser_getstring(d, key, INI_INVALID_KEY)
wow_ini_get_int(d, key) == Got(Text(d, key), Number(Text(d, key)), -13765)
wow_ini_get_double(d, key) == Got(Text(d, key), Hundredths(Text(d, key)), -13765)
wow_ini_get_bool(d, key) == Got(Text(d, key), iniparser_getboolean(Text(d, key), -1), -1)
wow_ini_get_string(d, key) ==
  LET s == iniparser_getstring(d, key, NULL) IN IF s = NULL THEN Failed ELSE [ret |-> 0, val |-> s]
=============================================================================
