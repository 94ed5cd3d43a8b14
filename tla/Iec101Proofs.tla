---------------------------- MODULE Iec101Proofs ----------------------------
(***************************************************************************)
(* SidesAgree and CommandsSafe of IEC 101, for any sub-lists, any calls    *)
(* and any line.                                                           *)
(*                                                                         *)
(* Nothing in a frame says what an acknowledgement is for, so the two      *)
(* sides are compared by what is on the line: a frame that will count      *)
(* against the slave's account is counted while it travels (TermsPaid,     *)
(* CommandsPaid), an answer to the request for the link status is there    *)
(* only once the slave is connected (Connected), every single command on   *)
(* the line carries its point (the frames of Line), and a machine of the   *)
(* slave that may acknowledge has its copy (Backed).                       *)
(***************************************************************************)
EXTENDS Iec101, SequenceTheorems, FiniteSetTheorems, TLAPS

Asdus == [f : {68}, fn : {"DATA"}, ty : AsduTypes, cot : Reasons, sel : BOOLEAN, obj : Seq(Objects)]

(* What may travel: a single command of one object is intact.              *)
Intact == {fr \in Asdus : fr.ty = "C_SC" /\ Len(fr.obj) = 1 => fr.obj[1] = "point"}
Line == {Fixed(fn) : fn \in FixedFuncs} \cup Intact

LinkStatus == Fixed("RES_LINK_STATUS")
Terms == {fr \in Intact : fr.ty \in {"C_IC", "M_IT"} /\ fr.cot = "ACTTERM"}
Acks == {fr \in Intact : fr.ty = "C_SC" /\ fr.cot = "ACTCON" /\ Len(fr.obj) = 1}
Execs == {fr \in Intact : fr.ty = "C_SC" /\ ~fr.sel /\ Len(fr.obj) = 1}
Copied(ty) == {fr \in Intact : fr.ty = ty}

(* The frames of a queue that belong to S.                                 *)
Count(q, S) == Cardinality({i \in 1 .. Len(q) : q[i] \in S})

Up == {"CONNECT_OK", "IDLE"}

Backed(st, bak) ==
  /\ st.yk \in {"START", "CONFIRM", "SUCCESS"} => bak.yk \in Copied("C_SC")
  /\ st.yt \in {"START", "CONFIRM", "EXEC", "SUCCESS"} => bak.yt \in Copied("C_SE")

Owed(st) == IF st.callall = "SUCCESS" THEN 1 ELSE 0

Typed ==
  /\ m \in Stations /\ m_app \in MasterOps \cup {"none"}
  /\ m_cmds \in 0 .. MaxCmds /\ m_yt \in 0 .. MaxYt
  /\ s \in Stations /\ s_spon \in 0 .. MaxSpon
  /\ s_bak = [yk |-> s_bak.yk, yt |-> s_bak.yt]
  /\ \A k \in {"yk", "yt"} : s_bak[k] \in Intact \cup {NoCopy}
  /\ down \in Seq(Line) /\ up \in Seq(Line)
  /\ lost \in 0 .. MaxLoss /\ beats \in 0 .. MaxBeats
  /\ told.yk \in Int /\ told.call \in Int

Connected == m.init \in Up \/ Count(up, {LinkStatus}) > 0 => s.init \in Up
TermsPaid == told.call >= Count(up, Terms) + Owed(m)
CommandsPaid == told.yk >= Count(up, Acks) + Count(down, Execs)
Whole == told = [yk |-> told.yk, call |-> told.call, damaged |-> FALSE]
Silent == s.callpulse = "IDLE"

LineInv == Typed /\ Connected /\ TermsPaid /\ CommandsPaid /\ Whole /\ Silent /\ Backed(s, s_bak)
-----------------------------------------------------------------------------
(* Counting.                                                               *)
Marked(q, S) == {i \in 1 .. Len(q) : q[i] \in S}

LEMMA CountFinite ==
  ASSUME NEW T, NEW q \in Seq(T), NEW S
  PROVE  IsFiniteSet(Marked(q, S)) /\ Count(q, S) = Cardinality(Marked(q, S)) /\ Count(q, S) \in Nat
<1>1. IsFiniteSet(1 .. Len(q)) /\ Marked(q, S) \in SUBSET (1 .. Len(q))
  BY FS_Interval, LenProperties DEF Marked
<1>2. IsFiniteSet(Marked(q, S))
  BY <1>1, FS_Subset
<1>3. QED
  BY <1>2, FS_CardinalityType DEF Count, Marked

LEMMA CountNone ==
  ASSUME NEW T, NEW q \in Seq(T), NEW S, \A i \in 1 .. Len(q) : q[i] \notin S
  PROVE  Count(q, S) = 0
<1>1. Marked(q, S) = {}
  BY DEF Marked
<1>2. QED
  BY <1>1, CountFinite, FS_EmptySet

LEMMA CountConcat ==
  ASSUME NEW T, NEW q \in Seq(T), NEW r \in Seq(T), NEW S
  PROVE  Count(q \o r, S) = Count(q, S) + Count(r, S)
<1> DEFINE n == Len(q)
           A == Marked(q, S)
           B == Marked(r, S)
           D == {j \in n + 1 .. n + Len(r) : (q \o r)[j] \in S}
<1>1. n \in Nat /\ Len(r) \in Nat /\ Len(q \o r) = n + Len(r) /\ q \o r \in Seq(T)
  BY LenProperties, ConcatProperties
<1>2. /\ \A j \in 1 .. n : (q \o r)[j] = q[j]
      /\ \A j \in 1 .. Len(r) : (q \o r)[n + j] = r[j]
  BY <1>1, ConcatProperties
<1>3. Marked(q \o r, S) = A \cup D /\ A \cap D = {}
  BY <1>1, <1>2 DEF Marked
<1>4. IsFiniteSet(A) /\ IsFiniteSet(B) /\ Cardinality(B) = Count(r, S) /\ Cardinality(A) = Count(q, S)
  BY CountFinite
<1>5. ExistsBijection(B, D)
  <2> DEFINE f == [j \in B |-> n + j]
  <2>1. \A j \in B : j \in 1 .. Len(r) /\ n + j \in D
    BY <1>1, <1>2 DEF Marked
  <2>2. \A d \in D : d - n \in B /\ n + (d - n) = d
    BY <1>1, <1>2 DEF Marked
  <2>3. f \in [B -> D] /\ \A a, b \in B : f[a] = f[b] => a = b
    BY <1>1, <2>1
  <2>4. \A d \in D : \E j \in B : f[j] = d
    BY <2>2
  <2>5. f \in Bijection(B, D)
    BY <2>3, <2>4 DEF Bijection, Injection, Surjection, IsInjective
  <2>6. QED
    BY <2>5 DEF ExistsBijection
<1>6. IsFiniteSet(D) /\ Cardinality(D) = Cardinality(B)
  BY <1>4, <1>5, FS_Bijection
<1>7. Count(q \o r, S) = Cardinality(A \cup D)
  BY <1>1, <1>3, CountFinite
<1> HIDE DEF A, B, D, n
<1>8. Cardinality(A \cup D) = Cardinality(A) + Cardinality(D)
  <2>1. Cardinality(A \cup D) = Cardinality(A) + Cardinality(D) - Cardinality(A \cap D)
    BY <1>4, <1>6, FS_Union
  <2>2. Cardinality(A \cap D) = 0
    BY <1>3, FS_EmptySet
  <2>3. Cardinality(A) \in Nat /\ Cardinality(D) \in Nat
    BY <1>4, <1>6, FS_CardinalityType
  <2>4. QED
    BY <2>1, <2>2, <2>3
<1>9. QED
  BY <1>4, <1>6, <1>7, <1>8

LEMMA CountOne ==
  ASSUME NEW T, NEW q \in Seq(T), Len(q) = 1, NEW S
  PROVE  /\ q[1] \in S => Count(q, S) = 1
         /\ q[1] \notin S => Count(q, S) = 0
<1>1. CASE q[1] \in S
  <2>1. Marked(q, S) = {1}
    BY <1>1 DEF Marked
  <2>2. Count(q, S) = Cardinality({1})
    BY <2>1, CountFinite
  <2>3. QED
    BY <1>1, <2>2, FS_Singleton
<1>2. CASE q[1] \notin S
  <2>1. \A i \in 1 .. Len(q) : q[i] \notin S
    BY <1>2
  <2>2. QED
    BY <1>2, <2>1, CountNone
<1>3. QED
  BY <1>1, <1>2

LEMMA Singletons ==
  ASSUME NEW T, NEW f \in T
  PROVE  \E q \in Seq(T) : q = <<f>> /\ Len(q) = 1 /\ q[1] = f
<1>1. <<f>> \in Seq(T) /\ Len(<<f>>) = 1 /\ <<f>>[1] = f
  OBVIOUS
<1>2. QED
  BY <1>1, Zenon

LEMMA CountAppend ==
  ASSUME NEW T, NEW q \in Seq(T), NEW f \in T, NEW S
  PROVE  /\ Append(q, f) \in Seq(T)
         /\ f \in S => Count(Append(q, f), S) = Count(q, S) + 1
         /\ f \notin S => Count(Append(q, f), S) = Count(q, S)
<1>1. PICK r \in Seq(T) : r = <<f>> /\ Len(r) = 1 /\ r[1] = f
  BY Singletons
<1>2. Append(q, f) = q \o r
  BY <1>1, AppendIsConcat, Zenon
<1>3. Append(q, f) \in Seq(T)
  OBVIOUS
<1>4. Count(Append(q, f), S) = Count(q, S) + Count(r, S) /\ Count(q, S) \in Nat
  <2>1. Count(q \o r, S) = Count(q, S) + Count(r, S)
    BY <1>1, CountConcat, Zenon
  <2>2. Count(q, S) \in Nat
    BY CountFinite, Zenon
  <2>3. QED
    BY <1>2, <2>1, <2>2, Zenon
<1>5. r[1] = f /\ Len(r) = 1
  BY <1>1
<1>6. (f \in S => Count(r, S) = 1) /\ (f \notin S => Count(r, S) = 0)
  BY <1>5, CountOne, Zenon
<1>7. QED
  BY <1>3, <1>4, <1>6

LEMMA CountTail ==
  ASSUME NEW T, NEW q \in Seq(T), q # <<>>, NEW S
  PROVE  /\ Head(q) \in T /\ Tail(q) \in Seq(T) /\ Count(Tail(q), S) \in Nat
         /\ Head(q) \in S => Count(q, S) = Count(Tail(q), S) + 1
         /\ Head(q) \notin S => Count(q, S) = Count(Tail(q), S)
<1>1. Head(q) \in T /\ Tail(q) \in Seq(T) /\ q = <<Head(q)>> \o Tail(q)
  BY HeadTailProperties
<1>2. PICK r \in Seq(T) : r = <<Head(q)>> /\ Len(r) = 1 /\ r[1] = Head(q)
  BY <1>1, Singletons
<1>3. q = r \o Tail(q)
  BY <1>1, <1>2, Zenon
<1>4. Count(q, S) = Count(r, S) + Count(Tail(q), S) /\ Count(Tail(q), S) \in Nat
  <2>1. Count(r \o Tail(q), S) = Count(r, S) + Count(Tail(q), S)
    BY <1>1, <1>2, CountConcat, Zenon
  <2>2. Count(Tail(q), S) \in Nat
    BY <1>1, CountFinite, Zenon
  <2>3. QED
    BY <1>3, <2>1, <2>2, Zenon
<1>5. r[1] = Head(q) /\ Len(r) = 1
  BY <1>2
<1>6. (Head(q) \in S => Count(r, S) = 1) /\ (Head(q) \notin S => Count(r, S) = 0)
  BY <1>5, CountOne, Zenon
<1>7. QED
  BY <1>1, <1>4, <1>6

LEMMA CountEmpty == \A q, S : q = <<>> => q \in Seq(Line) /\ Count(q, S) = 0
<1>1. <<>> \in Seq(Line) /\ Len(<<>>) = 0
  BY EmptySeq
<1> SUFFICES ASSUME NEW q, NEW S, q = <<>>
             PROVE  q \in Seq(Line) /\ Count(q, S) = 0
  OBVIOUS
<1>2. q \in Seq(Line) /\ Len(q) = 0
  BY <1>1, Zenon
<1>3. \A i \in 1 .. Len(q) : q[i] \notin S
  BY <1>2
<1>4. QED
  BY <1>2, <1>3, CountNone, Zenon
-----------------------------------------------------------------------------
(* The frames the two sides build.                                         *)
LEMMA AsdusBuilt ==
  ASSUME NEW ty \in AsduTypes, NEW cot \in Reasons, NEW sel \in BOOLEAN, NEW obj \in Seq(Objects)
  PROVE  /\ Asdu(ty, cot, sel, obj) \in Asdus
         /\ Asdu(ty, cot, sel, obj).f = 68 /\ Asdu(ty, cot, sel, obj).ty = ty
         /\ Asdu(ty, cot, sel, obj).cot = cot /\ Asdu(ty, cot, sel, obj).sel = sel
         /\ Asdu(ty, cot, sel, obj).obj = obj
<1>1. Asdu(ty, cot, sel, obj) \in Asdus
  BY Zenon DEF Asdu, Asdus
<1>2. QED
  BY <1>1, Zenon DEF Asdu

LEMMA AsduFields ==
  ASSUME NEW fr \in Asdus
  PROVE  /\ fr.f = 68 /\ fr.fn = "DATA" /\ fr.ty \in AsduTypes /\ fr.cot \in Reasons
         /\ fr.sel \in BOOLEAN /\ fr.obj \in Seq(Objects)
         /\ fr = Asdu(fr.ty, fr.cot, fr.sel, fr.obj)
<1>1. /\ fr.f = 68 /\ fr.fn = "DATA" /\ fr.ty \in AsduTypes /\ fr.cot \in Reasons
      /\ fr.sel \in BOOLEAN /\ fr.obj \in Seq(Objects)
  BY DEF Asdus
<1>2. fr = Asdu(fr.ty, fr.cot, fr.sel, fr.obj)
  BY <1>1 DEF Asdus, Asdu
<1>3. QED
  BY <1>1, <1>2

LEMMA FixedFrames ==
  ASSUME NEW fn \in FixedFuncs
  PROVE  /\ Fixed(fn) \in Line /\ Fixed(fn).f = 10 /\ Fixed(fn).ty = "none"
         /\ Fixed(fn) \notin Terms /\ Fixed(fn) \notin Acks /\ Fixed(fn) \notin Execs
         /\ fn # "RES_LINK_STATUS" => Fixed(fn) # LinkStatus
<1>1. Fixed(fn) \in Line
  BY DEF Line
<1>2. Fixed(fn).f = 10 /\ Fixed(fn).ty = "none" /\ Fixed(fn).fn = fn
  BY DEF Fixed
<1>3. fn # "RES_LINK_STATUS" => Fixed(fn) # LinkStatus
  BY DEF Fixed, LinkStatus
<1>4. Fixed(fn) \notin Terms /\ Fixed(fn) \notin Acks /\ Fixed(fn) \notin Execs
  BY <1>2 DEF Terms, Acks, Execs
<1>5. QED
  BY <1>1, <1>2, <1>3, <1>4

(* A frame sent again with other fields.                                   *)
LEMMA Recast ==
  ASSUME NEW c \in Asdus, NEW cot, NEW sel, NEW obj
  PROVE  /\ [c EXCEPT !.cot = cot, !.obj = obj] = Asdu(c.ty, cot, c.sel, obj)
         /\ [c EXCEPT !.cot = cot, !.sel = sel] = Asdu(c.ty, cot, sel, c.obj)
<1>1. ASSUME NEW ty, NEW a, NEW b, NEW d, NEW x
      PROVE  [Asdu(ty, a, b, d) EXCEPT !.cot = x] = Asdu(ty, x, b, d)
  BY DEF Asdu
<1>2. ASSUME NEW ty, NEW a, NEW b, NEW d, NEW x
      PROVE  [Asdu(ty, a, b, d) EXCEPT !.sel = x] = Asdu(ty, a, x, d)
  BY DEF Asdu
<1>3. ASSUME NEW ty, NEW a, NEW b, NEW d, NEW x
      PROVE  [Asdu(ty, a, b, d) EXCEPT !.obj = x] = Asdu(ty, a, b, x)
  BY DEF Asdu
<1>4. /\ [c EXCEPT !.cot = cot, !.obj = obj] = [[c EXCEPT !.cot = cot] EXCEPT !.obj = obj]
      /\ [c EXCEPT !.cot = cot, !.sel = sel] = [[c EXCEPT !.cot = cot] EXCEPT !.sel = sel]
  OBVIOUS
<1> DEFINE a == Asdu(c.ty, c.cot, c.sel, c.obj)
           b == Asdu(c.ty, cot, c.sel, c.obj)
<1>5. c = a /\ [a EXCEPT !.cot = cot] = b
  BY <1>1, AsduFields
<1>6. /\ [b EXCEPT !.obj = obj] = Asdu(c.ty, cot, c.sel, obj)
      /\ [b EXCEPT !.sel = sel] = Asdu(c.ty, cot, sel, c.obj)
  BY <1>2, <1>3
<1> HIDE DEF a, b
<1>7. [c EXCEPT !.cot = cot] = b
  BY <1>5, Zenon
<1>8. QED
  BY <1>4, <1>6, <1>7, Zenon

(* A frame of data is never the answer to the request for the status, and  *)
(* its type and its cause say what it counts for.                          *)
LEMMA DataFrames ==
  ASSUME NEW fr \in Asdus
  PROVE  /\ fr # LinkStatus
         /\ fr.ty # "C_SC" => fr \in Line /\ fr \notin Acks /\ fr \notin Execs
         /\ fr.ty \notin {"C_IC", "M_IT"} \/ fr.cot # "ACTTERM" => fr \notin Terms
         /\ fr.cot # "ACTCON" => fr \notin Acks
         /\ fr.sel => fr \notin Execs
<1>1. fr.f = 68 /\ LinkStatus.f = 10
  BY AsduFields DEF LinkStatus, Fixed
<1>2. fr.ty # "C_SC" => fr \in Line /\ fr \notin Acks /\ fr \notin Execs
  BY DEF Line, Intact, Acks, Execs
<1>3. QED
  BY <1>1, <1>2 DEF Terms, Acks, Execs

LEMMA LineFrames ==
  ASSUME NEW fr \in Line
  PROVE  /\ IsFrame(fr) /\ fr.f \in {10, 68}
         /\ fr.f = 68 <=> fr \in Intact
         /\ fr.f = 10 => fr.ty = "none" /\ fr \notin Terms /\ fr \notin Acks /\ fr \notin Execs
<1>1. CASE fr \in Intact
  <2>1. fr \in Asdus
    BY <1>1 DEF Intact
  <2>2. QED
    BY <1>1, <2>1, AsduFields DEF IsFrame
<1>2. CASE fr \in {Fixed(fn) : fn \in FixedFuncs}
  <2>1. PICK fn \in FixedFuncs : fr = Fixed(fn)
    BY <1>2
  <2>2. fr.f = 10 /\ fr.ty = "none" /\ fr \notin Terms /\ fr \notin Acks /\ fr \notin Execs
    BY <2>1, FixedFrames, Zenon
  <2>3. IsFrame(fr)
    BY <2>1, Zenon DEF IsFrame
  <2>4. fr \notin Intact
    BY <2>2, AsduFields DEF Intact
  <2>5. QED
    BY <2>2, <2>3, <2>4
<1>3. QED
  BY <1>1, <1>2 DEF Line
-----------------------------------------------------------------------------
(* A pass of the slave's exec thread.                                      *)
YkEnds == {"YK_CMD_SUCCESS", "YK_CMD_FAILD"}

(* What a handler or a machine of the slave leaves behind, with the copies *)
(* bak of this pass.                                                       *)
SlaveOK(w, bak) ==
  /\ DOMAIN w = {"st", "out", "ev", "set"}
  /\ w.st \in Stations /\ w.st.callpulse = "IDLE" /\ Backed(w.st, bak)
  /\ w.out \in Seq(Line) /\ Count(w.out, Terms) <= Succeeded(w)
  /\ Count(w.out, {LinkStatus}) > 0 \/ s.init \in Up => w.st.init \in Up

(* The machines of the commands have run in an earlier pass: what they     *)
(* acknowledge now was copied then.                                        *)
ReadyYk(w) ==
  /\ w.ev \cap YkEnds = {}
  /\ w.st.yk \in {"CONFIRM", "SUCCESS"} => s_bak.yk \in Copied("C_SC")
ReadyYt(w) == w.st.yt \in {"CONFIRM", "SUCCESS"} => s_bak.yt \in Copied("C_SE")

(* What is added to the queue counts for nothing.                          *)
Says(out, q) ==
  /\ q \in Seq(Line)
  /\ Count(q, Terms) = Count(out, Terms) /\ Count(q, {LinkStatus}) = Count(out, {LinkStatus})

LEMMA SaysFrames ==
  ASSUME NEW out \in Seq(Line), NEW k \in Nat, NEW fr \in Line, fr \notin Terms, fr # LinkStatus
  PROVE  Says(out, out \o [i \in 1 .. k |-> fr])
<1> DEFINE r == [i \in 1 .. k |-> fr]
<1>1. r \in Seq(Line) /\ \A i \in 1 .. Len(r) : r[i] = fr
  OBVIOUS
<1> HIDE DEF r
<1>2. (\A i \in 1 .. Len(r) : r[i] \notin Terms) /\ \A i \in 1 .. Len(r) : r[i] \notin {LinkStatus}
  BY <1>1
<1>3. Count(r, Terms) = 0 /\ Count(r, {LinkStatus}) = 0
  BY <1>1, <1>2, CountNone
<1>4. /\ Count(out \o r, Terms) = Count(out, Terms) + Count(r, Terms)
      /\ Count(out \o r, {LinkStatus}) = Count(out, {LinkStatus}) + Count(r, {LinkStatus})
      /\ out \o r \in Seq(Line)
  BY <1>1, CountConcat
<1>5. Count(out, Terms) \in Nat /\ Count(out, {LinkStatus}) \in Nat
  BY CountFinite
<1>6. Says(out, out \o r)
  BY <1>3, <1>4, <1>5 DEF Says
<1>7. QED
  BY <1>6 DEF r

LEMMA SlaveSays ==
  ASSUME NEW w, NEW bak, SlaveOK(w, bak), NEW g,
         DOMAIN g = {"st", "out", "ev", "set"}, g.st \in Stations, g.st.callpulse = "IDLE",
         Backed(g.st, bak), w.st.init \in Up => g.st.init \in Up, w.ev \subseteq g.ev,
         \/ g.out = w.out \/ Says(w.out, g.out)
         \/ \E fr \in Line : fr \notin Terms /\ fr # LinkStatus /\ g.out = Append(w.out, fr)
  PROVE  SlaveOK(g, bak)
<1>1. Succeeded(w) <= Succeeded(g) /\ Succeeded(w) \in Nat /\ Succeeded(g) \in Nat
  BY DEF Succeeded
<1>2. CASE g.out = w.out
  <2>1. Count(w.out, Terms) \in Nat
    BY CountFinite DEF SlaveOK
  <2>2. Count(g.out, Terms) = Count(w.out, Terms) /\ Count(g.out, {LinkStatus}) = Count(w.out, {LinkStatus})
    BY <1>2, Zenon
  <2>3. QED
    BY <1>1, <1>2, <2>1, <2>2 DEF SlaveOK
<1>3. CASE \E fr \in Line : fr \notin Terms /\ fr # LinkStatus /\ g.out = Append(w.out, fr)
  <2>1. PICK fr \in Line : fr \notin Terms /\ fr # LinkStatus /\ g.out = Append(w.out, fr)
    BY <1>3
  <2>2. w.out \in Seq(Line) /\ fr \notin {LinkStatus}
    BY <2>1 DEF SlaveOK
  <2>3. /\ Count(Append(w.out, fr), Terms) = Count(w.out, Terms)
        /\ Count(Append(w.out, fr), {LinkStatus}) = Count(w.out, {LinkStatus})
        /\ Append(w.out, fr) \in Seq(Line) /\ Count(w.out, Terms) \in Nat
    <3>1. Count(Append(w.out, fr), Terms) = Count(w.out, Terms) /\ Append(w.out, fr) \in Seq(Line)
      BY <2>1, <2>2, CountAppend
    <3>2. Count(Append(w.out, fr), {LinkStatus}) = Count(w.out, {LinkStatus})
      BY <2>1, <2>2, CountAppend
    <3>3. Count(w.out, Terms) \in Nat
      BY <2>2, CountFinite, Zenon
    <3>4. QED
      BY <3>1, <3>2, <3>3
  <2>4. QED
    BY <1>1, <2>1, <2>3 DEF SlaveOK
<1>4. CASE Says(w.out, g.out)
  <2>1. Count(w.out, Terms) \in Nat
    BY CountFinite DEF SlaveOK
  <2>2. QED
    BY <1>1, <1>4, <2>1 DEF SlaveOK, Says
<1>5. QED
  BY <1>2, <1>3, <1>4

(* The frames of the slave that count for nothing.                         *)
LEMMA SlavePlain ==
  /\ Fixed("CONFIRM_ACK") \in Line /\ Fixed("CONFIRM_ACK") \notin Terms
  /\ Fixed("CONFIRM_ACK") # LinkStatus
  /\ Fixed("RES_USR_DATA_NACK") \in Line /\ Fixed("RES_USR_DATA_NACK") \notin Terms
  /\ Fixed("RES_USR_DATA_NACK") # LinkStatus
<1>1. "CONFIRM_ACK" \in FixedFuncs /\ "RES_USR_DATA_NACK" \in FixedFuncs
  BY DEF FixedFuncs
<1>2. QED
  BY <1>1, FixedFrames, Zenon

LEMMA NoObjects == \E q \in Seq(Objects) : q = <<>>
<1>1. <<>> \in Seq(Objects)
  BY EmptySeq
<1>2. QED
  BY <1>1, Zenon

LEMMA SlaveData ==
  \A ty \in AsduTypes, cot \in Reasons :
    ty # "C_SC" /\ cot # "ACTTERM" =>
      /\ Asdu(ty, cot, FALSE, <<>>) \in Line /\ Asdu(ty, cot, FALSE, <<>>) \notin Terms
      /\ Asdu(ty, cot, FALSE, <<>>) # LinkStatus
      /\ Asdu(ty, cot, FALSE, <<>>) \notin Acks /\ Asdu(ty, cot, FALSE, <<>>) \notin Execs
<1> TAKE ty \in AsduTypes, cot \in Reasons
<1> HAVE ty # "C_SC" /\ cot # "ACTTERM"
<1>1. PICK q \in Seq(Objects) : q = <<>>
  BY NoObjects
<1>2. /\ Asdu(ty, cot, FALSE, q) \in Asdus /\ Asdu(ty, cot, FALSE, q).ty = ty
      /\ Asdu(ty, cot, FALSE, q).cot = cot
  BY Zenon DEF Asdu, Asdus
<1> DEFINE fr == Asdu(ty, cot, FALSE, q)
<1> HIDE DEF fr
<1>3. fr \in Asdus /\ fr.ty # "C_SC" /\ fr.cot # "ACTTERM"
  BY <1>2, Zenon DEF fr
<1>4. fr \in Line /\ fr \notin Terms /\ fr # LinkStatus /\ fr \notin Acks /\ fr \notin Execs
  BY <1>3, DataFrames
<1>5. QED
  BY <1>1, <1>4, Zenon DEF fr
LEMMA SlaveBegins ==
  ASSUME s \in Stations, s.callpulse = "IDLE", NEW bak, Backed(s, bak), Backed(s, s_bak)
  PROVE  SlaveOK(Work(s), bak) /\ ReadyYk(Work(s)) /\ ReadyYt(Work(s)) /\ Work(s).ev = {}
<1>1. PICK q \in Seq(Line) : q = <<>>
  BY CountEmpty, Zenon
<1>2. Count(q, Terms) = 0 /\ Count(q, {LinkStatus}) = 0
  BY <1>1, CountEmpty, Zenon
<1>3. /\ DOMAIN Work(s) = {"st", "out", "ev", "set"}
      /\ Work(s).st = s /\ Work(s).out = q /\ Work(s).ev = {}
  BY <1>1 DEF Work
<1>4. SlaveOK(Work(s), bak)
  BY <1>2, <1>3 DEF SlaveOK, Succeeded
<1>5. ReadyYk(Work(s)) /\ ReadyYt(Work(s))
  BY <1>3 DEF ReadyYk, ReadyYt, Backed
<1>6. QED
  BY <1>3, <1>4, <1>5

LEMMA SlaveDeal10 ==
  ASSUME NEW w, NEW bak, SlaveOK(w, bak), ReadyYk(w), ReadyYt(w), NEW fr
  PROVE  LET g == iec101_s_deal_10(w, fr)
         IN  SlaveOK(g, bak) /\ ReadyYk(g) /\ ReadyYt(g) /\ g.ev = w.ev
<1> DEFINE g == iec101_s_deal_10(w, fr)
<1> SUFFICES SlaveOK(g, bak) /\ ReadyYk(g) /\ ReadyYt(g) /\ g.ev = w.ev
  OBVIOUS
<1>0. /\ DOMAIN w = {"st", "out", "ev", "set"} /\ w.st \in Stations /\ w.st.callpulse = "IDLE"
      /\ Backed(w.st, bak) /\ w.out \in Seq(Line)
  BY DEF SlaveOK
<1>1. CASE fr.fn = "REQ_LINK_STATUS"
  <2>1. /\ DOMAIN g = {"st", "out", "ev", "set"} /\ g.out = Append(w.out, LinkStatus) /\ g.ev = w.ev
        /\ g.st = [w.st EXCEPT !.init = "CONNECT_OK"]
    BY <1>0, <1>1 DEF iec101_s_deal_10, iec101_s_build_link_status_ack, Send, LinkStatus
  <2> HIDE DEF g
  <2>2. /\ g.st \in Stations /\ g.st.init = "CONNECT_OK" /\ g.st.callpulse = "IDLE"
        /\ g.st.yk = w.st.yk /\ g.st.yt = w.st.yt
    BY <1>0, <2>1 DEF Stations, LinkStates
  <2>3. LinkStatus \in Line /\ LinkStatus \notin Terms
    BY FixedFrames DEF FixedFuncs, LinkStatus
  <2>4. Count(Append(w.out, LinkStatus), Terms) = Count(w.out, Terms)
        /\ Append(w.out, LinkStatus) \in Seq(Line)
    BY <1>0, <2>3, CountAppend
  <2>5. Backed(g.st, bak)
    BY <1>0, <2>2 DEF Backed
  <2>6. Succeeded(g) = Succeeded(w)
    BY <2>1 DEF Succeeded
  <2>7. SlaveOK(g, bak)
    BY <2>1, <2>2, <2>4, <2>5, <2>6 DEF SlaveOK, Up
  <2>8. QED
    BY <2>1, <2>2, <2>7 DEF ReadyYk, ReadyYt
<1>2. CASE fr.fn # "REQ_LINK_STATUS"
  <2>1. /\ DOMAIN g = {"st", "out", "ev", "set"} /\ g.ev = w.ev
        /\ g.st = w.st \/ g.st = [w.st EXCEPT !.tack = 1]
        /\ \/ g.out = w.out
           \/ g.out = Append(w.out, Fixed("CONFIRM_ACK"))
           \/ g.out = Append(w.out, Fixed("RES_USR_DATA_NACK"))
    BY <1>0, <1>2 DEF iec101_s_deal_10, iec101_s_build_request_confirm, iec101_s_build_request_user_nack, Send
  <2> HIDE DEF g
  <2>2. /\ g.st \in Stations /\ g.st.init = w.st.init /\ g.st.callpulse = "IDLE"
        /\ g.st.yk = w.st.yk /\ g.st.yt = w.st.yt
    BY <1>0, <2>1 DEF Stations
  <2>3. Backed(g.st, bak)
    BY <1>0, <2>2 DEF Backed
  <2>4. SlaveOK(g, bak)
    BY <2>1, <2>2, <2>3, SlaveSays, SlavePlain
  <2>5. QED
    BY <2>1, <2>2, <2>4 DEF ReadyYk, ReadyYt
<1>3. QED
  BY <1>1, <1>2
(* The copies after a frame: those of a command are of its type.           *)
LEMMA BackupOK ==
  ASSUME Typed, NEW fr \in Line
  PROVE  LET b == Backup(fr)
         IN  /\ b = [yk |-> b.yk, yt |-> b.yt]
             /\ b.yk \in Intact \cup {NoCopy} /\ b.yt \in Intact \cup {NoCopy}
             /\ s_bak.yk \in Copied("C_SC") => b.yk \in Copied("C_SC")
             /\ s_bak.yt \in Copied("C_SE") => b.yt \in Copied("C_SE")
             /\ fr.f = 68 /\ fr.cot = "ACT" /\ fr.ty = "C_SC" /\ fr.sel => b.yk \in Copied("C_SC")
             /\ fr.f = 68 /\ fr.cot = "ACT" /\ fr.ty = "C_SE" => b.yt \in Copied("C_SE")
<1> DEFINE b == Backup(fr)
<1>1. /\ s_bak = [yk |-> s_bak.yk, yt |-> s_bak.yt]
      /\ s_bak.yk \in Intact \cup {NoCopy} /\ s_bak.yt \in Intact \cup {NoCopy}
  BY DEF Typed
<1>2. fr.f = 68 => fr \in Intact
  BY LineFrames
<1>3. /\ b = [yk |-> b.yk, yt |-> b.yt]
      /\ \/ b.yk = s_bak.yk /\ ~(Copies(fr) /\ fr.ty = "C_SC" /\ fr.sel)
         \/ b.yk = fr /\ Copies(fr) /\ fr.ty = "C_SC"
      /\ \/ b.yt = s_bak.yt /\ ~(Copies(fr) /\ fr.ty = "C_SE")
         \/ b.yt = fr /\ Copies(fr) /\ fr.ty = "C_SE"
  BY <1>1 DEF Backup
<1> HIDE DEF b
<1>4. /\ b = [yk |-> b.yk, yt |-> b.yt]
      /\ b.yk \in Intact \cup {NoCopy} /\ b.yt \in Intact \cup {NoCopy}
      /\ s_bak.yk \in Copied("C_SC") => b.yk \in Copied("C_SC")
      /\ s_bak.yt \in Copied("C_SE") => b.yt \in Copied("C_SE")
      /\ fr.f = 68 /\ fr.cot = "ACT" /\ fr.ty = "C_SC" /\ fr.sel => b.yk \in Copied("C_SC")
      /\ fr.f = 68 /\ fr.cot = "ACT" /\ fr.ty = "C_SE" => b.yt \in Copied("C_SE")
  BY <1>1, <1>2, <1>3 DEF Copies, Copied
<1>5. QED
  BY <1>4 DEF b

LEMMA SlaveDeal68 ==
  ASSUME NEW fr \in Intact, NEW bak, NEW w, SlaveOK(w, bak), ReadyYk(w), ReadyYt(w),
         fr.cot = "ACT" /\ fr.ty = "C_SC" /\ fr.sel => bak.yk \in Copied("C_SC"),
         fr.cot = "ACT" /\ fr.ty = "C_SE" => bak.yt \in Copied("C_SE")
  PROVE  LET g == iec101_s_deal_68(w, fr)
         IN  SlaveOK(g, bak) /\ ReadyYk(g) /\ ReadyYt(g) /\ g.ev = w.ev
<1> DEFINE g == iec101_s_deal_68(w, fr)
<1> SUFFICES SlaveOK(g, bak) /\ ReadyYk(g) /\ ReadyYt(g) /\ g.ev = w.ev
  OBVIOUS
<1>0. /\ DOMAIN w = {"st", "out", "ev", "set"} /\ w.st \in Stations /\ w.st.callpulse = "IDLE"
      /\ Backed(w.st, bak) /\ w.out \in Seq(Line)
  BY DEF SlaveOK
<1>1. CASE fr.ty \in {"C_IC", "C_CI"}
  <2>1. /\ DOMAIN g = {"st", "out", "ev", "set"} /\ g.ev = w.ev
        /\ \/ g.st = w.st
           \/ g.st = [w.st EXCEPT !.callall = "START"]
           \/ g.st = [w.st EXCEPT !.callall = "ODD"]
        /\ g.out = w.out \/ g.out = Append(w.out, Fixed("CONFIRM_ACK"))
    BY <1>0, <1>1 DEF iec101_s_deal_68, iec101_s_asdu_call_all, iec101_s_asdu_call_pulse,
                      iec101_s_build_request_confirm, Send
  <2> HIDE DEF g
  <2>2. /\ g.st \in Stations /\ g.st.init = w.st.init /\ g.st.callpulse = "IDLE"
        /\ g.st.yk = w.st.yk /\ g.st.yt = w.st.yt
    BY <1>0, <2>1 DEF Stations, CallStates
  <2>3. Backed(g.st, bak)
    BY <1>0, <2>2 DEF Backed
  <2>4. SlaveOK(g, bak)
    BY <2>1, <2>2, <2>3, SlaveSays, SlavePlain
  <2>5. QED
    BY <2>1, <2>2, <2>4 DEF ReadyYk, ReadyYt
<1>2. CASE fr.ty = "C_SC"
  <2>1. /\ DOMAIN g = {"st", "out", "ev", "set"} /\ g.ev = w.ev /\ g.out = w.out
        /\ \/ g.st = w.st
           \/ g.st = [w.st EXCEPT !.yk = "START"] /\ fr.cot = "ACT" /\ fr.sel
           \/ g.st = [w.st EXCEPT !.yk = "EXEC"]
    BY <1>0, <1>2 DEF iec101_s_deal_68, iec101_s_asdu_yk
  <2> HIDE DEF g
  <2>2. /\ g.st \in Stations /\ g.st.init = w.st.init /\ g.st.callpulse = "IDLE" /\ g.st.yt = w.st.yt
        /\ g.st.yk \notin {w.st.yk, "EXEC"} => g.st.yk = "START" /\ bak.yk \in Copied("C_SC")
    <3>1. CASE g.st = w.st \/ g.st = [w.st EXCEPT !.yk = "EXEC"]
      BY <1>0, <3>1 DEF Stations, CmdStates
    <3>2. CASE g.st = [w.st EXCEPT !.yk = "START"] /\ fr.cot = "ACT" /\ fr.sel
      <4>1. bak.yk \in Copied("C_SC")
        BY <1>2, <3>2
      <4>2. g.st = [w.st EXCEPT !.yk = "START"]
        BY <3>2
      <4>3. QED
        BY <1>0, <4>1, <4>2 DEF Stations, CmdStates
    <3>3. QED
      BY <2>1, <3>1, <3>2
  <2>3. Backed(g.st, bak)
    BY <1>0, <1>2, <2>2 DEF Backed
  <2>4. SlaveOK(g, bak)
    BY <2>1, <2>2, <2>3, SlaveSays
  <2>5. QED
    BY <2>1, <2>2, <2>4 DEF ReadyYk, ReadyYt
<1>3. CASE fr.ty = "C_SE"
  <2>1. /\ DOMAIN g = {"st", "out", "ev", "set"} /\ g.ev = w.ev /\ g.out = w.out
        /\ \/ g.st = w.st
           \/ g.st = [w.st EXCEPT !.yt = "START"] /\ fr.cot = "ACT"
           \/ g.st = [w.st EXCEPT !.yk = "EXEC", !.yt = "START"] /\ fr.cot = "ACT"
    BY <1>0, <1>3 DEF iec101_s_deal_68, iec101_s_asdu_yt
  <2> HIDE DEF g
  <2>2. /\ g.st \in Stations /\ g.st.init = w.st.init /\ g.st.callpulse = "IDLE"
        /\ g.st.yk = w.st.yk \/ g.st.yk = "EXEC"
        /\ g.st.yt # w.st.yt => g.st.yt = "START" /\ bak.yt \in Copied("C_SE")
    <3>1. CASE g.st = w.st
      BY <1>0, <3>1
    <3>2. CASE g.st # w.st
      <4>1. bak.yt \in Copied("C_SE")
        BY <1>3, <2>1, <3>2
      <4>2. g.st = [w.st EXCEPT !.yt = "START"] \/ g.st = [w.st EXCEPT !.yk = "EXEC", !.yt = "START"]
        BY <2>1, <3>2
      <4>3. QED
        BY <1>0, <4>1, <4>2 DEF Stations, CmdStates
    <3>3. QED
      BY <3>1, <3>2
  <2>3. Backed(g.st, bak)
    BY <1>0, <1>3, <2>2 DEF Backed
  <2>4. SlaveOK(g, bak)
    BY <2>1, <2>2, <2>3, SlaveSays
  <2>5. QED
    BY <2>1, <2>2, <2>4 DEF ReadyYk, ReadyYt
<1>4. CASE fr.ty \notin {"C_IC", "C_CI", "C_SC", "C_SE"}
  <2>1. g = w
    BY <1>4 DEF iec101_s_deal_68
  <2>2. QED
    BY <2>1
<1>5. QED
  BY <1>1, <1>2, <1>3, <1>4

NewBak == IF down = <<>> THEN s_bak ELSE Backup(Head(down))

LEMMA SlaveParses ==
  ASSUME LineInv, NEW w \in iec101_s_frame_parse
  PROVE  SlaveOK(w, NewBak) /\ ReadyYk(w) /\ ReadyYt(w) /\ w.ev = {}
<1>0. /\ Typed /\ s \in Stations /\ s.callpulse = "IDLE" /\ Backed(s, s_bak) /\ down \in Seq(Line)
  BY DEF LineInv, Typed, Silent
<1>1. CASE down = <<>>
  <2>1. w = Work(s) /\ NewBak = s_bak
    BY <1>1 DEF iec101_s_frame_parse, NewBak
  <2>2. QED
    BY <1>0, <2>1, SlaveBegins
<1>2. CASE down # <<>>
  <2> DEFINE fr == Head(down)
             b == Backup(fr)
  <2>1. fr \in Line /\ NewBak = b
    BY <1>0, <1>2 DEF NewBak
  <2>2. w = IF fr.f = 10 THEN iec101_s_deal_10(Work(s), fr) ELSE iec101_s_deal_68(Work(s), fr)
    BY <1>2 DEF iec101_s_frame_parse
  <2> HIDE DEF fr
  <2>3. /\ s_bak.yk \in Copied("C_SC") => b.yk \in Copied("C_SC")
        /\ s_bak.yt \in Copied("C_SE") => b.yt \in Copied("C_SE")
        /\ fr.f = 68 /\ fr.cot = "ACT" /\ fr.ty = "C_SC" /\ fr.sel => b.yk \in Copied("C_SC")
        /\ fr.f = 68 /\ fr.cot = "ACT" /\ fr.ty = "C_SE" => b.yt \in Copied("C_SE")
    BY <1>0, <2>1, BackupOK, Zenon
  <2> HIDE DEF b
  <2>4. Backed(s, b)
    BY <1>0, <2>3 DEF Backed
  <2>5. SlaveOK(Work(s), b) /\ ReadyYk(Work(s)) /\ ReadyYt(Work(s)) /\ Work(s).ev = {}
    BY <1>0, <2>4, SlaveBegins
  <2>6. CASE fr.f = 10
    BY <2>1, <2>2, <2>5, <2>6, SlaveDeal10
  <2>7. CASE fr.f # 10
    <3>1. fr \in Intact /\ fr.f = 68
      BY <2>1, <2>7, LineFrames
    <3>2. QED
      BY <2>1, <2>2, <2>3, <2>5, <2>7, <3>1, SlaveDeal68
  <2>8. QED
    BY <2>6, <2>7
<1>3. QED
  BY <1>1, <1>2
LEMMA SlaveWork ==
  ASSUME NEW bak, NEW w, SlaveOK(w, bak), ReadyYk(w), ReadyYt(w), w.ev = {}
  PROVE  LET g == iec101_s_state_machine_work(w)
         IN  SlaveOK(g, bak) /\ ReadyYk(g) /\ ReadyYt(g) /\ g.ev \subseteq {"CONNECTED"}
<1> DEFINE g == iec101_s_state_machine_work(w)
<1> SUFFICES SlaveOK(g, bak) /\ ReadyYk(g) /\ ReadyYt(g) /\ g.ev \subseteq {"CONNECTED"}
  OBVIOUS
<1>0. /\ DOMAIN w = {"st", "out", "ev", "set"} /\ w.st \in Stations /\ w.st.callpulse = "IDLE"
      /\ Backed(w.st, bak)
  BY DEF SlaveOK
<1>1. CASE w.st.init = "INIT"
  <2>1. /\ DOMAIN g = {"st", "out", "ev", "set"} /\ g.ev = w.ev /\ g.out = w.out
        /\ g.st = [iec101_s_reset_param(w.st) EXCEPT !.init = "OPEN"]
    BY <1>0, <1>1 DEF iec101_s_state_machine_work
  <2> HIDE DEF g
  <2>2. g.st \in Stations /\ g.st.callpulse = "IDLE" /\ g.st.yk = "IDLE" /\ g.st.yt = "IDLE"
    BY <1>0, <2>1 DEF Stations, iec101_s_reset_param, LinkStates, CallStates, CmdStates
  <2>3. Backed(g.st, bak) /\ ReadyYk(g) /\ ReadyYt(g)
    BY <2>1, <2>2 DEF Backed, ReadyYk, ReadyYt
  <2>4. w.st.init \notin Up
    BY <1>1 DEF Up
  <2>5. SlaveOK(g, bak)
    BY <2>1, <2>2, <2>3, <2>4, SlaveSays
  <2>6. QED
    BY <2>1, <2>3, <2>5
<1>2. CASE w.st.init # "INIT"
  <2>1. /\ DOMAIN g = {"st", "out", "ev", "set"} /\ g.out = w.out /\ g.ev \subseteq {"CONNECTED"}
        /\ \/ g.st = w.st
           \/ g.st = [w.st EXCEPT !.init = "CONNECT"] /\ w.st.init = "OPEN"
           \/ g.st = [w.st EXCEPT !.init = "IDLE"]
    BY <1>0, <1>2 DEF iec101_s_state_machine_work, Report
  <2> HIDE DEF g
  <2>2. /\ g.st \in Stations /\ g.st.callpulse = "IDLE" /\ g.st.yk = w.st.yk /\ g.st.yt = w.st.yt
        /\ w.st.init \in Up => g.st.init \in Up
    BY <1>0, <2>1 DEF Stations, LinkStates, Up
  <2>3. Backed(g.st, bak) /\ ReadyYk(g) /\ ReadyYt(g)
    BY <1>0, <2>1, <2>2 DEF Backed, ReadyYk, ReadyYt, YkEnds
  <2>4. SlaveOK(g, bak)
    BY <2>1, <2>2, <2>3, SlaveSays
  <2>5. QED
    BY <2>1, <2>3, <2>4
<1>3. QED
  BY <1>1, <1>2

(* The stages of an interrogation send what counts for nothing.            *)
LEMMA SlaveStages ==
  ASSUME NEW w, w.out \in Seq(Line), DOMAIN w = {"st", "out", "ev", "set"}
  PROVE  /\ Says(w.out, iec101_s_build_call_ack(w).out)
         /\ Says(w.out, iec101_s_build_yx(w).out)
         /\ Says(w.out, iec101_s_build_yc(w).out)
<1>0. YxFrames \in Nat /\ YcnFrames \in Nat /\ YcfFrames \in Nat
  BY LineAssumption
<1> DEFINE sp == Asdu("M_SP", "INTROGEN", FALSE, <<>>)
           na == Asdu("M_ME_NA", "INTROGEN", FALSE, <<>>)
           nc == Asdu("M_ME_NC", "INTROGEN", FALSE, <<>>)
           ic == Asdu("C_IC", "ACTCON", FALSE, <<>>)
<1>1. /\ {"M_SP", "M_ME_NA", "M_ME_NC", "C_IC"} \subseteq AsduTypes \ {"C_SC"}
      /\ {"INTROGEN", "ACTCON"} \subseteq Reasons \ {"ACTTERM"}
  BY DEF AsduTypes, Reasons
<1>2. /\ sp \in Line /\ sp \notin Terms /\ sp # LinkStatus
      /\ na \in Line /\ na \notin Terms /\ na # LinkStatus
      /\ nc \in Line /\ nc \notin Terms /\ nc # LinkStatus
      /\ ic \in Line /\ ic \notin Terms /\ ic # LinkStatus
  BY <1>1, SlaveData, Zenon
<1>3. /\ iec101_s_build_call_ack(w).out = Append(w.out, ic)
      /\ iec101_s_build_yx(w).out = w.out \o [i \in 1 .. YxFrames |-> sp]
  BY DEF iec101_s_build_call_ack, iec101_s_build_yx, Send, SubLists
<1>4. iec101_s_build_yc(w).out =
        (w.out \o [i \in 1 .. YcnFrames |-> na]) \o [i \in 1 .. YcfFrames |-> nc]
  BY DEF iec101_s_build_yc, SubLists
<1> HIDE DEF sp, na, nc, ic
<1>5. Says(w.out, iec101_s_build_yx(w).out)
  BY <1>0, <1>2, <1>3, SaysFrames
<1>6. Says(w.out, iec101_s_build_yc(w).out)
  <2> DEFINE q == w.out \o [i \in 1 .. YcnFrames |-> na]
  <2>1. Says(w.out, q)
    BY <1>0, <1>2, SaysFrames
  <2>2. q \in Seq(Line)
    BY <2>1 DEF Says
  <2>3. iec101_s_build_yc(w).out = q \o [i \in 1 .. YcfFrames |-> nc]
    BY <1>4
  <2> HIDE DEF q
  <2>4. Says(q, q \o [i \in 1 .. YcfFrames |-> nc])
    BY <1>0, <1>2, <2>2, SaysFrames
  <2>5. QED
    BY <2>1, <2>3, <2>4 DEF Says
<1>7. Says(w.out, iec101_s_build_call_ack(w).out)
  <2>1. ic \notin {LinkStatus}
    BY <1>2
  <2>2. Count(Append(w.out, ic), Terms) = Count(w.out, Terms) /\ Append(w.out, ic) \in Seq(Line)
    BY <1>2, CountAppend
  <2>3. Count(Append(w.out, ic), {LinkStatus}) = Count(w.out, {LinkStatus})
    BY <1>2, <2>1, CountAppend
  <2>4. QED
    BY <1>3, <2>2, <2>3 DEF Says
<1>8. QED
  BY <1>5, <1>6, <1>7
LEMMA SlaveCallall ==
  ASSUME NEW bak, NEW w, SlaveOK(w, bak), ReadyYk(w), ReadyYt(w), w.ev \subseteq {"CONNECTED"}
  PROVE  LET g == iec101_s_state_machine_callall(w)
         IN  SlaveOK(g, bak) /\ ReadyYk(g) /\ ReadyYt(g)
<1> DEFINE g == iec101_s_state_machine_callall(w)
<1> SUFFICES SlaveOK(g, bak) /\ ReadyYk(g) /\ ReadyYt(g)
  OBVIOUS
<1>0. /\ DOMAIN w = {"st", "out", "ev", "set"} /\ w.st \in Stations /\ w.st.callpulse = "IDLE"
      /\ Backed(w.st, bak) /\ w.out \in Seq(Line)
  BY DEF SlaveOK
(* What is left of the station and of the events.                          *)
<1>1. ASSUME NEW h, /\ h.st \in Stations /\ h.st.init = w.st.init /\ h.st.callpulse = "IDLE"
                    /\ h.st.yk = w.st.yk /\ h.st.yt = w.st.yt,
             w.ev \subseteq h.ev, h.ev \subseteq w.ev \cup {"CALL_ALL_SUCCESS", "CALL_ALL_FAILD"}
      PROVE  Backed(h.st, bak) /\ ReadyYk(h) /\ ReadyYt(h)
  BY <1>0, <1>1 DEF Backed, ReadyYk, ReadyYt, YkEnds
<1>2. CASE w.st.callall \in {"CONFIRM", "YX", "YC"}
  <2>1. \E sent : \E next \in {"YX", "YC", "SUCCESS"} :
          g = CallStage(w, sent, next) /\ Says(w.out, sent.out)
    <3>1. /\ Says(w.out, iec101_s_build_call_ack(w).out) /\ Says(w.out, iec101_s_build_yx(w).out)
          /\ Says(w.out, iec101_s_build_yc(w).out)
      BY <1>0, SlaveStages
    <3>2. \/ g = CallStage(w, iec101_s_build_call_ack(w), "YX")
          \/ g = CallStage(w, iec101_s_build_yx(w), "YC")
          \/ g = CallStage(w, iec101_s_build_yc(w), "SUCCESS")
      BY <1>2 DEF iec101_s_state_machine_callall
    <3> HIDE DEF g
    <3>3. QED
      BY <3>1, <3>2, Zenon
  <2>0. PICK sent : \E next \in {"YX", "YC", "SUCCESS"} :
          g = CallStage(w, sent, next) /\ Says(w.out, sent.out)
    BY <2>1
  <2> HIDE DEF g
  <2>2. /\ DOMAIN g = {"st", "out", "ev", "set"} /\ g.ev = w.ev
        /\ g.out = w.out \/ g.out = sent.out
        /\ g.st \in Stations /\ g.st.init = w.st.init /\ g.st.callpulse = "IDLE"
        /\ g.st.yk = w.st.yk /\ g.st.yt = w.st.yt
    <3>0. PICK next \in {"YX", "YC", "SUCCESS"} : g = CallStage(w, sent, next)
      BY <2>0
    <3>1. next \in CallStates /\ "FAILD" \in CallStates
      BY <3>0 DEF CallStates
    <3>2. /\ DOMAIN g = {"st", "out", "ev", "set"} /\ g.ev = w.ev
          /\ g.out = w.out \/ g.out = sent.out
          /\ \/ g.st = w.st
             \/ g.st = [w.st EXCEPT !.tack = 0, !.callall = next]
             \/ g.st = [w.st EXCEPT !.callall = "FAILD"]
             \/ g.st = [w.st EXCEPT !.tack = 0, !.callall = "FAILD"]
      BY <1>0, <3>0 DEF CallStage
    <3>3. QED
      BY <1>0, <3>1, <3>2, ZenonT(40) DEF Stations
  <2>3. Backed(g.st, bak) /\ ReadyYk(g) /\ ReadyYt(g)
    BY <1>1, <2>2
  <2>4. SlaveOK(g, bak)
    BY <2>0, <2>2, <2>3, SlaveSays
  <2>5. QED
    BY <2>3, <2>4
<1>3. CASE w.st.callall = "SUCCESS" /\ w.st.tack = 1
  <2> DEFINE fr == Asdu("C_IC", "ACTTERM", FALSE, <<>>)
  <2>1. fr \in Asdus /\ fr.ty = "C_IC"
    <3>1. "C_IC" \in AsduTypes /\ "ACTTERM" \in Reasons
      BY DEF AsduTypes, Reasons
    <3>2. PICK q \in Seq(Objects) : q = <<>>
      BY NoObjects
    <3>3. Asdu("C_IC", "ACTTERM", FALSE, q) \in Asdus
      BY <3>1, Zenon DEF Asdu, Asdus
    <3>4. QED
      BY <3>2, <3>3, Zenon DEF Asdu
  <2>2. /\ DOMAIN g = {"st", "out", "ev", "set"} /\ g.ev = w.ev \cup {"CALL_ALL_SUCCESS"}
        /\ g.out = Append(w.out, fr) /\ g.st = [w.st EXCEPT !.tack = 0, !.callall = "IDLE"]
    BY <1>0, <1>3 DEF iec101_s_state_machine_callall, Report, iec101_s_build_call_finsh, Send
  <2> HIDE DEF g, fr
  <2>3. /\ g.st \in Stations /\ g.st.init = w.st.init /\ g.st.callpulse = "IDLE"
        /\ g.st.yk = w.st.yk /\ g.st.yt = w.st.yt
    BY <1>0, <2>2 DEF Stations, CallStates
  <2>4. Backed(g.st, bak) /\ ReadyYk(g) /\ ReadyYt(g)
    BY <1>1, <2>2, <2>3
  <2>5. fr \in Line /\ fr \notin {LinkStatus}
    BY <2>1, DataFrames
  <2>6. /\ Count(g.out, Terms) <= Count(w.out, Terms) + 1 /\ g.out \in Seq(Line)
        /\ Count(g.out, Terms) \in Nat /\ Count(w.out, Terms) \in Nat
    <3>1. CASE fr \in Terms
      BY <1>0, <2>2, <2>5, <3>1, CountAppend, CountFinite
    <3>2. CASE fr \notin Terms
      BY <1>0, <2>2, <2>5, <3>2, CountAppend, CountFinite
    <3>3. QED
      BY <3>1, <3>2
  <2>7. Count(g.out, {LinkStatus}) = Count(w.out, {LinkStatus})
    BY <1>0, <2>2, <2>5, CountAppend
  <2>8. Succeeded(w) = 0 /\ Succeeded(g) = 1
    BY <2>2 DEF Succeeded
  <2>9. SlaveOK(g, bak)
    BY <2>2, <2>3, <2>4, <2>6, <2>7, <2>8 DEF SlaveOK
  <2>10. QED
    BY <2>4, <2>9
<1>4. CASE w.st.callall \notin {"CONFIRM", "YX", "YC"} /\ ~(w.st.callall = "SUCCESS" /\ w.st.tack = 1)
  <2>1. /\ DOMAIN g = {"st", "out", "ev", "set"}
        /\ g.ev = w.ev \/ g.ev = w.ev \cup {"CALL_ALL_FAILD"}
        /\ g.out = w.out \/ g.out = Append(w.out, Fixed("CONFIRM_ACK"))
        /\ \/ g.st = w.st
           \/ g.st = [w.st EXCEPT !.due = @ \ {"callall"}, !.callall = "CONFIRM"]
           \/ g.st = [w.st EXCEPT !.callall = "IDLE"]
    BY <1>0, <1>4 DEF iec101_s_state_machine_callall, iec101_s_build_request_user_ack, Report, Send, Restart
  <2> HIDE DEF g
  <2>2. /\ g.st \in Stations /\ g.st.init = w.st.init /\ g.st.callpulse = "IDLE"
        /\ g.st.yk = w.st.yk /\ g.st.yt = w.st.yt
    <3>1. CASE g.st = [w.st EXCEPT !.due = @ \ {"callall"}, !.callall = "CONFIRM"]
      <4>1. w.st.due \ {"callall"} \in SUBSET Timers
        BY <1>0 DEF Stations
      <4>2. QED
        BY <1>0, <3>1, <4>1 DEF Stations, CallStates
    <3>2. CASE g.st = w.st \/ g.st = [w.st EXCEPT !.callall = "IDLE"]
      BY <1>0, <3>2 DEF Stations, CallStates
    <3>3. QED
      BY <2>1, <3>1, <3>2
  <2>3. Backed(g.st, bak) /\ ReadyYk(g) /\ ReadyYt(g)
    BY <1>1, <2>1, <2>2
  <2>4. SlaveOK(g, bak)
    BY <2>1, <2>2, <2>3, SlaveSays, SlavePlain
  <2>5. QED
    BY <2>3, <2>4
<1>5. QED
  BY <1>2, <1>3, <1>4
(* The acknowledgement of a command is a frame of its type, and that of a  *)
(* single command of one object carries its point.                         *)
LEMMA AckFrames ==
  ASSUME NEW c \in Intact, c.ty \in {"C_SC", "C_SE"}, NEW cot \in Reasons
  PROVE  LET fr == [c EXCEPT !.cot = cot, !.obj = Cut(c)]
         IN  fr \in Line /\ fr \notin Terms /\ fr # LinkStatus
<1> DEFINE fr == [c EXCEPT !.cot = cot, !.obj = Cut(c)]
<1>1. /\ c \in Asdus
      /\ c.ty = "C_SC" /\ Len(c.obj) = 1 => c.obj[1] = "point"
  BY DEF Intact
<1>2. c.obj \in Seq(Objects)
  BY <1>1, AsduFields
<1>3. /\ Cut(c) \in Seq(Objects)
      /\ c.ty = "C_SC" /\ Len(Cut(c)) = 1 => Cut(c)[1] = "point"
  <2>1. CASE c.ty = "C_SC" /\ Len(c.obj) = 1
    BY <1>1, <1>2, <2>1 DEF Cut
  <2>2. CASE ~(c.ty = "C_SC" /\ Len(c.obj) = 1)
    <3> DEFINE q == [i \in 1 .. Len(c.obj) |-> IF i = 1 /\ c.ty = "C_SC" THEN c.obj[1] ELSE "junk"]
    <3>1. q \in Seq(Objects) /\ Len(q) = Len(c.obj)
      <4>1. Len(c.obj) \in Nat /\ \A i \in 1 .. Len(c.obj) : c.obj[i] \in Objects
        BY <1>2
      <4>2. q \in [1 .. Len(c.obj) -> Objects]
        BY <4>1 DEF Objects
      <4>3. QED
        BY <4>1, <4>2
    <3>2. Cut(c) = q
      BY <2>2 DEF Cut
    <3> HIDE DEF q
    <3>3. QED
      BY <2>2, <3>1, <3>2
  <2>3. QED
    BY <2>1, <2>2
<1>4. /\ fr \in Asdus /\ fr.ty = c.ty /\ fr.obj = Cut(c)
  <2> DEFINE o == Cut(c)
  <2>1. o \in Seq(Objects)
    BY <1>3
  <2>2. fr = [c EXCEPT !.cot = cot, !.obj = o]
    OBVIOUS
  <2> HIDE DEF o, fr
  <2>3. c.ty \in AsduTypes /\ c.sel \in BOOLEAN
    BY <1>1, AsduFields
  <2>4. fr = Asdu(c.ty, cot, c.sel, o)
    BY <1>1, <2>2, Recast, ZenonT(40)
  <2>5. fr \in Asdus /\ fr.ty = c.ty /\ fr.obj = o
    <3>1. /\ Asdu(c.ty, cot, c.sel, o) \in Asdus /\ Asdu(c.ty, cot, c.sel, o).ty = c.ty
          /\ Asdu(c.ty, cot, c.sel, o).obj = o
      BY <1>1, <2>1, <2>3, Zenon DEF Asdu, Asdus
    <3>2. QED
      BY <2>4, <3>1, Zenon
  <2>6. QED
    BY <2>5 DEF o
<1> HIDE DEF fr
<1>5. fr \in Intact
  BY <1>3, <1>4 DEF Intact
<1>6. fr \in Line /\ fr \notin Terms /\ fr # LinkStatus
  BY <1>4, <1>5, DataFrames DEF Line
<1>7. QED
  BY <1>6 DEF fr

LEMMA SlaveYt ==
  ASSUME NEW bak, NEW w, SlaveOK(w, bak), ReadyYk(w), ReadyYt(w)
  PROVE  LET g == iec101_s_state_machine_yt(w)
         IN  SlaveOK(g, bak) /\ ReadyYk(g)
<1> DEFINE g == iec101_s_state_machine_yt(w)
<1> SUFFICES SlaveOK(g, bak) /\ ReadyYk(g)
  OBVIOUS
<1>0. /\ DOMAIN w = {"st", "out", "ev", "set"} /\ w.st \in Stations /\ w.st.callpulse = "IDLE"
      /\ Backed(w.st, bak)
  BY DEF SlaveOK
<1>1. CASE w.st.yt \in {"CONFIRM", "SUCCESS"}
  <2> DEFINE con == [s_bak.yt EXCEPT !.cot = "ACTCON", !.obj = Cut(s_bak.yt)]
             end == [s_bak.yt EXCEPT !.cot = "ACTTERM", !.obj = Cut(s_bak.yt)]
  <2>1. con \in Line /\ con \notin Terms /\ con # LinkStatus /\ end \in Line /\ end \notin Terms /\ end # LinkStatus
    <3>1. s_bak.yt \in Intact /\ s_bak.yt.ty \in {"C_SC", "C_SE"}
      BY <1>1 DEF ReadyYt, Copied
    <3>2. "ACTCON" \in Reasons /\ "ACTTERM" \in Reasons
      BY DEF Reasons
    <3>3. QED
      BY <3>1, <3>2, AckFrames, Zenon
  <2>2. /\ DOMAIN g = {"st", "out", "ev", "set"}
        /\ g.ev = w.ev \/ g.ev = w.ev \cup {"YT_CMD_SUCCESS"}
        /\ g.out = w.out \/ g.out = Append(w.out, con) \/ g.out = Append(w.out, end)
        /\ \/ g.st = w.st
           \/ g.st = [w.st EXCEPT !.tack = 0]
           \/ g.st = [w.st EXCEPT !.yt = "FAILD"]
           \/ g.st = [w.st EXCEPT !.tack = 0, !.yt = "FAILD"]
           \/ g.st = [w.st EXCEPT !.tack = 0, !.yt = "IDLE"]
    BY <1>0, <1>1 DEF iec101_s_state_machine_yt, iec101_s_build_yt_ack, Report, Send
  <2> HIDE DEF g, con, end
  <2>3. /\ g.st \in Stations /\ g.st.init = w.st.init /\ g.st.callpulse = "IDLE"
        /\ g.st.yk = w.st.yk /\ g.st.yt \in {w.st.yt, "FAILD", "IDLE"}
    BY <1>0, <2>2, ZenonT(40) DEF Stations, CmdStates
  <2>4. Backed(g.st, bak) /\ ReadyYk(g)
    BY <1>0, <2>2, <2>3 DEF Backed, ReadyYk, YkEnds
  <2>5. SlaveOK(g, bak)
    BY <2>1, <2>2, <2>3, <2>4, SlaveSays
  <2>6. QED
    BY <2>4, <2>5
<1>2. CASE w.st.yt = "START"
  <2>1. /\ DOMAIN g = {"st", "out", "ev", "set"} /\ g.ev = w.ev
        /\ g.out = Append(w.out, Fixed("CONFIRM_ACK"))
        /\ g.st = [w.st EXCEPT !.due = @ \ {"yt"}, !.yt = "CONFIRM"]
    BY <1>0, <1>2 DEF iec101_s_state_machine_yt, iec101_s_build_request_user_ack, Send, Restart
  <2> HIDE DEF g
  <2>2. w.st.due \ {"yt"} \in SUBSET Timers
    BY <1>0 DEF Stations
  <2>3. /\ g.st \in Stations /\ g.st.init = w.st.init /\ g.st.callpulse = "IDLE"
        /\ g.st.yk = w.st.yk /\ g.st.yt = "CONFIRM"
    BY <1>0, <2>1, <2>2 DEF Stations, CmdStates
  <2>4. Backed(g.st, bak) /\ ReadyYk(g)
    BY <1>0, <1>2, <2>1, <2>3 DEF Backed, ReadyYk
  <2>5. SlaveOK(g, bak)
    BY <2>1, <2>3, <2>4, SlaveSays, SlavePlain
  <2>6. QED
    BY <2>4, <2>5
<1>3. CASE w.st.yt \notin {"CONFIRM", "SUCCESS", "START"}
  <2>1. /\ DOMAIN g = {"st", "out", "ev", "set"}
        /\ g.ev = w.ev \/ g.ev = w.ev \cup {"YT_CMD_FAILD"}
        /\ g.out = w.out \/ g.out = Append(w.out, Fixed("CONFIRM_ACK"))
        /\ \/ g.st = w.st
           \/ g.st = [w.st EXCEPT !.tack = 0, !.yt = "FAILD"]
           \/ g.st = [w.st EXCEPT !.tack = 0, !.yt = "SUCCESS"] /\ w.st.yt = "EXEC"
           \/ g.st = [w.st EXCEPT !.yt = "IDLE"]
    BY <1>0, <1>3 DEF iec101_s_state_machine_yt, iec101_s_build_request_user_ack, Report, Send
  <2> HIDE DEF g
  <2>2. /\ g.st \in Stations /\ g.st.init = w.st.init /\ g.st.callpulse = "IDLE"
        /\ g.st.yk = w.st.yk
        /\ g.st.yt \in {w.st.yt, "FAILD", "IDLE"} \/ w.st.yt = "EXEC"
    BY <1>0, <2>1 DEF Stations, CmdStates
  <2>3. Backed(g.st, bak) /\ ReadyYk(g)
    BY <1>0, <2>1, <2>2 DEF Backed, ReadyYk, YkEnds
  <2>4. SlaveOK(g, bak)
    BY <2>1, <2>2, <2>3, SlaveSays, SlavePlain
  <2>5. QED
    BY <2>3, <2>4
<1>4. QED
  BY <1>1, <1>2, <1>3
LEMMA SlaveYk ==
  ASSUME NEW bak, NEW w, SlaveOK(w, bak), ReadyYk(w)
  PROVE  LET g == iec101_s_state_machine_yk(w)
         IN  SlaveOK(g, bak) /\ (g.ev \cap YkEnds # {} => g.st.yk = "IDLE")
<1> DEFINE g == iec101_s_state_machine_yk(w)
<1> SUFFICES SlaveOK(g, bak) /\ (g.ev \cap YkEnds # {} => g.st.yk = "IDLE")
  OBVIOUS
<1>0. /\ DOMAIN w = {"st", "out", "ev", "set"} /\ w.st \in Stations /\ w.st.callpulse = "IDLE"
      /\ Backed(w.st, bak) /\ w.ev \cap YkEnds = {}
  BY DEF SlaveOK, ReadyYk
<1>1. CASE w.st.yk \in {"CONFIRM", "SUCCESS"}
  <2> DEFINE con == [s_bak.yk EXCEPT !.cot = "ACTCON", !.obj = Cut(s_bak.yk)]
             end == [s_bak.yk EXCEPT !.cot = "ACTTERM", !.obj = Cut(s_bak.yk)]
  <2>1. con \in Line /\ con \notin Terms /\ con # LinkStatus /\ end \in Line /\ end \notin Terms /\ end # LinkStatus
    <3>1. s_bak.yk \in Intact /\ s_bak.yk.ty \in {"C_SC", "C_SE"}
      BY <1>1 DEF ReadyYk, Copied
    <3>2. "ACTCON" \in Reasons /\ "ACTTERM" \in Reasons
      BY DEF Reasons
    <3>3. QED
      BY <3>1, <3>2, AckFrames, Zenon
  <2>2. /\ DOMAIN g = {"st", "out", "ev", "set"}
        /\ \/ g.ev = w.ev
           \/ g.ev = w.ev \cup {"YK_CMD_SUCCESS"} /\ g.st = [w.st EXCEPT !.tack = 0, !.yk = "IDLE"]
        /\ g.out = w.out \/ g.out = Append(w.out, con) \/ g.out = Append(w.out, end)
        /\ \/ g.st = w.st
           \/ g.st = [w.st EXCEPT !.tack = 0]
           \/ g.st = [w.st EXCEPT !.yk = "FAILD"]
           \/ g.st = [w.st EXCEPT !.tack = 0, !.yk = "FAILD"]
           \/ g.st = [w.st EXCEPT !.tack = 0, !.yk = "IDLE"]
    BY <1>0, <1>1 DEF iec101_s_state_machine_yk, iec101_s_build_yk_ack, Report, Send
  <2> HIDE DEF g, con, end
  <2>3. /\ g.st \in Stations /\ g.st.init = w.st.init /\ g.st.callpulse = "IDLE"
        /\ g.st.yt = w.st.yt /\ g.st.yk \in {w.st.yk, "FAILD", "IDLE"}
        /\ g.ev # w.ev => g.st.yk = "IDLE"
    BY <1>0, <2>2 DEF Stations, CmdStates
  <2>4. Backed(g.st, bak)
    BY <1>0, <2>3 DEF Backed
  <2>5. SlaveOK(g, bak)
    BY <2>1, <2>2, <2>3, <2>4, SlaveSays
  <2>6. QED
    BY <1>0, <2>3, <2>5
<1>2. CASE w.st.yk = "START"
  <2>1. /\ DOMAIN g = {"st", "out", "ev", "set"} /\ g.ev = w.ev
        /\ g.out = Append(w.out, Fixed("CONFIRM_ACK"))
        /\ g.st = [w.st EXCEPT !.due = @ \ {"yk"}, !.yk = "CONFIRM"]
    BY <1>0, <1>2 DEF iec101_s_state_machine_yk, iec101_s_build_request_user_ack, Send, Restart
  <2> HIDE DEF g
  <2>2. w.st.due \ {"yk"} \in SUBSET Timers
    BY <1>0 DEF Stations
  <2>3. /\ g.st \in Stations /\ g.st.init = w.st.init /\ g.st.callpulse = "IDLE"
        /\ g.st.yt = w.st.yt /\ g.st.yk = "CONFIRM"
    BY <1>0, <2>1, <2>2 DEF Stations, CmdStates
  <2>4. Backed(g.st, bak)
    BY <1>0, <1>2, <2>1, <2>3 DEF Backed
  <2>5. SlaveOK(g, bak)
    BY <2>1, <2>3, <2>4, SlaveSays, SlavePlain
  <2>6. QED
    BY <1>0, <2>1, <2>5
<1>3. CASE w.st.yk \notin {"CONFIRM", "SUCCESS", "START"}
  <2>1. /\ DOMAIN g = {"st", "out", "ev", "set"}
        /\ \/ g.ev = w.ev
           \/ g.ev = w.ev \cup {"YK_CMD_FAILD"} /\ g.st = [w.st EXCEPT !.yk = "IDLE"]
        /\ g.out = w.out \/ g.out = Append(w.out, Fixed("CONFIRM_ACK"))
        /\ \/ g.st = w.st \/ g.st = [w.st EXCEPT !.yk = "IDLE"]
           \/ \E x \in {"EXEC", "FAILD"} : g.st = [w.st EXCEPT !.yt = "ODD", !.tack = 0, !.yk = x]
    <3>1. CASE w.st.yk = "EXEC"
      <4> DEFINE x == IF Expired(w, "yk") THEN "FAILD" ELSE w.st.yk
      <4>1. x \in {"EXEC", "FAILD"}
        BY <3>1
      <4>2. g = [iec101_s_build_request_user_ack(w) EXCEPT !.st.yt = "ODD", !.st.tack = 0, !.st.yk = x]
        BY <1>0, <3>1 DEF iec101_s_state_machine_yk, iec101_s_build_request_user_ack, Send, Stations
      <4> HIDE DEF g, x
      <4>3. /\ DOMAIN g = {"st", "out", "ev", "set"} /\ g.ev = w.ev
            /\ g.out = Append(w.out, Fixed("CONFIRM_ACK"))
            /\ g.st = [w.st EXCEPT !.yt = "ODD", !.tack = 0, !.yk = x]
        BY <1>0, <4>2 DEF iec101_s_build_request_user_ack, Send
      <4>4. \E z \in {"EXEC", "FAILD"} : g.st = [w.st EXCEPT !.yt = "ODD", !.tack = 0, !.yk = z]
        BY <4>1, <4>3, Zenon
      <4>5. QED
        BY <4>3, <4>4
    <3>2. CASE w.st.yk = "FAILD"
      BY <1>0, <3>2 DEF iec101_s_state_machine_yk, Report
    <3>3. CASE w.st.yk \notin {"EXEC", "FAILD"}
      <4>1. g = w
        BY <1>3, <3>3 DEF iec101_s_state_machine_yk
      <4> HIDE DEF g
      <4>2. QED
        BY <1>0, <4>1
    <3>4. QED
      BY <3>1, <3>2, <3>3
  <2> HIDE DEF g
  <2>2. /\ g.st \in Stations /\ g.st.init = w.st.init /\ g.st.callpulse = "IDLE"
        /\ g.st.yk \in {w.st.yk, "FAILD", "IDLE", "EXEC"} /\ g.st.yt \in {w.st.yt, "ODD"}
    <3>1. CASE g.st = w.st \/ g.st = [w.st EXCEPT !.yk = "IDLE"]
      BY <1>0, <3>1 DEF Stations, CmdStates
    <3>2. ASSUME NEW x \in {"EXEC", "FAILD"}, g.st = [w.st EXCEPT !.yt = "ODD", !.tack = 0, !.yk = x]
          PROVE  /\ g.st \in Stations /\ g.st.init = w.st.init /\ g.st.callpulse = "IDLE"
                 /\ g.st.yk = x /\ g.st.yt = "ODD"
      <4>1. x \in CmdStates /\ "ODD" \in CmdStates
        BY DEF CmdStates
      <4>2. QED
        BY <1>0, <3>2, <4>1 DEF Stations
    <3>3. QED
      BY <2>1, <3>1, <3>2
  <2>6. g.ev # w.ev => g.st.yk = "IDLE"
    BY <1>0, <2>1 DEF Stations
  <2>3. Backed(g.st, bak)
    BY <1>0, <2>1, <2>2 DEF Backed
  <2>4. SlaveOK(g, bak)
    BY <2>1, <2>2, <2>3, SlaveSays, SlavePlain
  <2>7. QED
    BY <1>0, <2>4, <2>6
<1>4. QED
  BY <1>1, <1>2, <1>3

(* What a pass of the slave leaves behind.                                 *)
LEMMA SlavePass ==
  ASSUME LineInv, NEW w \in iec101_s_state_machine(iec101_s_frame_parse)
  PROVE  SlaveOK(w, NewBak) /\ (w.ev \cap YkEnds # {} => w.st.yk = "IDLE")
<1>1. PICK p \in iec101_s_frame_parse :
        LET l == iec101_s_state_machine_work(p)
            c == iec101_s_state_machine_callpulse(iec101_s_state_machine_callall(l))
        IN  w = l \/ w = iec101_s_state_machine_yk(iec101_s_state_machine_yt(c))
  BY DEF iec101_s_state_machine
<1> DEFINE l == iec101_s_state_machine_work(p)
           c == iec101_s_state_machine_callall(l)
           d == iec101_s_state_machine_callpulse(c)
           y == iec101_s_state_machine_yt(d)
<1>2. SlaveOK(p, NewBak) /\ ReadyYk(p) /\ ReadyYt(p) /\ p.ev = {}
  BY SlaveParses
<1>3. SlaveOK(l, NewBak) /\ ReadyYk(l) /\ ReadyYt(l) /\ l.ev \subseteq {"CONNECTED"}
  BY <1>2, SlaveWork
<1>4. SlaveOK(c, NewBak) /\ ReadyYk(c) /\ ReadyYt(c)
  <2> HIDE DEF l
  <2> QED BY <1>3, SlaveCallall
<1>5. w = l \/ w = iec101_s_state_machine_yk(y)
  BY <1>1
<1>6. d = c
  <2> HIDE DEF c
  <2>1. c.st.callpulse = "IDLE"
    BY <1>4 DEF SlaveOK
  <2>2. QED
    BY <2>1 DEF iec101_s_state_machine_callpulse
<1> HIDE DEF l, c, d
<1>7. SlaveOK(y, NewBak) /\ ReadyYk(y)
  BY <1>4, <1>6, SlaveYt
<1> HIDE DEF y
<1>8. CASE w = l
  BY <1>3, <1>8 DEF ReadyYk
<1>9. CASE w = iec101_s_state_machine_yk(y)
  BY <1>7, <1>9, SlaveYk
<1>10. QED
  BY <1>5, <1>8, <1>9
(* The frame a pass takes from the line, and what it executes.             *)
LEMMA ExecutedOK ==
  ASSUME down \in Seq(Line)
  PROVE  LET rest == IF down = <<>> THEN down ELSE Tail(down)
         IN  /\ rest \in Seq(Line)
             /\ Cardinality(Executed) \in Nat /\ Count(rest, Execs) \in Nat
             /\ Count(down, Execs) = Count(rest, Execs) + Cardinality(Executed)
             /\ \A fr \in Executed : fr.obj = <<"point">>
<1>1. CASE down = <<>>
  <2>1. Executed = {} /\ Cardinality({}) = 0
    BY <1>1, FS_EmptySet DEF Executed
  <2>2. Count(down, Execs) \in Nat
    BY CountFinite
  <2>3. QED
    BY <1>1, <2>1, <2>2
<1>2. CASE down # <<>>
  <2> DEFINE fr == Head(down)
  <2>1. /\ fr \in Line /\ Tail(down) \in Seq(Line) /\ Count(Tail(down), Execs) \in Nat
        /\ fr \in Execs => Count(down, Execs) = Count(Tail(down), Execs) + 1
        /\ fr \notin Execs => Count(down, Execs) = Count(Tail(down), Execs)
    BY <1>2, CountTail
  <2>2. Executed = {x \in {fr} : x.ty = "C_SC" /\ ~x.sel /\ Len(x.obj) = 1}
    BY <1>2 DEF Executed
  <2> HIDE DEF fr
  <2>3. CASE fr \in Execs
    <3>1. fr.ty = "C_SC" /\ ~fr.sel /\ Len(fr.obj) = 1 /\ fr \in Intact /\ fr \in Asdus
      BY <2>3 DEF Execs, Intact
    <3>2. Executed = {fr}
      BY <2>2, <3>1, Zenon
    <3>3. Cardinality({fr}) = 1
      BY FS_Singleton
    <3>4. fr.obj = <<"point">>
      <4>1. fr.obj \in Seq(Objects) /\ Len(fr.obj) = 1 /\ fr.obj[1] = "point"
        BY <3>1, AsduFields DEF Intact
      <4>2. QED
        BY <4>1
    <3>5. QED
      BY <1>2, <2>1, <2>3, <3>2, <3>3, <3>4 DEF fr
  <2>4. CASE fr \notin Execs
    <3>1. ~(fr.ty = "C_SC" /\ ~fr.sel /\ Len(fr.obj) = 1)
      <4>1. CASE fr \in Intact
        BY <2>4, <4>1 DEF Execs
      <4>2. CASE fr \notin Intact
        BY <2>1, <4>2, LineFrames
      <4>3. QED
        BY <4>1, <4>2
    <3>2. Executed = {}
      BY <2>2, <3>1, Zenon
    <3>3. QED
      BY <1>2, <2>1, <2>4, <3>2, FS_EmptySet DEF fr
  <2>5. QED
    BY <2>3, <2>4
<1>3. QED
  BY <1>1, <1>2

LEMMA AckedOK == \A out \in Seq(Line) : Acked(out) = Count(out, Acks)
<1> TAKE out \in Seq(Line)
<1>1. ASSUME NEW i \in 1 .. Len(out)
      PROVE  (out[i].ty = "C_SC" /\ out[i].cot = "ACTCON" /\ Len(out[i].obj) = 1) <=> out[i] \in Acks
  <2> DEFINE fr == out[i]
  <2>1. fr \in Line
    OBVIOUS
  <2> HIDE DEF fr
  <2>2. CASE fr \in Intact
    BY <2>2 DEF Acks, fr
  <2>3. CASE fr \notin Intact
    BY <2>1, <2>3, LineFrames DEF Acks, fr
  <2>4. QED
    BY <2>2, <2>3
<1>2. {i \in 1 .. Len(out) : /\ out[i].ty = "C_SC" /\ out[i].cot = "ACTCON"
                             /\ Len(out[i].obj) = 1} = {i \in 1 .. Len(out) : out[i] \in Acks}
  BY <1>1, Zenon
<1>3. QED
  BY <1>2, Zenon DEF Acked, Count

(* The copies a pass leaves: yk_bak is freed only when no machine needs it.*)
LEMMA FreedOK ==
  ASSUME Typed, NEW w, SlaveOK(w, NewBak), w.ev \cap YkEnds # {} => w.st.yk = "IDLE"
  PROVE  LET b == FreedCopy(w, NewBak)
         IN  /\ b = [yk |-> b.yk, yt |-> b.yt]
             /\ \A k \in {"yk", "yt"} : b[k] \in Intact \cup {NoCopy}
             /\ Backed(w.st, b)
<1> DEFINE b == FreedCopy(w, NewBak)
<1>1. /\ NewBak = [yk |-> NewBak.yk, yt |-> NewBak.yt]
      /\ NewBak.yk \in Intact \cup {NoCopy} /\ NewBak.yt \in Intact \cup {NoCopy}
  <2>1. CASE down = <<>>
    BY <2>1 DEF NewBak, Typed
  <2>2. CASE down # <<>>
    <3>1. Head(down) \in Line /\ NewBak = Backup(Head(down))
      BY <2>2 DEF NewBak, Typed
    <3>2. QED
      BY <3>1, BackupOK
  <2>3. QED
    BY <2>1, <2>2
<1>2. CASE w.ev \cap YkEnds # {}
  <2>1. b = [NewBak EXCEPT !.yk = NoCopy]
    BY <1>2 DEF FreedCopy, YkEnds
  <2>2. b = [yk |-> NoCopy, yt |-> NewBak.yt]
    BY <1>1, <2>1
  <2>3. b.yk = NoCopy /\ b.yt = NewBak.yt /\ b["yk"] = NoCopy /\ b["yt"] = NewBak.yt
    BY <2>2
  <2> HIDE DEF b
  <2>4. Backed(w.st, b)
    BY <1>2, <2>3 DEF Backed, SlaveOK
  <2>5. QED
    BY <1>1, <2>2, <2>3, <2>4 DEF b
<1>3. CASE w.ev \cap YkEnds = {}
  <2>1. b = NewBak
    BY <1>3 DEF FreedCopy, YkEnds
  <2> HIDE DEF b
  <2>2. QED
    BY <1>1, <2>1 DEF SlaveOK, b
<1>4. QED
  BY <1>2, <1>3
LEMMA SlaveExecInv == LineInv /\ SlaveExec => LineInv'
<1> SUFFICES ASSUME LineInv, SlaveExec PROVE LineInv'
  OBVIOUS
<1>1. PICK w \in iec101_s_state_machine(iec101_s_frame_parse) :
        /\ iec101_s_exec_thread(w)
        /\ told' = [yk |-> told.yk + Acked(w.out) - Cardinality(Executed),
                    call |-> told.call + Succeeded(w),
                    damaged |-> told.damaged \/ \E fr \in Executed : fr.obj # <<"point">>]
  BY DEF SlaveExec
<1>2. SlaveOK(w, NewBak) /\ (w.ev \cap YkEnds # {} => w.st.yk = "IDLE")
  BY SlavePass
<1>3. /\ Typed /\ down \in Seq(Line) /\ up \in Seq(Line) /\ told.yk \in Int /\ told.call \in Int
  BY DEF LineInv, Typed
<1> DEFINE rest == IF down = <<>> THEN down ELSE Tail(down)
           b == FreedCopy(w, NewBak)
           n == Cardinality(Executed)
<1>4. /\ rest \in Seq(Line) /\ n \in Nat /\ Count(rest, Execs) \in Nat
      /\ Count(down, Execs) = Count(rest, Execs) + n
      /\ \A fr \in Executed : fr.obj = <<"point">>
  BY <1>3, ExecutedOK, Zenon
<1>5. /\ s' = w.st /\ up' = up \o w.out /\ down' = rest /\ s_bak' = b
      /\ UNCHANGED <<m, m_app, m_cmds, m_yt, s_spon, lost, beats>>
  BY <1>1 DEF iec101_s_exec_thread, NewBak, SlaveExec, masterVars
<1>6. /\ told'.yk = told.yk + Acked(w.out) - n
      /\ told'.call = told.call + Succeeded(w)
      /\ told' = [yk |-> told'.yk, call |-> told'.call, damaged |-> FALSE]
  <2>1. told.damaged = FALSE
    BY DEF LineInv, Whole
  <2>2. (told.damaged \/ \E fr \in Executed : fr.obj # <<"point">>) = FALSE
    BY <1>4, <2>1, Zenon
  <2>3. told' = [yk |-> told.yk + Acked(w.out) - n, call |-> told.call + Succeeded(w), damaged |-> FALSE]
    BY <1>1, <2>2, Zenon
  <2>4. QED
    BY <2>3
<1>7. /\ b = [yk |-> b.yk, yt |-> b.yt] /\ Backed(w.st, b)
      /\ \A k \in {"yk", "yt"} : b[k] \in Intact \cup {NoCopy}
  BY <1>2, <1>3, FreedOK
<1> HIDE DEF rest, b, n
<1>8. /\ w.st \in Stations /\ w.st.callpulse = "IDLE" /\ w.out \in Seq(Line)
      /\ Count(w.out, Terms) <= Succeeded(w)
      /\ Count(w.out, {LinkStatus}) > 0 \/ s.init \in Up => w.st.init \in Up
  BY <1>2 DEF SlaveOK
<1>9. Succeeded(w) \in Nat
  BY DEF Succeeded
<1>10. /\ up' \in Seq(Line)
       /\ Count(up', Terms) = Count(up, Terms) + Count(w.out, Terms)
       /\ Count(up', Acks) = Count(up, Acks) + Acked(w.out)
       /\ Count(up', {LinkStatus}) = Count(up, {LinkStatus}) + Count(w.out, {LinkStatus})
  <2>1. up \o w.out \in Seq(Line)
    BY <1>3, <1>8
  <2>2. Count(up \o w.out, Terms) = Count(up, Terms) + Count(w.out, Terms)
    BY <1>3, <1>8, CountConcat
  <2>3. Count(up \o w.out, Acks) = Count(up, Acks) + Count(w.out, Acks)
    BY <1>3, <1>8, CountConcat
  <2>4. Count(up \o w.out, {LinkStatus}) = Count(up, {LinkStatus}) + Count(w.out, {LinkStatus})
    BY <1>3, <1>8, CountConcat
  <2>5. QED
    BY <1>5, <1>8, <2>1, <2>2, <2>3, <2>4, AckedOK, Zenon
<1>11. /\ Count(up, Terms) \in Nat /\ Count(up, Acks) \in Nat /\ Count(up, {LinkStatus}) \in Nat
       /\ Count(w.out, Terms) \in Nat /\ Acked(w.out) \in Nat /\ Count(w.out, {LinkStatus}) \in Nat
  BY <1>3, <1>8, CountFinite, AckedOK
<1>18. told'.yk = told.yk + Acked(w.out) - n /\ told'.call = told.call + Succeeded(w)
  BY <1>6
<1>12. Typed'
  <2>1. told'.yk \in Int /\ told'.call \in Int
    <3>1. \A i \in Int : \A j, k \in Nat : i + j - k \in Int /\ i + j \in Int
      OBVIOUS
    <3>2. n \in Nat /\ Acked(w.out) \in Nat /\ Succeeded(w) \in Nat
      BY <1>4, <1>9, <1>11, Zenon
    <3>3. told.yk \in Int /\ told.call \in Int
      BY <1>3, Zenon
    <3>4. QED
      BY <1>18, <3>1, <3>2, <3>3, Zenon
  <2>2. s_bak' = [yk |-> s_bak'.yk, yt |-> s_bak'.yt] /\ \A k \in {"yk", "yt"} : s_bak'[k] \in Intact \cup {NoCopy}
    BY <1>5, <1>7
  <2>3. QED
    BY <1>4, <1>5, <1>8, <1>10, <2>1, <2>2 DEF LineInv, Typed
<1>13. Connected'
  BY <1>5, <1>8, <1>10, <1>11 DEF LineInv, Connected
<1>14. TermsPaid'
  <2>1. Owed(m)' = Owed(m) /\ Owed(m) \in Nat
    BY <1>5 DEF Owed
  <2>2. told.call >= Count(up, Terms) + Owed(m)
    BY DEF LineInv, TermsPaid
  <2>3. told'.call >= Count(up', Terms) + Owed(m)
    <3>1. Count(w.out, Terms) <= Succeeded(w) /\ Count(up', Terms) = Count(up, Terms) + Count(w.out, Terms)
      BY <1>8, <1>10
    <3>2. QED
      BY <1>3, <1>9, <1>11, <1>18, <2>1, <2>2, <3>1, SMTT(30)
  <2>4. QED
    BY <1>5, <2>3 DEF TermsPaid, Owed
<1>15. CommandsPaid'
  <2>1. told.yk >= Count(up, Acks) + Count(down, Execs)
    BY DEF LineInv, CommandsPaid
  <2>2. told'.yk >= Count(up', Acks) + Count(rest, Execs)
    <3>1. Count(up', Acks) = Count(up, Acks) + Acked(w.out)
      BY <1>10
    <3>2. n \in Nat /\ Count(rest, Execs) \in Nat /\ Count(down, Execs) = Count(rest, Execs) + n
      BY <1>4
    <3>3. QED
      BY <1>3, <1>11, <1>18, <2>1, <3>1, <3>2, SMTT(30)
  <2>3. QED
    BY <1>5, <2>2 DEF CommandsPaid, Count, Execs, Intact
<1>16. Whole' /\ Silent' /\ Backed(s, s_bak)'
  BY <1>5, <1>6, <1>7, <1>8 DEF Whole, Silent, Backed
<1>17. QED
  BY <1>12, <1>13, <1>14, <1>15, <1>16 DEF LineInv
-----------------------------------------------------------------------------
(* A pass of the master's exec thread.                                     *)

(* What the frame it takes from the line allows it.                        *)
Taken(S) == IF up # <<>> /\ Head(up) \in S THEN 1 ELSE 0

MasterOK(w) ==
  /\ DOMAIN w = {"st", "out", "ev", "set"}
  /\ w.st \in Stations
  /\ w.out \in Seq(Line) /\ Count(w.out, Execs) <= Taken(Acks)
  /\ Owed(w.st) + Succeeded(w) <= Owed(m) + Taken(Terms)
  /\ w.st.init \in Up => m.init \in Up \/ Taken({LinkStatus}) = 1
  /\ "yt_sent" \in w.ev => m_yt < MaxYt

LEMMA MasterSays ==
  ASSUME NEW w, MasterOK(w), NEW g,
         DOMAIN g = {"st", "out", "ev", "set"}, g.st \in Stations,
         Owed(g.st) + Succeeded(g) <= Owed(w.st) + Succeeded(w),
         g.st.init \in Up => w.st.init \in Up, "yt_sent" \in g.ev => "yt_sent" \in w.ev \/ m_yt < MaxYt,
         \/ g.out = w.out
         \/ \E fr \in Line : fr \notin Execs /\ g.out = Append(w.out, fr)
  PROVE  MasterOK(g)
<1>1. /\ Owed(g.st) \in Nat /\ Succeeded(g) \in Nat /\ Owed(w.st) \in Nat /\ Succeeded(w) \in Nat
      /\ Owed(m) \in Nat /\ Taken(Terms) \in Nat
  BY DEF Owed, Succeeded, Taken
<1>2. g.out \in Seq(Line) /\ Count(g.out, Execs) = Count(w.out, Execs)
  <2>1. CASE g.out = w.out
    BY <2>1 DEF MasterOK
  <2>2. CASE \E fr \in Line : fr \notin Execs /\ g.out = Append(w.out, fr)
    <3>1. PICK fr \in Line : fr \notin Execs /\ g.out = Append(w.out, fr)
      BY <2>2
    <3>2. w.out \in Seq(Line)
      BY DEF MasterOK
    <3>3. QED
      BY <3>1, <3>2, CountAppend
  <2>3. QED
    BY <2>1, <2>2
<1>3. Owed(g.st) + Succeeded(g) <= Owed(m) + Taken(Terms)
  <2>1. Owed(w.st) + Succeeded(w) <= Owed(m) + Taken(Terms)
    BY DEF MasterOK
  <2>2. QED
    BY <1>1, <2>1
<1>4. QED
  BY <1>2, <1>3 DEF MasterOK

(* The requests of the master execute nothing.                             *)
LEMMA MasterPlain ==
  /\ Fixed("REQ_USR_DATA_1") \in Line /\ Fixed("REQ_USR_DATA_1") \notin Execs
  /\ Fixed("REQ_USR_DATA_2") \in Line /\ Fixed("REQ_USR_DATA_2") \notin Execs
  /\ Fixed("REQ_LINK_STATUS") \in Line /\ Fixed("REQ_LINK_STATUS") \notin Execs
  /\ Fixed("RESET_LINK") \in Line /\ Fixed("RESET_LINK") \notin Execs
<1>1. {"REQ_USR_DATA_1", "REQ_USR_DATA_2", "REQ_LINK_STATUS", "RESET_LINK"} \subseteq FixedFuncs
  BY DEF FixedFuncs
<1>2. QED
  BY <1>1, FixedFrames, Zenon

LEMMA MasterBegins ==
  ASSUME m \in Stations
  PROVE  /\ MasterOK(Work(m)) /\ Work(m).st = m /\ Work(m).out \in Seq(Line)
         /\ Count(Work(m).out, Execs) = 0 /\ Succeeded(Work(m)) = 0 /\ "yt_sent" \notin Work(m).ev
<1>1. PICK q \in Seq(Line) : q = <<>>
  BY CountEmpty, Zenon
<1>2. Count(q, Execs) = 0
  BY <1>1, CountEmpty, Zenon
<1>3. /\ DOMAIN Work(m) = {"st", "out", "ev", "set"}
      /\ Work(m).st = m /\ Work(m).out = q /\ Work(m).ev = {}
  BY <1>1 DEF Work
<1>4. Succeeded(Work(m)) = 0 /\ "yt_sent" \notin Work(m).ev
  BY <1>3 DEF Succeeded
<1>5. Owed(m) \in Nat /\ Taken(Terms) \in {0, 1} /\ Taken(Acks) \in {0, 1}
  BY DEF Owed, Taken
<1>6. MasterOK(Work(m))
  BY <1>2, <1>3, <1>4, <1>5 DEF MasterOK
<1>7. QED
  BY <1>2, <1>3, <1>4, <1>6

(* A frame of data with its answer.                                        *)
LEMMA MasterAnswers ==
  ASSUME NEW w, MasterOK(w)
  PROVE  /\ MasterOK(iec101_m_build_request_user_ack(w))
         /\ MasterOK(iec101_m_build_request_user_ack([w EXCEPT !.st.callall = "YC"]))
         /\ MasterOK(iec101_m_build_request_user_ack([w EXCEPT !.st.callall = "YX"]))
         /\ MasterOK(iec101_m_build_request_user_ack([w EXCEPT !.st.callpulse = "YM"]))
<1>0. /\ DOMAIN w = {"st", "out", "ev", "set"} /\ w.st \in Stations
  BY DEF MasterOK
<1>1. ASSUME NEW g, g \in {iec101_m_build_request_user_ack(w),
                           iec101_m_build_request_user_ack([w EXCEPT !.st.callall = "YC"]),
                           iec101_m_build_request_user_ack([w EXCEPT !.st.callall = "YX"]),
                           iec101_m_build_request_user_ack([w EXCEPT !.st.callpulse = "YM"])}
      PROVE  MasterOK(g)
  <2>1. /\ DOMAIN g = {"st", "out", "ev", "set"} /\ g.ev = w.ev
        /\ g.out = Append(w.out, Fixed("REQ_USR_DATA_1"))
        /\ \/ g.st = w.st \/ g.st = [w.st EXCEPT !.callall = "YC"]
           \/ g.st = [w.st EXCEPT !.callall = "YX"] \/ g.st = [w.st EXCEPT !.callpulse = "YM"]
    BY <1>0, <1>1 DEF iec101_m_build_request_user_ack, Send
  <2>2. /\ g.st \in Stations /\ g.st.init = w.st.init
        /\ g.st.callall \in {w.st.callall, "YC", "YX"}
    BY <1>0, <2>1 DEF Stations, CallStates
  <2>3. Owed(g.st) + Succeeded(g) <= Owed(w.st) + Succeeded(w)
    BY <2>1, <2>2 DEF Owed, Succeeded
  <2>4. QED
    BY <2>1, <2>2, <2>3, MasterSays, MasterPlain
<1>2. QED
  BY <1>1
(* The end of an interrogation is reported only on a frame that says so.   *)
LEMMA MasterCalls ==
  ASSUME NEW fr \in Intact, fr = Head(up), up # <<>>, fr.ty \in {"C_IC", "M_IT"},
         NEW w, MasterOK(w), Succeeded(w) = 0
  PROVE  MasterOK(iec101_m_asdu_call_all(w, fr))
<1> DEFINE g == iec101_m_asdu_call_all(w, fr)
<1>0. DOMAIN w = {"st", "out", "ev", "set"} /\ w.st \in Stations
  BY DEF MasterOK
<1>1. CASE fr.cot = "ACTTERM"
  <2>1. /\ DOMAIN g = {"st", "out", "ev", "set"} /\ g.ev = w.ev /\ g.out = w.out
        /\ g.st = [w.st EXCEPT !.callall = "SUCCESS"]
    BY <1>0, <1>1 DEF iec101_m_asdu_call_all
  <2> HIDE DEF g
  <2>2. g.st \in Stations /\ g.st.init = w.st.init
    BY <1>0, <2>1 DEF Stations, CallStates
  <2>3. fr \in Terms
    BY <1>1 DEF Terms
  <2>4. Taken(Terms) = 1
    BY <2>3 DEF Taken
  <2>5. Owed(g.st) \in {0, 1} /\ Owed(m) \in Nat /\ Succeeded(g) = 0
    BY <2>1 DEF Owed, Succeeded
  <2>6. MasterOK(g)
    BY <2>1, <2>2, <2>4, <2>5 DEF MasterOK
  <2>7. QED
    BY <2>6 DEF g
<1>2. CASE fr.cot = "ACTCON"
  <2>1. g = iec101_m_build_request_user_ack([w EXCEPT !.st.callall = "YX"])
    BY <1>2 DEF iec101_m_asdu_call_all
  <2>2. QED
    BY <2>1, MasterAnswers
<1>3. CASE fr.cot \notin {"ACTCON", "ACTTERM"}
  <2>1. g = w
    BY <1>3 DEF iec101_m_asdu_call_all
  <2>2. QED
    BY <2>1
<1>4. QED
  BY <1>1, <1>2, <1>3

(* A command is executed only on its acknowledgement, with its objects.    *)
LEMMA MasterExecutes ==
  ASSUME m \in Stations, NEW fr \in Intact, fr = Head(up), up # <<>>, fr.ty = "C_SC"
  PROVE  MasterOK(iec101_m_asdu_yk(Work(m), fr))
<1> DEFINE w == Work(m)
           g == iec101_m_asdu_yk(w, fr)
           x == [fr EXCEPT !.cot = "ACT", !.sel = FALSE]
<1>0. /\ MasterOK(w) /\ w.st = m /\ w.out \in Seq(Line) /\ Count(w.out, Execs) = 0
      /\ DOMAIN w = {"st", "out", "ev", "set"}
  BY MasterBegins DEF MasterOK
<1> HIDE DEF w
<1>1. /\ DOMAIN g = {"st", "out", "ev", "set"} /\ g.ev = w.ev
      /\ \/ g.st = [w.st EXCEPT !.yk = "EXEC"]
         \/ g.st = [w.st EXCEPT !.yk = "SUCCESS"]
         \/ g.st = [w.st EXCEPT !.yk = "ODD"]
      /\ \/ g.out = w.out
         \/ g.out = Append(w.out, x) /\ fr.cot = "ACTCON"
  BY <1>0 DEF iec101_m_asdu_yk, iec101_m_build_yk_ack, Send
<1> HIDE DEF g
<1>2. g.st \in Stations /\ g.st.init = m.init /\ g.st.callall = m.callall
  BY <1>0, <1>1 DEF Stations, CmdStates
<1>3. Owed(g.st) + Succeeded(g) <= Owed(w.st) + Succeeded(w)
  BY <1>0, <1>1, <1>2 DEF Owed, Succeeded
<1>4. x \in Intact /\ x.obj = fr.obj /\ x.ty = "C_SC"
  <2>1. fr \in Asdus /\ (Len(fr.obj) = 1 => fr.obj[1] = "point")
    BY DEF Intact
  <2>2. x = Asdu(fr.ty, "ACT", FALSE, fr.obj)
    BY <2>1, Recast
  <2>3. fr.ty \in AsduTypes /\ "ACT" \in Reasons /\ fr.obj \in Seq(Objects)
    BY <2>1, AsduFields DEF Reasons
  <2>4. x \in Asdus /\ x.obj = fr.obj /\ x.ty = fr.ty
    <3>1. /\ Asdu(fr.ty, "ACT", FALSE, fr.obj) \in Asdus /\ Asdu(fr.ty, "ACT", FALSE, fr.obj).ty = fr.ty
          /\ Asdu(fr.ty, "ACT", FALSE, fr.obj).obj = fr.obj
      BY <2>3, Zenon DEF Asdu, Asdus
    <3> HIDE DEF x
    <3>2. QED
      BY <2>2, <3>1, Zenon
  <2> HIDE DEF x
  <2>5. QED
    BY <2>1, <2>4 DEF Intact
<1> HIDE DEF x
<1>5. x \in Line
  BY <1>4 DEF Line
<1>6. CASE g.out = w.out \/ x \notin Execs
  <2>1. \/ g.out = w.out
        \/ \E y \in Line : y \notin Execs /\ g.out = Append(w.out, y)
    BY <1>1, <1>5, <1>6
  <2>2. /\ DOMAIN g = {"st", "out", "ev", "set"} /\ g.ev = w.ev
        /\ g.st.init \in Up => w.st.init \in Up
    BY <1>0, <1>1, <1>2
  <2>3. QED
    BY <1>0, <1>2, <1>3, <2>1, <2>2, MasterSays DEF g, w
<1>7. CASE g.out = Append(w.out, x) /\ fr.cot = "ACTCON" /\ x \in Execs
  <2>1. Len(fr.obj) = 1
    BY <1>4, <1>7 DEF Execs
  <2>2. fr \in Acks
    BY <1>7, <2>1 DEF Acks
  <2>3. Taken(Acks) = 1
    BY <2>2 DEF Taken
  <2>4. g.out \in Seq(Line) /\ Count(g.out, Execs) = 1
    <3>1. Append(w.out, x) \in Seq(Line) /\ Count(Append(w.out, x), Execs) = Count(w.out, Execs) + 1
      BY <1>0, <1>5, <1>7, CountAppend
    <3>2. QED
      BY <1>0, <1>7, <3>1
  <2>5. MasterOK(w) /\ Owed(g.st) + Succeeded(g) <= Owed(m) + Taken(Terms)
    <3>1. Owed(w.st) + Succeeded(w) <= Owed(m) + Taken(Terms)
      BY <1>0 DEF MasterOK
    <3>2. /\ Owed(g.st) \in Nat /\ Succeeded(g) \in Nat /\ Owed(w.st) \in Nat /\ Succeeded(w) \in Nat
          /\ Owed(m) \in Nat /\ Taken(Terms) \in Nat
      BY DEF Owed, Succeeded, Taken
    <3>3. QED
      BY <1>0, <1>3, <3>1, <3>2
  <2>6. QED
    BY <1>0, <1>1, <1>2, <2>3, <2>4, <2>5 DEF MasterOK, w, g
<1>8. QED
  BY <1>1, <1>6, <1>7 DEF g, w

LEMMA MasterSets ==
  ASSUME m \in Stations, NEW fr \in Intact, fr.ty = "C_SE", NEW g \in iec101_m_asdu_yt(Work(m), fr)
  PROVE  MasterOK(g)
<1> DEFINE w == Work(m)
<1>0. /\ MasterOK(w) /\ w.st = m /\ w.st \in Stations
      /\ DOMAIN w = {"st", "out", "ev", "set"}
  BY MasterBegins DEF MasterOK
<1> HIDE DEF w
<1>1. ASSUME NEW b \in BOOLEAN
      PROVE  [fr EXCEPT !.cot = "ACT", !.sel = b] \in Line /\ [fr EXCEPT !.cot = "ACT", !.sel = b] \notin Execs
  <2> DEFINE x == [fr EXCEPT !.cot = "ACT", !.sel = b]
  <2>1. fr \in Asdus
    BY DEF Intact
  <2>2. x = Asdu(fr.ty, "ACT", b, fr.obj)
    BY <2>1, Recast
  <2>3. fr.ty \in AsduTypes /\ "ACT" \in Reasons /\ fr.obj \in Seq(Objects)
    BY <2>1, AsduFields DEF Reasons
  <2>4. /\ Asdu(fr.ty, "ACT", b, fr.obj) \in Asdus /\ Asdu(fr.ty, "ACT", b, fr.obj).ty = fr.ty
    BY <2>3, Zenon DEF Asdu, Asdus
  <2> HIDE DEF x
  <2>5. x \in Asdus /\ x.ty = "C_SE"
    BY <2>2, <2>4, Zenon
  <2>6. QED
    BY <2>5, DataFrames DEF x
<1>2. \/ g.ev = w.ev /\ g.out = w.out
      \/ /\ m_yt < MaxYt
         /\ g.ev = {"yt_sent"}
         /\ \E b \in BOOLEAN : g.out = Append(w.out, [fr EXCEPT !.cot = "ACT", !.sel = b])
  BY <1>0 DEF iec101_m_asdu_yt, iec101_m_build_yt_ack, Send, w
<1>3. /\ DOMAIN g = {"st", "out", "ev", "set"}
      /\ \/ g.st = [w.st EXCEPT !.yt = "EXEC"]
         \/ g.st = [w.st EXCEPT !.yt = "SUCCESS"]
         \/ g.st = [w.st EXCEPT !.yt = "ODD"]
  BY <1>0 DEF iec101_m_asdu_yt, iec101_m_build_yt_ack, Send, w
<1>4. g.st \in Stations /\ g.st.init = m.init /\ g.st.callall = m.callall
  BY <1>0, <1>3 DEF Stations, CmdStates
<1>5. Owed(g.st) + Succeeded(g) <= Owed(w.st) + Succeeded(w)
  <2>1. g.ev = w.ev \/ g.ev = {"yt_sent"}
    BY <1>2, Zenon
  <2>2. Succeeded(g) <= Succeeded(w) /\ Succeeded(g) \in Nat /\ Succeeded(w) \in Nat
    BY <2>1 DEF Succeeded
  <2>3. Owed(g.st) = Owed(w.st) /\ Owed(g.st) \in Nat
    BY <1>0, <1>4 DEF Owed
  <2>4. QED
    BY <2>2, <2>3
<1>6. \/ g.out = w.out
      \/ \E y \in Line : y \notin Execs /\ g.out = Append(w.out, y)
  BY <1>1, <1>2, Zenon
<1>7. QED
  BY <1>0, <1>2, <1>3, <1>4, <1>5, <1>6, MasterSays
LEMMA MasterParses ==
  ASSUME m \in Stations, up \in Seq(Line), NEW g \in iec101_m_frame_parse
  PROVE  MasterOK(g)
<1> DEFINE w == Work(m)
           fr == Head(up)
<1>0. /\ MasterOK(w) /\ w.st = m /\ w.st \in Stations /\ Succeeded(w) = 0
      /\ DOMAIN w = {"st", "out", "ev", "set"}
  BY MasterBegins DEF MasterOK
<1>1. CASE up = <<>>
  BY <1>0, <1>1 DEF iec101_m_frame_parse
<1>2. CASE up # <<>> /\ fr.f = 10
  <2>1. fr \in Line /\ g = iec101_m_deal_10(w, fr)
    BY <1>2 DEF iec101_m_frame_parse
  <2>2. fr.fn = "RES_LINK_STATUS" => fr = LinkStatus
    <3>1. fr \notin Intact
      BY <1>2, <2>1, LineFrames
    <3>2. PICK fn \in FixedFuncs : fr = Fixed(fn)
      BY <2>1, <3>1 DEF Line
    <3>3. fr.fn = fn
      BY <3>2 DEF Fixed
    <3>4. QED
      BY <3>2, <3>3, Zenon DEF LinkStatus
  <2> HIDE DEF w, fr
  <2>3. CASE fr.fn = "RES_LINK_STATUS"
    <3>1. /\ DOMAIN g = {"st", "out", "ev", "set"} /\ g.ev = w.ev
          /\ g.out = Append(w.out, Fixed("RESET_LINK")) /\ g.st = [w.st EXCEPT !.init = "CONNECT_OK"]
      BY <1>0, <2>1, <2>3 DEF iec101_m_deal_10, iec101_m_build_reset_remote_link, Send
    <3>2. g.st \in Stations /\ Owed(g.st) = Owed(w.st) /\ Succeeded(g) = Succeeded(w)
      BY <1>0, <3>1 DEF Stations, LinkStates, Owed, Succeeded
    <3>3. Taken({LinkStatus}) = 1
      BY <1>2, <2>2, <2>3 DEF Taken, fr
    <3>4. g.out \in Seq(Line) /\ Count(g.out, Execs) = Count(w.out, Execs)
      BY <1>0, <3>1, CountAppend, MasterPlain DEF MasterOK
    <3>5. QED
      BY <1>0, <3>1, <3>2, <3>3, <3>4 DEF MasterOK
  <2>4. CASE fr.fn # "RES_LINK_STATUS"
    <3>1. /\ DOMAIN g = {"st", "out", "ev", "set"} /\ g.ev = w.ev /\ g.out = w.out
          /\ g.st = w.st \/ g.st = [w.st EXCEPT !.tack = 1]
      BY <1>0, <2>1, <2>4 DEF iec101_m_deal_10
    <3>2. /\ g.st \in Stations /\ g.st.init = w.st.init
          /\ Owed(g.st) + Succeeded(g) <= Owed(w.st) + Succeeded(w)
      <4>1. g.st \in Stations /\ g.st.init = w.st.init /\ g.st.callall = w.st.callall
        BY <1>0, <3>1 DEF Stations
      <4>2. QED
        BY <3>1, <4>1 DEF Owed, Succeeded
    <3>3. QED
      BY <1>0, <3>1, <3>2, MasterSays
  <2>5. QED
    BY <2>3, <2>4
<1>3. CASE up # <<>> /\ fr.f # 10
  <2>1. fr \in Intact /\ fr.ty \in AsduTypes /\ fr.cot \in Reasons
    <3>1. fr \in Line
      BY <1>3
    <3>2. fr \in Intact /\ fr \in Asdus
      BY <1>3, <3>1, LineFrames DEF Intact
    <3>3. QED
      BY <3>2, AsduFields
  <2>2. g \in iec101_m_deal_68(w, fr) /\ up # <<>>
    BY <1>3 DEF iec101_m_frame_parse
  <2>3. CASE fr.ty = "M_SP"
    <3>1. g = iec101_m_asdu_yx(w, fr)
      BY <2>2, <2>3 DEF iec101_m_deal_68
    <3> HIDE DEF w, fr
    <3>2. QED
      BY <1>0, <3>1, MasterAnswers DEF iec101_m_asdu_yx
  <2>4. CASE fr.ty \in {"M_ME_NA", "M_ME_NC"}
    <3>1. g = iec101_m_asdu_yc(w, fr)
      BY <2>2, <2>4 DEF iec101_m_deal_68
    <3> HIDE DEF w, fr
    <3>2. \/ g = w \/ g = iec101_m_build_request_user_ack(w)
          \/ g = iec101_m_build_request_user_ack([w EXCEPT !.st.callall = "YC"])
      BY <3>1 DEF iec101_m_asdu_yc
    <3>3. QED
      BY <1>0, <3>2, MasterAnswers
  <2>5. CASE fr.ty \in {"M_IT", "C_IC"}
    <3>1. g = iec101_m_asdu_call_all(w, fr)
      <4>1. fr.cot # "REQ"
        BY <2>1 DEF Reasons
      <4>2. iec101_m_asdu_ym(w, fr) = w
        BY <4>1 DEF iec101_m_asdu_ym
      <4>3. QED
        BY <2>2, <2>5, <4>2 DEF iec101_m_deal_68
    <3> HIDE DEF w
    <3>2. fr.ty \in {"C_IC", "M_IT"}
      BY <2>5
    <3>3. QED
      BY <1>0, <2>1, <2>2, <3>1, <3>2, MasterCalls
  <2>6. CASE fr.ty = "C_CI"
    <3>1. g = iec101_m_asdu_call_pulse(w, fr)
      BY <2>2, <2>6 DEF iec101_m_deal_68
    <3> HIDE DEF w, fr
    <3>2. CASE fr.cot = "ACTCON"
      BY <1>0, <3>1, <3>2, MasterAnswers DEF iec101_m_asdu_call_pulse
    <3>3. CASE fr.cot # "ACTCON"
      <4>1. /\ DOMAIN g = {"st", "out", "ev", "set"} /\ g.ev = w.ev /\ g.out = w.out
            /\ g.st = w.st \/ g.st = [w.st EXCEPT !.callpulse = "SUCCESS"]
        BY <1>0, <3>1, <3>3 DEF iec101_m_asdu_call_pulse
      <4>2. g.st \in Stations /\ g.st.init = w.st.init /\ g.st.callall = w.st.callall
        BY <1>0, <4>1 DEF Stations, CallStates
      <4>3. Owed(g.st) + Succeeded(g) <= Owed(w.st) + Succeeded(w)
        BY <4>1, <4>2 DEF Owed, Succeeded
      <4>4. QED
        BY <1>0, <4>1, <4>2, <4>3, MasterSays
    <3>4. QED
      BY <3>2, <3>3
  <2>7. CASE fr.ty = "C_SC"
    <3>1. g = iec101_m_asdu_yk(Work(m), fr)
      BY <2>2, <2>7 DEF iec101_m_deal_68
    <3>2. QED
      BY <2>1, <2>2, <2>7, <3>1, MasterExecutes
  <2>8. CASE fr.ty = "C_SE"
    <3>1. g \in iec101_m_asdu_yt(Work(m), fr)
      BY <2>2, <2>8 DEF iec101_m_deal_68
    <3>2. QED
      BY <2>1, <2>8, <3>1, MasterSets
  <2>9. QED
    BY <2>1, <2>3, <2>4, <2>5, <2>6, <2>7, <2>8 DEF AsduTypes
<1>4. QED
  BY <1>1, <1>2, <1>3
LEMMA MasterWork ==
  ASSUME NEW w, MasterOK(w)
  PROVE  MasterOK(iec101_m_state_machine_work(w))
<1> DEFINE g == iec101_m_state_machine_work(w)
<1>0. DOMAIN w = {"st", "out", "ev", "set"} /\ w.st \in Stations
  BY DEF MasterOK
<1>1. Owed(w.st) \in {0, 1} /\ Succeeded(w) \in {0, 1}
  BY DEF Owed, Succeeded
<1>2. CASE w.st.init = "INIT"
  <2>1. /\ DOMAIN g = {"st", "out", "ev", "set"} /\ g.ev = w.ev /\ g.out = w.out
        /\ g.st = [iec101_m_reset_param(w.st) EXCEPT !.init = "OPEN"]
    BY <1>0, <1>2 DEF iec101_m_state_machine_work
  <2> HIDE DEF g
  <2>2. g.st \in Stations /\ g.st.init = "OPEN" /\ g.st.callall = "IDLE"
    BY <1>0, <2>1 DEF Stations, iec101_m_reset_param, LinkStates, CallStates, CmdStates
  <2>3. Owed(g.st) + Succeeded(g) <= Owed(w.st) + Succeeded(w) /\ g.st.init \notin Up
    BY <1>1, <2>1, <2>2 DEF Owed, Succeeded, Up
  <2>4. MasterOK(g)
    BY <2>1, <2>2, <2>3, MasterSays
  <2>5. QED
    BY <2>4 DEF g
<1>3. CASE w.st.init # "INIT"
  <2>1. /\ DOMAIN g = {"st", "out", "ev", "set"} /\ g.ev = w.ev \cup (g.ev \cap {"CONNECTED"})
        /\ \/ g.out = w.out
           \/ g.out = Append(w.out, Fixed("REQ_LINK_STATUS"))
           \/ g.out = Append(w.out, Fixed("REQ_USR_DATA_2"))
        /\ \/ g.st = w.st
           \/ g.st = [w.st EXCEPT !.init = "CONNECT"]
           \/ g.st = [w.st EXCEPT !.tack = 0, !.init = "IDLE"] /\ w.st.init = "CONNECT_OK"
           \/ g.st = [w.st EXCEPT !.due = @ \ {"init"}]
    BY <1>0, <1>3 DEF iec101_m_state_machine_work, iec101_m_build_request_link_status,
                      iec101_m_build_request_user_data, Send, Report, Restart
  <2> HIDE DEF g
  <2>2. /\ g.st \in Stations /\ g.st.callall = w.st.callall
        /\ g.st.init \in Up => w.st.init \in Up
    <3>1. w.st.due \ {"init"} \in SUBSET Timers
      BY <1>0 DEF Stations
    <3>2. QED
      BY <1>0, <2>1, <3>1, ZenonT(40) DEF Stations, LinkStates, Up
  <2>3. Owed(g.st) + Succeeded(g) <= Owed(w.st) + Succeeded(w)
    BY <2>1, <2>2 DEF Owed, Succeeded
  <2>4. "yt_sent" \in g.ev => "yt_sent" \in w.ev
    BY <2>1
  <2>5. MasterOK(g)
    BY <2>1, <2>2, <2>3, <2>4, MasterSays, MasterPlain
  <2>6. QED
    BY <2>5 DEF g
<1>4. QED
  BY <1>2, <1>3

(* What the other machines of the master send, and what they change.       *)
LEMMA AskOK ==
  ASSUME NEW w, MasterOK(w)
  PROVE  /\ DOMAIN AskForData(w) = {"st", "out", "ev", "set"} /\ AskForData(w).ev = w.ev
         /\ AskForData(w).out = w.out \/ AskForData(w).out = Append(w.out, Fixed("REQ_USR_DATA_1"))
         /\ AskForData(w).st = w.st \/ AskForData(w).st = [w.st EXCEPT !.tack = 0]
         /\ MasterOK(AskForData(w))
<1> DEFINE g == AskForData(w)
<1>0. DOMAIN w = {"st", "out", "ev", "set"} /\ w.st \in Stations
  BY DEF MasterOK
<1>1. /\ DOMAIN g = {"st", "out", "ev", "set"} /\ g.ev = w.ev
      /\ g.out = w.out \/ g.out = Append(w.out, Fixed("REQ_USR_DATA_1"))
      /\ g.st = w.st \/ g.st = [w.st EXCEPT !.tack = 0]
  BY <1>0 DEF AskForData, iec101_m_build_request_user_ack, Send
<1> HIDE DEF g
<1>2. g.st \in Stations /\ g.st.init = w.st.init /\ g.st.callall = w.st.callall
  BY <1>0, <1>1 DEF Stations
<1>3. Owed(g.st) + Succeeded(g) <= Owed(w.st) + Succeeded(w)
  BY <1>1, <1>2 DEF Owed, Succeeded
<1>4. MasterOK(g)
  BY <1>1, <1>2, <1>3, MasterSays, MasterPlain
<1>5. QED
  BY <1>1, <1>4 DEF g

LEMMA MasterCallall ==
  ASSUME NEW w, MasterOK(w)
  PROVE  MasterOK(iec101_m_state_machine_callall(w))
<1> DEFINE g == iec101_m_state_machine_callall(w)
<1>0. DOMAIN w = {"st", "out", "ev", "set"} /\ w.st \in Stations
  BY DEF MasterOK
<1>1. Owed(w.st) \in {0, 1} /\ Succeeded(w) \in {0, 1}
  BY DEF Owed, Succeeded
<1>2. CASE w.st.callall = "SUCCESS"
  <2>1. /\ DOMAIN g = {"st", "out", "ev", "set"} /\ g.ev = w.ev \cup {"CALL_ALL_SUCCESS"}
        /\ g.out = Append(w.out, Fixed("REQ_USR_DATA_1")) /\ g.st = [w.st EXCEPT !.callall = "IDLE"]
    BY <1>0, <1>2 DEF iec101_m_state_machine_callall, iec101_m_build_request_user_ack, Report, Send
  <2> HIDE DEF g
  <2>2. g.st \in Stations /\ g.st.init = w.st.init /\ g.st.callall = "IDLE"
    BY <1>0, <2>1 DEF Stations, CallStates
  <2>3. Owed(g.st) + Succeeded(g) <= Owed(w.st) + Succeeded(w)
    BY <1>1, <1>2, <2>1, <2>2 DEF Owed, Succeeded
  <2>4. MasterOK(g)
    BY <2>1, <2>2, <2>3, MasterSays, MasterPlain
  <2>5. QED
    BY <2>4 DEF g
<1>3. CASE w.st.callall = "CONFIRM"
  <2> DEFINE a == AskForData(w)
  <2>1. MasterOK(a) /\ DOMAIN a = {"st", "out", "ev", "set"} /\ a.st \in Stations
    BY AskOK DEF MasterOK
  <2>2. g = a \/ g = [a EXCEPT !.st.callall = "ODD"]
    BY <1>3 DEF iec101_m_state_machine_callall
  <2> HIDE DEF g, a
  <2>3. MasterOK([a EXCEPT !.st.callall = "ODD"])
    <3> DEFINE h == [a EXCEPT !.st.callall = "ODD"]
    <3>1. /\ DOMAIN h = {"st", "out", "ev", "set"} /\ h.ev = a.ev /\ h.out = a.out
          /\ h.st = [a.st EXCEPT !.callall = "ODD"]
      BY <2>1
    <3> HIDE DEF h
    <3>2. h.st \in Stations /\ h.st.init = a.st.init /\ h.st.callall = "ODD"
      BY <2>1, <3>1 DEF Stations, CallStates
    <3>3. Owed(h.st) + Succeeded(h) <= Owed(a.st) + Succeeded(a)
      BY <3>1, <3>2 DEF Owed, Succeeded
    <3>4. MasterOK(h)
      BY <2>1, <3>1, <3>2, <3>3, MasterSays
    <3>5. QED
      BY <3>4 DEF h
  <2>4. QED
    BY <2>1, <2>2, <2>3 DEF g
<1>4. CASE w.st.callall \notin {"SUCCESS", "CONFIRM"}
  <2>1. /\ DOMAIN g = {"st", "out", "ev", "set"} /\ g.ev = w.ev \cup (g.ev \cap {"CALL_ALL_FAILD"})
        /\ g.out = w.out
        /\ \/ g.st = w.st
           \/ g.st = [w.st EXCEPT !.due = @ \ {"callall"}, !.callall = "CONFIRM"]
           \/ g.st = [w.st EXCEPT !.callall = "ODD"]
           \/ g.st = [w.st EXCEPT !.callall = "IDLE"]
    BY <1>0, <1>4 DEF iec101_m_state_machine_callall, Report, Restart
  <2> HIDE DEF g
  <2>2. /\ g.st \in Stations /\ g.st.init = w.st.init
        /\ g.st.callall \in {w.st.callall, "CONFIRM", "ODD", "IDLE"}
    <3>1. w.st.due \ {"callall"} \in SUBSET Timers
      BY <1>0 DEF Stations
    <3>2. CASE g.st = [w.st EXCEPT !.due = @ \ {"callall"}, !.callall = "CONFIRM"]
      BY <1>0, <3>1, <3>2 DEF Stations, CallStates
    <3>3. CASE g.st = w.st \/ g.st = [w.st EXCEPT !.callall = "ODD"] \/ g.st = [w.st EXCEPT !.callall = "IDLE"]
      BY <1>0, <3>3 DEF Stations, CallStates
    <3>4. QED
      BY <2>1, <3>2, <3>3
  <2>3. Owed(g.st) + Succeeded(g) <= Owed(w.st) + Succeeded(w)
    BY <1>1, <2>1, <2>2 DEF Owed, Succeeded
  <2>4. "yt_sent" \in g.ev => "yt_sent" \in w.ev
    BY <2>1
  <2>5. MasterOK(g)
    BY <2>1, <2>2, <2>3, <2>4, MasterSays
  <2>6. QED
    BY <2>5 DEF g
<1>5. QED
  BY <1>2, <1>3, <1>4
(* The other machines of the master touch neither the link nor the         *)
(* interrogation.                                                          *)
LEMMA MasterMoves ==
  ASSUME NEW w, MasterOK(w), NEW g,
         DOMAIN g = {"st", "out", "ev", "set"}, g.st \in Stations,
         g.st.init = w.st.init, g.st.callall = w.st.callall,
         "yt_sent" \in g.ev => "yt_sent" \in w.ev,
         "CALL_ALL_SUCCESS" \in g.ev => "CALL_ALL_SUCCESS" \in w.ev,
         g.out = w.out \/ g.out = Append(w.out, Fixed("REQ_USR_DATA_1"))
  PROVE  MasterOK(g)
<1>1. Owed(g.st) + Succeeded(g) <= Owed(w.st) + Succeeded(w)
  BY DEF Owed, Succeeded
<1>2. QED
  BY <1>1, MasterSays, MasterPlain

LEMMA MasterCallpulse ==
  ASSUME NEW w, MasterOK(w)
  PROVE  MasterOK(iec101_m_state_machine_callpulse(w))
<1> DEFINE g == iec101_m_state_machine_callpulse(w)
<1>0. DOMAIN w = {"st", "out", "ev", "set"} /\ w.st \in Stations
  BY DEF MasterOK
<1>1. ASSUME NEW a, MasterOK(a) PROVE MasterOK([a EXCEPT !.st.callpulse = "ODD"])
  <2> DEFINE h == [a EXCEPT !.st.callpulse = "ODD"]
  <2>0. DOMAIN a = {"st", "out", "ev", "set"} /\ a.st \in Stations
    BY <1>1 DEF MasterOK
  <2>1. /\ DOMAIN h = {"st", "out", "ev", "set"} /\ h.ev = a.ev /\ h.out = a.out
        /\ h.st = [a.st EXCEPT !.callpulse = "ODD"]
    BY <2>0
  <2> HIDE DEF h
  <2>2. h.st \in Stations /\ h.st.init = a.st.init /\ h.st.callall = a.st.callall
    BY <2>0, <2>1 DEF Stations, CallStates
  <2>3. MasterOK(h)
    BY <1>1, <2>1, <2>2, MasterMoves
  <2>4. QED
    BY <2>3 DEF h
<1>2. CASE w.st.callpulse \in {"CONFIRM", "YM"}
  <2>1. \E a \in {w, AskForData(w)} : g = a \/ g = [a EXCEPT !.st.callpulse = "ODD"]
    BY <1>2 DEF iec101_m_state_machine_callpulse
  <2>2. MasterOK(w) /\ MasterOK(AskForData(w))
    BY AskOK
  <2> HIDE DEF g
  <2>3. MasterOK(g)
    BY <1>1, <2>1, <2>2
  <2>4. QED
    BY <2>3 DEF g
<1>3. CASE w.st.callpulse \notin {"CONFIRM", "YM"}
  <2>1. /\ DOMAIN g = {"st", "out", "ev", "set"}
        /\ "yt_sent" \in g.ev => "yt_sent" \in w.ev
        /\ "CALL_ALL_SUCCESS" \in g.ev => "CALL_ALL_SUCCESS" \in w.ev
        /\ g.out = w.out \/ g.out = Append(w.out, Fixed("REQ_USR_DATA_1"))
        /\ \/ g.st = w.st
           \/ g.st = [w.st EXCEPT !.due = @ \ {"callpulse"}, !.callpulse = "CONFIRM"]
           \/ g.st = [w.st EXCEPT !.callpulse = "IDLE", !.due = @ \ {"init"}]
           \/ g.st = [w.st EXCEPT !.callpulse = "IDLE"]
    BY <1>0, <1>3 DEF iec101_m_state_machine_callpulse, iec101_m_build_request_user_ack, Report, Restart, Send
  <2> HIDE DEF g
  <2>2. g.st \in Stations /\ g.st.init = w.st.init /\ g.st.callall = w.st.callall
    <3>1. w.st.due \ {"callpulse"} \in SUBSET Timers /\ w.st.due \ {"init"} \in SUBSET Timers
      BY <1>0 DEF Stations
    <3>2. QED
      BY <1>0, <2>1, <3>1 DEF Stations, CallStates
  <2>3. MasterOK(g)
    BY <2>1, <2>2, MasterMoves
  <2>4. QED
    BY <2>3 DEF g
<1>4. QED
  BY <1>2, <1>3

LEMMA MasterYt ==
  ASSUME NEW w, MasterOK(w)
  PROVE  MasterOK(iec101_m_state_machine_yt(w))
<1> DEFINE g == iec101_m_state_machine_yt(w)
<1>0. DOMAIN w = {"st", "out", "ev", "set"} /\ w.st \in Stations
  BY DEF MasterOK
<1>1. CASE w.st.yt \in {"CONFIRM", "EXEC"}
  <2> DEFINE a == AskForData(w)
             x == IF Expired(w, "yt") THEN "FAILD" ELSE a.st.yt
  <2>1. MasterOK(a) /\ DOMAIN a = {"st", "out", "ev", "set"} /\ a.st \in Stations
    BY AskOK DEF MasterOK
  <2>2. x \in CmdStates
    BY <2>1 DEF Stations, CmdStates
  <2>3. g = [a EXCEPT !.st.yt = x]
    BY <1>1, <2>1 DEF iec101_m_state_machine_yt
  <2> HIDE DEF g, a, x
  <2>4. /\ DOMAIN g = {"st", "out", "ev", "set"} /\ g.ev = a.ev /\ g.out = a.out
        /\ g.st = [a.st EXCEPT !.yt = x]
    BY <2>1, <2>3
  <2>5. g.st \in Stations /\ g.st.init = a.st.init /\ g.st.callall = a.st.callall
    BY <2>1, <2>2, <2>4 DEF Stations
  <2>6. MasterOK(g)
    BY <2>1, <2>4, <2>5, MasterMoves
  <2>7. QED
    BY <2>6 DEF g
<1>2. CASE w.st.yt \notin {"CONFIRM", "EXEC"}
  <2>1. /\ DOMAIN g = {"st", "out", "ev", "set"} /\ g.out = w.out
        /\ "yt_sent" \in g.ev => "yt_sent" \in w.ev
        /\ "CALL_ALL_SUCCESS" \in g.ev => "CALL_ALL_SUCCESS" \in w.ev
        /\ \/ g.st = w.st
           \/ g.st = [w.st EXCEPT !.due = @ \ {"yt"}, !.yt = "CONFIRM"]
           \/ g.st = [w.st EXCEPT !.yt = "IDLE"]
    BY <1>0, <1>2 DEF iec101_m_state_machine_yt, Report, Restart
  <2> HIDE DEF g
  <2>2. g.st \in Stations /\ g.st.init = w.st.init /\ g.st.callall = w.st.callall
    <3>1. w.st.due \ {"yt"} \in SUBSET Timers
      BY <1>0 DEF Stations
    <3>2. QED
      BY <1>0, <2>1, <3>1 DEF Stations, CmdStates
  <2>3. MasterOK(g)
    BY <2>1, <2>2, MasterMoves
  <2>4. QED
    BY <2>3 DEF g
<1>3. QED
  BY <1>1, <1>2

LEMMA MasterYk ==
  ASSUME NEW w, MasterOK(w)
  PROVE  MasterOK(iec101_m_state_machine_yk(w))
<1> DEFINE g == iec101_m_state_machine_yk(w)
<1>0. DOMAIN w = {"st", "out", "ev", "set"} /\ w.st \in Stations
  BY DEF MasterOK
<1>1. CASE w.st.yk \in {"CONFIRM", "EXEC"}
  <2> DEFINE a == AskForData(w)
             x == IF Expired(w, "yk") THEN "FAILD" ELSE a.st.yk
  <2>1. MasterOK(a) /\ DOMAIN a = {"st", "out", "ev", "set"} /\ a.st \in Stations
    BY AskOK DEF MasterOK
  <2>2. x \in CmdStates
    BY <2>1 DEF Stations, CmdStates
  <2>3. g = [a EXCEPT !.st.yk = x]
    BY <1>1, <2>1 DEF iec101_m_state_machine_yk
  <2> HIDE DEF g, a, x
  <2>4. /\ DOMAIN g = {"st", "out", "ev", "set"} /\ g.ev = a.ev /\ g.out = a.out
        /\ g.st = [a.st EXCEPT !.yk = x]
    BY <2>1, <2>3
  <2>5. g.st \in Stations /\ g.st.init = a.st.init /\ g.st.callall = a.st.callall
    BY <2>1, <2>2, <2>4 DEF Stations
  <2>6. MasterOK(g)
    BY <2>1, <2>4, <2>5, MasterMoves
  <2>7. QED
    BY <2>6 DEF g
<1>2. CASE w.st.yk \notin {"CONFIRM", "EXEC"}
  <2>1. /\ DOMAIN g = {"st", "out", "ev", "set"} /\ g.out = w.out
        /\ "yt_sent" \in g.ev => "yt_sent" \in w.ev
        /\ "CALL_ALL_SUCCESS" \in g.ev => "CALL_ALL_SUCCESS" \in w.ev
        /\ \/ g.st = w.st
           \/ g.st = [w.st EXCEPT !.due = @ \ {"yk"}, !.yk = "CONFIRM"]
           \/ g.st = [w.st EXCEPT !.yk = "IDLE"]
    BY <1>0, <1>2 DEF iec101_m_state_machine_yk, Report, Restart
  <2> HIDE DEF g
  <2>2. g.st \in Stations /\ g.st.init = w.st.init /\ g.st.callall = w.st.callall
    <3>1. w.st.due \ {"yk"} \in SUBSET Timers
      BY <1>0 DEF Stations
    <3>2. QED
      BY <1>0, <2>1, <3>1 DEF Stations, CmdStates
  <2>3. MasterOK(g)
    BY <2>1, <2>2, MasterMoves
  <2>4. QED
    BY <2>3 DEF g
<1>3. QED
  BY <1>1, <1>2

LEMMA MasterPass ==
  ASSUME m \in Stations, up \in Seq(Line), NEW w \in iec101_m_state_machine(iec101_m_frame_parse)
  PROVE  MasterOK(w)
<1>1. PICK p \in iec101_m_frame_parse :
        LET l == iec101_m_state_machine_work(p)
            c == iec101_m_state_machine_callpulse(iec101_m_state_machine_callall(l))
        IN  w = l \/ w = iec101_m_state_machine_yk(iec101_m_state_machine_yt(c))
  BY DEF iec101_m_state_machine
<1> DEFINE l == iec101_m_state_machine_work(p)
           c == iec101_m_state_machine_callall(l)
           d == iec101_m_state_machine_callpulse(c)
           y == iec101_m_state_machine_yt(d)
<1>2. w = l \/ w = iec101_m_state_machine_yk(y)
  BY <1>1
<1>3. MasterOK(l)
  BY MasterParses, MasterWork
<1>4. MasterOK(iec101_m_state_machine_yk(y))
  <2> HIDE DEF l
  <2>1. MasterOK(c)
    BY <1>3, MasterCallall
  <2> HIDE DEF c
  <2>2. MasterOK(d)
    BY <2>1, MasterCallpulse
  <2> HIDE DEF d
  <2>3. MasterOK(y)
    BY <2>2, MasterYt
  <2> HIDE DEF y
  <2>4. QED
    BY <2>3, MasterYk
<1>5. QED
  BY <1>2, <1>3, <1>4
LEMMA TakenOK ==
  ASSUME up \in Seq(Line), NEW S
  PROVE  LET rest == IF up = <<>> THEN up ELSE Tail(up)
         IN  /\ rest \in Seq(Line) /\ Count(rest, S) \in Nat /\ Taken(S) \in {0, 1}
             /\ Count(up, S) = Count(rest, S) + Taken(S)
<1>1. CASE up = <<>>
  <2>1. Count(up, S) \in Nat /\ Taken(S) = 0
    BY <1>1, CountFinite DEF Taken
  <2>2. QED
    BY <1>1, <2>1
<1>2. CASE up # <<>>
  <2>1. /\ Head(up) \in Line /\ Tail(up) \in Seq(Line) /\ Count(Tail(up), S) \in Nat
        /\ Head(up) \in S => Count(up, S) = Count(Tail(up), S) + 1
        /\ Head(up) \notin S => Count(up, S) = Count(Tail(up), S)
    BY <1>2, CountTail
  <2>2. Taken(S) = IF Head(up) \in S THEN 1 ELSE 0
    BY <1>2 DEF Taken
  <2>3. QED
    BY <1>2, <2>1, <2>2
<1>3. QED
  BY <1>1, <1>2

LEMMA MasterExecInv == LineInv /\ MasterExec => LineInv'
<1> SUFFICES ASSUME LineInv, MasterExec PROVE LineInv'
  OBVIOUS
<1>1. PICK w \in iec101_m_state_machine(iec101_m_frame_parse) :
        iec101_m_exec_thread(w) /\ told' = [told EXCEPT !.call = @ - Succeeded(w)]
  BY DEF MasterExec
<1>2. /\ Typed /\ m \in Stations /\ down \in Seq(Line) /\ up \in Seq(Line)
      /\ told.yk \in Int /\ told.call \in Int /\ m_yt \in 0 .. MaxYt
  BY DEF LineInv, Typed
<1>3. MasterOK(w)
  BY <1>2, MasterPass
<1> DEFINE rest == IF up = <<>> THEN up ELSE Tail(up)
<1>4. /\ rest \in Seq(Line)
      /\ Count(rest, Terms) \in Nat /\ Taken(Terms) \in {0, 1}
      /\ Count(up, Terms) = Count(rest, Terms) + Taken(Terms)
  BY <1>2, TakenOK, Zenon
<1>5. /\ Count(rest, Acks) \in Nat /\ Taken(Acks) \in {0, 1}
      /\ Count(up, Acks) = Count(rest, Acks) + Taken(Acks)
  BY <1>2, TakenOK, Zenon
<1>6. /\ Count(rest, {LinkStatus}) \in Nat /\ Taken({LinkStatus}) \in {0, 1}
      /\ Count(up, {LinkStatus}) = Count(rest, {LinkStatus}) + Taken({LinkStatus})
  BY <1>2, TakenOK, Zenon
<1>7. /\ m' = w.st /\ down' = down \o w.out /\ up' = rest
      /\ m_yt' = m_yt + (IF "yt_sent" \in w.ev THEN 1 ELSE 0)
      /\ UNCHANGED <<m_app, m_cmds, s, s_bak, s_spon, lost, beats>>
  BY <1>1 DEF iec101_m_exec_thread, MasterExec, slaveVars
<1> HIDE DEF rest
<1>8. /\ told' = [yk |-> told.yk, call |-> told.call - Succeeded(w), damaged |-> FALSE]
      /\ told'.yk = told.yk /\ told'.call = told.call - Succeeded(w)
      /\ told' = [yk |-> told'.yk, call |-> told'.call, damaged |-> FALSE]
  <2>1. told = [yk |-> told.yk, call |-> told.call, damaged |-> FALSE]
    BY DEF LineInv, Whole
  <2>5. told' = [told EXCEPT !.call = told.call - Succeeded(w)]
    BY <1>1
  <2>6. ASSUME NEW a, NEW b, NEW d, NEW x
        PROVE  [[yk |-> a, call |-> b, damaged |-> d] EXCEPT !.call = x] =
                 [yk |-> a, call |-> x, damaged |-> d]
    OBVIOUS
  <2> DEFINE d == told.damaged
             r == [yk |-> told.yk, call |-> told.call, damaged |-> d]
             x == told.call - Succeeded(w)
  <2>7. d = FALSE
    BY <2>1
  <2> HIDE DEF d, x
  <2>8. [r EXCEPT !.call = x] = [yk |-> told.yk, call |-> x, damaged |-> d]
    BY <2>6
  <2>9. told = r
    BY <2>1, <2>7, Zenon
  <2> HIDE DEF r
  <2>10. told' = [yk |-> told.yk, call |-> x, damaged |-> d]
    BY <2>5, <2>8, <2>9, Zenon DEF x
  <2>2. told' = [yk |-> told.yk, call |-> told.call - Succeeded(w), damaged |-> FALSE]
    BY <2>7, <2>10, Zenon DEF x
  <2>3. told'.yk = told.yk /\ told'.call = told.call - Succeeded(w)
    BY <2>2
  <2>4. QED
    BY <2>2, <2>3
<1>9. told'.yk = told.yk /\ told'.call = told.call - Succeeded(w)
  BY <1>8
<1>10. /\ w.st \in Stations /\ w.out \in Seq(Line) /\ Count(w.out, Execs) <= Taken(Acks)
       /\ Owed(w.st) + Succeeded(w) <= Owed(m) + Taken(Terms)
       /\ w.st.init \in Up => m.init \in Up \/ Taken({LinkStatus}) = 1
       /\ "yt_sent" \in w.ev => m_yt < MaxYt
  BY <1>3 DEF MasterOK
<1>11. Succeeded(w) \in Nat /\ Owed(m) \in Nat /\ Owed(w.st) \in Nat
  BY DEF Succeeded, Owed
<1>12. /\ down' \in Seq(Line) /\ Count(down', Execs) = Count(down, Execs) + Count(w.out, Execs)
       /\ Count(down, Execs) \in Nat /\ Count(w.out, Execs) \in Nat
  <2>1. /\ down \o w.out \in Seq(Line)
        /\ Count(down \o w.out, Execs) = Count(down, Execs) + Count(w.out, Execs)
    BY <1>2, <1>10, CountConcat
  <2>2. Count(down, Execs) \in Nat /\ Count(w.out, Execs) \in Nat
    BY <1>2, <1>10, CountFinite
  <2>3. QED
    BY <1>7, <2>1, <2>2, Zenon
<1>13. Typed'
  <2>1. told'.yk \in Int /\ told'.call \in Int
    BY <1>2, <1>9, <1>11
  <2>2. m_yt' \in 0 .. MaxYt
    BY <1>2, <1>7, <1>10, MasterAssumption
  <2>3. QED
    BY <1>4, <1>7, <1>10, <1>12, <2>1, <2>2 DEF LineInv, Typed
<1>14. Connected'
  <2>1. m.init \in Up \/ Count(up, {LinkStatus}) > 0 => s.init \in Up
    BY DEF LineInv, Connected
  <2>2. w.st.init \in Up \/ Count(rest, {LinkStatus}) > 0 => s.init \in Up
    BY <1>6, <1>10, <2>1
  <2>3. QED
    BY <1>7, <2>2 DEF Connected, Up, LinkStatus
<1>15. TermsPaid'
  <2>1. told.call >= Count(up, Terms) + Owed(m)
    BY DEF LineInv, TermsPaid
  <2>2. told'.call >= Count(rest, Terms) + Owed(w.st)
    BY <1>2, <1>4, <1>9, <1>10, <1>11, <2>1, SMTT(30)
  <2>3. QED
    BY <1>7, <2>2 DEF TermsPaid, Owed
<1>16. CommandsPaid'
  <2>1. told.yk >= Count(up, Acks) + Count(down, Execs)
    BY DEF LineInv, CommandsPaid
  <2>2. told'.yk >= Count(rest, Acks) + Count(down', Execs)
    BY <1>2, <1>5, <1>9, <1>10, <1>12, <2>1
  <2>3. QED
    BY <1>7, <2>2 DEF CommandsPaid
<1>17. Whole' /\ Silent' /\ Backed(s, s_bak)'
  BY <1>7, <1>8 DEF LineInv, Whole, Silent, Backed
<1>18. QED
  BY <1>13, <1>14, <1>15, <1>16, <1>17 DEF LineInv
-----------------------------------------------------------------------------
(* The applications, the line and time.                                    *)
LEMMA CallFrames ==
  ASSUME NEW op \in {"call_all", "call_pulse", "yk", "yk2", "yt"}
  PROVE  CallFrame(op) \in Line /\ CallFrame(op) \notin Execs
<1>1. ASSUME NEW ty \in AsduTypes, NEW sel \in BOOLEAN, NEW q \in Seq(Objects),
             ty = "C_SC" => sel /\ q[1] = "point"
      PROVE  Asdu(ty, "ACT", sel, q) \in Line /\ Asdu(ty, "ACT", sel, q) \notin Execs
  <2> DEFINE fr == Asdu(ty, "ACT", sel, q)
  <2>1. "ACT" \in Reasons
    BY DEF Reasons
  <2>2. fr \in Asdus /\ fr.ty = ty /\ fr.sel = sel /\ fr.obj = q
    BY <2>1, Zenon DEF Asdu, Asdus
  <2> HIDE DEF fr
  <2>3. CASE ty # "C_SC"
    BY <2>2, <2>3, DataFrames DEF fr
  <2>4. CASE ty = "C_SC"
    <3>1. fr.sel /\ fr.obj[1] = "point"
      BY <1>1, <2>2, <2>4, Zenon
    <3>2. fr \in Intact
      BY <2>2, <3>1 DEF Intact
    <3>3. QED
      BY <2>2, <3>1, <3>2, DataFrames DEF Line, fr
  <2>5. QED
    BY <2>3, <2>4
<1>2. {"C_IC", "C_CI", "C_SC", "C_SE"} \subseteq AsduTypes
  BY DEF AsduTypes
<1>3. PICK q \in Seq(Objects) : q = <<>>
  BY NoObjects
<1>4. PICK r \in Seq(Objects) : r = <<"point">> /\ r[1] = "point"
  <2>1. "point" \in Objects
    BY DEF Objects
  <2>2. QED
    BY <2>1, Singletons
<1>5. \E t \in Seq(Objects) : t = <<"point", "point">> /\ t[1] = "point"
  <2>1. <<"point", "point">> \in Seq(Objects) /\ <<"point", "point">>[1] = "point"
    BY DEF Objects
  <2>2. QED
    BY <2>1, Zenon
<1>6. PICK t \in Seq(Objects) : t = <<"point", "point">> /\ t[1] = "point"
  BY <1>5
<1>7. /\ op = "call_all" => CallFrame(op) = Asdu("C_IC", "ACT", FALSE, q)
      /\ op = "call_pulse" => CallFrame(op) = Asdu("C_CI", "ACT", FALSE, q)
      /\ op = "yk" => CallFrame(op) = Asdu("C_SC", "ACT", TRUE, r)
      /\ op = "yk2" => CallFrame(op) = Asdu("C_SC", "ACT", TRUE, t)
      /\ op = "yt" => CallFrame(op) = Asdu("C_SE", "ACT", TRUE, r)
  BY <1>3, <1>4, <1>6, Zenon DEF CallFrame
<1>8. /\ Asdu("C_IC", "ACT", FALSE, q) \in Line /\ Asdu("C_IC", "ACT", FALSE, q) \notin Execs
      /\ Asdu("C_CI", "ACT", FALSE, q) \in Line /\ Asdu("C_CI", "ACT", FALSE, q) \notin Execs
      /\ Asdu("C_SC", "ACT", TRUE, r) \in Line /\ Asdu("C_SC", "ACT", TRUE, r) \notin Execs
      /\ Asdu("C_SC", "ACT", TRUE, t) \in Line /\ Asdu("C_SC", "ACT", TRUE, t) \notin Execs
      /\ Asdu("C_SE", "ACT", TRUE, r) \in Line /\ Asdu("C_SE", "ACT", TRUE, r) \notin Execs
  BY <1>1, <1>2, <1>4, <1>6
<1>9. QED
  BY <1>7, <1>8, Zenon

LEMMA MasterAppInv == LineInv /\ MasterApp => LineInv'
<1> SUFFICES ASSUME LineInv, MasterApp PROVE LineInv'
  OBVIOUS
<1>0. /\ Typed /\ m \in Stations /\ down \in Seq(Line) /\ m_cmds \in 0 .. MaxCmds
      /\ UNCHANGED <<s, s_bak, s_spon, lost, told, beats>>
  BY DEF LineInv, Typed, MasterApp, slaveVars
<1>1. ASSUME NEW op \in MasterOps, AppSend(op) PROVE LineInv'
  <2>1. /\ m_cmds < MaxCmds /\ down' = Append(down, CallFrame(op)) /\ m_app' = op
        /\ m_cmds' = m_cmds + 1 /\ UNCHANGED <<m, m_yt, up>>
    BY <1>1 DEF AppSend
  <2>2. CallFrame(op) \in Line /\ CallFrame(op) \notin Execs
    BY MasterAssumption, CallFrames
  <2>3. down' \in Seq(Line) /\ Count(down', Execs) = Count(down, Execs)
    <3>1. Append(down, CallFrame(op)) \in Seq(Line)
          /\ Count(Append(down, CallFrame(op)), Execs) = Count(down, Execs)
      BY <1>0, <2>2, CountAppend
    <3>2. QED
      BY <2>1, <3>1, Zenon
  <2>4. m_cmds' \in 0 .. MaxCmds
    BY <1>0, <2>1, MasterAssumption
  <2>5. Typed'
    BY <1>0, <2>1, <2>3, <2>4 DEF Typed
  <2>6. CommandsPaid'
    BY <1>0, <2>1, <2>3 DEF LineInv, CommandsPaid
  <2>7. QED
    BY <1>0, <2>1, <2>5, <2>6 DEF LineInv, Connected, TermsPaid, Whole, Silent, Backed, Owed
<1>2. CASE AppStore
  <2>1. /\ m_app' = "none" /\ UNCHANGED <<m_cmds, m_yt, down, up>>
        /\ \/ m' = [m EXCEPT !.callall = "START"] \/ m' = [m EXCEPT !.callpulse = "START"]
           \/ m' = [m EXCEPT !.yk = "START"] \/ m' = [m EXCEPT !.yt = "START"]
    BY <1>0, <1>2, MasterAssumption DEF AppStore, Typed
  <2>2. m' \in Stations /\ m'.init = m.init /\ m'.callall \in {m.callall, "START"}
    BY <1>0, <2>1 DEF Stations, CallStates, CmdStates
  <2>3. Owed(m') <= Owed(m) /\ Owed(m') \in Nat /\ Owed(m) \in Nat
    BY <2>2 DEF Owed
  <2>4. Typed'
    BY <1>0, <2>1, <2>2 DEF Typed
  <2>5. TermsPaid'
    <3>1. told.call >= Count(up, Terms) + Owed(m) /\ told.call \in Int /\ Count(up, Terms) \in Nat
      BY <1>0, CountFinite DEF LineInv, TermsPaid, Typed
    <3>2. told.call >= Count(up, Terms) + Owed(m')
      BY <2>3, <3>1
    <3>3. QED
      BY <1>0, <2>1, <3>2 DEF TermsPaid, Owed
  <2>6. QED
    BY <1>0, <2>1, <2>2, <2>4, <2>5 DEF LineInv, Connected, CommandsPaid, Whole, Silent, Backed
<1>3. QED
  BY <1>1, <1>2 DEF MasterApp
LEMMA SlaveAppInv == LineInv /\ SlaveApp => LineInv'
<1> SUFFICES ASSUME LineInv, SlaveApp PROVE LineInv'
  OBVIOUS
<1>0. /\ Typed /\ up \in Seq(Line) /\ s_spon \in 0 .. MaxSpon
      /\ UNCHANGED <<m, m_app, m_cmds, m_yt, lost, told, beats>>
  BY DEF LineInv, Typed, SlaveApp, masterVars
<1>1. PICK ty \in {"M_SP", "M_ME_NA", "M_ME_NC"} : wow_iec101_s_build_spon(ty)
  BY DEF SlaveApp
<1> DEFINE fr == Asdu(ty, "SPONT", FALSE, <<>>)
<1>2. /\ s_spon < MaxSpon /\ s_spon' = s_spon + 1 /\ up' = Append(up, fr)
      /\ UNCHANGED <<s, s_bak, down>>
  BY <1>1 DEF wow_iec101_s_build_spon
<1>3. /\ fr \in Line /\ fr \notin Terms /\ fr # LinkStatus /\ fr \notin Acks
  <2>1. ty \in AsduTypes /\ "SPONT" \in Reasons /\ ty # "C_SC" /\ "SPONT" # "ACTTERM"
    BY DEF AsduTypes, Reasons
  <2>2. QED
    BY <2>1, SlaveData, Zenon
<1> HIDE DEF fr
<1>4. /\ up' \in Seq(Line) /\ Count(up', Terms) = Count(up, Terms)
      /\ Count(up', Acks) = Count(up, Acks) /\ Count(up', {LinkStatus}) = Count(up, {LinkStatus})
  <2>1. Append(up, fr) \in Seq(Line) /\ Count(Append(up, fr), Terms) = Count(up, Terms)
    BY <1>0, <1>3, CountAppend
  <2>2. Count(Append(up, fr), Acks) = Count(up, Acks)
    BY <1>0, <1>3, CountAppend
  <2>3. fr \notin {LinkStatus}
    BY <1>3
  <2>4. Count(Append(up, fr), {LinkStatus}) = Count(up, {LinkStatus})
    BY <1>0, <1>3, <2>3, CountAppend
  <2>5. QED
    BY <1>2, <2>1, <2>2, <2>4, Zenon
<1>5. s_spon' \in 0 .. MaxSpon
  BY <1>0, <1>2, ReportsAssumption
<1>6. Typed'
  BY <1>0, <1>2, <1>4, <1>5 DEF Typed
<1>7. Connected' /\ TermsPaid' /\ CommandsPaid'
  BY <1>0, <1>2, <1>4 DEF LineInv, Connected, TermsPaid, CommandsPaid, Owed
<1>8. QED
  BY <1>0, <1>2, <1>6, <1>7 DEF LineInv, Whole, Silent, Backed

(* A destroyed frame takes its account with it.                            *)
LEMMA NoiseInv == LineInv /\ Noise => LineInv'
<1> SUFFICES ASSUME LineInv, Noise PROVE LineInv'
  OBVIOUS
<1>0. /\ Typed /\ down \in Seq(Line) /\ up \in Seq(Line) /\ lost \in 0 .. MaxLoss
      /\ told.yk \in Int /\ told.call \in Int
      /\ lost < MaxLoss /\ lost' = lost + 1
      /\ UNCHANGED <<m, m_app, m_cmds, m_yt, s, s_bak, s_spon, told, beats>>
  BY DEF LineInv, Typed, Noise, masterVars, slaveVars
<1>1. lost' \in 0 .. MaxLoss
  BY <1>0, BoundsAssumption
<1>2. /\ told.call >= Count(up, Terms) + Owed(m) /\ told.yk >= Count(up, Acks) + Count(down, Execs)
      /\ m.init \in Up \/ Count(up, {LinkStatus}) > 0 => s.init \in Up
      /\ Owed(m) \in Nat
  BY DEF LineInv, TermsPaid, CommandsPaid, Connected, Owed
<1>3. CASE down # <<>> /\ down' = Tail(down) /\ UNCHANGED up
  <2>1. Tail(down) \in Seq(Line) /\ Count(Tail(down), Execs) \in Nat
        /\ (Head(down) \in Execs => Count(down, Execs) = Count(Tail(down), Execs) + 1)
        /\ (Head(down) \notin Execs => Count(down, Execs) = Count(Tail(down), Execs))
    BY <1>0, <1>3, CountTail
  <2>2. Count(up, Acks) \in Nat
    BY <1>0, CountFinite
  <2>3. down' \in Seq(Line) /\ told.yk >= Count(up, Acks) + Count(Tail(down), Execs)
    BY <1>0, <1>2, <1>3, <2>1, <2>2
  <2>4. CommandsPaid'
    BY <1>0, <1>3, <2>3 DEF CommandsPaid
  <2>5. Typed'
    BY <1>0, <1>1, <1>3, <2>3 DEF Typed
  <2>6. QED
    BY <1>0, <1>3, <2>4, <2>5 DEF LineInv, Connected, TermsPaid, Whole, Silent, Backed, Owed
<1>4. CASE up # <<>> /\ up' = Tail(up) /\ UNCHANGED down
  <2>1. \A S : /\ Tail(up) \in Seq(Line) /\ Count(Tail(up), S) \in Nat /\ Count(up, S) \in Nat
               /\ Count(Tail(up), S) <= Count(up, S)
    <3> TAKE S
    <3>1. Tail(up) \in Seq(Line) /\ Count(Tail(up), S) \in Nat
          /\ (Head(up) \in S => Count(up, S) = Count(Tail(up), S) + 1)
          /\ (Head(up) \notin S => Count(up, S) = Count(Tail(up), S))
      BY <1>0, <1>4, CountTail
    <3>2. QED
      BY <3>1
  <2>2. /\ Tail(up) \in Seq(Line)
        /\ Count(Tail(up), Terms) \in Nat /\ Count(up, Terms) \in Nat
        /\ Count(Tail(up), Terms) <= Count(up, Terms)
        /\ Count(Tail(up), Acks) \in Nat /\ Count(up, Acks) \in Nat
        /\ Count(Tail(up), Acks) <= Count(up, Acks)
        /\ Count(Tail(up), {LinkStatus}) \in Nat /\ Count(up, {LinkStatus}) \in Nat
        /\ Count(Tail(up), {LinkStatus}) <= Count(up, {LinkStatus})
    BY <2>1, Zenon
  <2>3. Count(down, Execs) \in Nat
    BY <1>0, CountFinite
  <2>4. /\ told.call >= Count(Tail(up), Terms) + Owed(m)
        /\ told.yk >= Count(Tail(up), Acks) + Count(down, Execs)
        /\ m.init \in Up \/ Count(Tail(up), {LinkStatus}) > 0 => s.init \in Up
    <3>0. told.call \in Int /\ told.yk \in Int
      BY <1>0
    <3>1. told.call >= Count(Tail(up), Terms) + Owed(m)
      BY <3>0, <1>2, <2>2
    <3>2. told.yk >= Count(Tail(up), Acks) + Count(down, Execs)
      BY <3>0, <1>2, <2>2, <2>3
    <3>3. Count(Tail(up), {LinkStatus}) > 0 => Count(up, {LinkStatus}) > 0
      BY <2>2
    <3>4. m.init \in Up \/ Count(Tail(up), {LinkStatus}) > 0 => s.init \in Up
      BY <3>3, <1>2, Zenon
    <3>5. QED
      BY <3>1, <3>2, <3>4, Zenon
  <2>5. Typed'
    BY <1>0, <1>1, <1>4, <2>2 DEF Typed
  <2>6. Connected' /\ TermsPaid' /\ CommandsPaid'
    BY <1>0, <1>4, <2>4 DEF Connected, TermsPaid, CommandsPaid, Owed
  <2>7. QED
    BY <1>0, <1>4, <2>5, <2>6 DEF LineInv, Whole, Silent, Backed
<1>5. QED
  BY <1>3, <1>4 DEF Noise

LEMMA TickInv == LineInv /\ Tick => LineInv'
<1> SUFFICES ASSUME LineInv, Tick PROVE LineInv'
  OBVIOUS
<1>0. /\ Typed /\ m \in Stations /\ s \in Stations /\ beats \in 0 .. MaxBeats
      /\ UNCHANGED <<m_app, m_cmds, m_yt, s_bak, s_spon, down, up, lost, told>>
  BY DEF LineInv, Typed, Tick
<1>1. ASSUME NEW st \in Stations, NEW t \in Timers
      PROVE  LET g == [st EXCEPT !.due = @ \cup {t}]
             IN  /\ g \in Stations /\ g.init = st.init /\ g.callall = st.callall
                 /\ g.callpulse = st.callpulse /\ g.yt = st.yt /\ g.yk = st.yk
  <2>1. st.due \cup {t} \in SUBSET Timers
    BY DEF Stations
  <2>2. QED
    BY <2>1 DEF Stations
<1>2. ASSUME NEW t \in Measured(m), m' = [m EXCEPT !.due = @ \cup {t}],
             beats' = beats + (IF t = "init" THEN 1 ELSE 0), UNCHANGED s
      PROVE  LineInv'
  <2>1. t \in Timers /\ (t = "init" => beats < MaxBeats)
    BY DEF Measured
  <2>2. beats' \in 0 .. MaxBeats
    BY <1>0, <1>2, <2>1, BoundsAssumption
  <2>3. m' \in Stations /\ m'.init = m.init /\ m'.callall = m.callall
    BY <1>0, <1>1, <1>2, <2>1
  <2>4. Typed'
    BY <1>0, <1>2, <2>2, <2>3 DEF Typed
  <2>5. QED
    BY <1>0, <1>2, <2>3, <2>4
       DEF LineInv, Connected, TermsPaid, CommandsPaid, Whole, Silent, Backed, Owed
<1>3. ASSUME NEW t \in Measured(s), s' = [s EXCEPT !.due = @ \cup {t}], UNCHANGED <<m, beats>>
      PROVE  LineInv'
  <2>1. t \in Timers
    BY DEF Measured
  <2>2. /\ s' \in Stations /\ s'.init = s.init /\ s'.callpulse = s.callpulse
        /\ s'.yk = s.yk /\ s'.yt = s.yt
    BY <1>0, <1>1, <1>3, <2>1
  <2>3. Typed'
    BY <1>0, <1>3, <2>2 DEF Typed
  <2>4. QED
    BY <1>0, <1>3, <2>2, <2>3
       DEF LineInv, Connected, TermsPaid, CommandsPaid, Whole, Silent, Backed, Owed
<1>4. QED
  BY <1>2, <1>3 DEF Tick

LEMMA LineInit == Init => LineInv
<1> SUFFICES ASSUME Init PROVE LineInv
  OBVIOUS
<1>1. /\ m_app = "none" /\ m_cmds = 0 /\ m_yt = 0 /\ s_bak = [yk |-> NoCopy, yt |-> NoCopy]
      /\ s_spon = 0 /\ down = <<>> /\ up = <<>> /\ lost = 0 /\ beats = 0
      /\ told = [yk |-> 0, call |-> 0, damaged |-> FALSE]
  BY DEF Init, MasterInit, SlaveInit
<1>2. /\ m \in Stations /\ m.init = "INIT" /\ m.callall = "IDLE"
      /\ s \in Stations /\ s.init = "INIT" /\ s.callpulse = "IDLE" /\ s.yk = "IDLE" /\ s.yt = "IDLE"
  <2>1. LET r == [init |-> "INIT", callall |-> "IDLE", callpulse |-> "IDLE", yt |-> "IDLE",
                  yk |-> "IDLE", tack |-> 0, due |-> Timers]
        IN  m = r /\ s = r
    BY DEF Init, MasterInit, SlaveInit, iec101_m_reset_param, iec101_s_reset_param
  <2>2. QED
    BY <2>1 DEF Stations, LinkStates, CallStates, CmdStates
<1>3. /\ down \in Seq(Line) /\ up \in Seq(Line) /\ Count(down, Execs) = 0 /\ Count(up, Acks) = 0
      /\ Count(up, Terms) = 0 /\ Count(up, {LinkStatus}) = 0
  BY <1>1, CountEmpty, Zenon
<1>4. told.yk = 0 /\ told.call = 0 /\ Whole
  BY <1>1 DEF Whole
<1>5. s_bak.yk = NoCopy /\ s_bak.yt = NoCopy /\ s_bak = [yk |-> s_bak.yk, yt |-> s_bak.yt]
      /\ \A k \in {"yk", "yt"} : s_bak[k] = NoCopy
  BY <1>1
<1>6. Typed
  BY <1>1, <1>2, <1>3, <1>4, <1>5, MasterAssumption, ReportsAssumption, BoundsAssumption DEF Typed
<1>7. Connected /\ TermsPaid /\ CommandsPaid
  BY <1>2, <1>3, <1>4 DEF Connected, TermsPaid, CommandsPaid, Owed, Up
<1>8. QED
  BY <1>2, <1>4, <1>6, <1>7 DEF LineInv, Silent, Backed

LEMMA LineAlways == Spec => []LineInv
<1>1. LineInv /\ [Next]_vars => LineInv'
  <2> SUFFICES ASSUME LineInv, [Next]_vars PROVE LineInv'
    OBVIOUS
  <2>1. CASE UNCHANGED vars
    BY <2>1 DEF vars, LineInv, Typed, Connected, TermsPaid, CommandsPaid, Whole, Silent, Backed, Owed
  <2>2. CASE Next
    BY <2>2, SlaveExecInv, MasterExecInv, MasterAppInv, SlaveAppInv, NoiseInv, TickInv DEF Next
  <2>3. QED
    BY <2>1, <2>2
<1>2. QED
  BY LineInit, <1>1, PTL DEF Spec

-----------------------------------------------------------------------------
(* What LineInv says of the two stations.                                  *)
LEMMA AgreeInv == LineInv => SidesAgree
<1> SUFFICES ASSUME LineInv PROVE SidesAgree
  OBVIOUS
<1>0. Typed /\ Connected /\ TermsPaid /\ Whole
  BY DEF LineInv
<1>1. ASSUME NEW q \in Seq(Line), NEW i \in 1 .. Len(q) PROVE IsFrame(q[i])
  BY LineFrames
<1>2. MasterTypeOK
  BY <1>0 DEF Typed, MasterTypeOK
<1>3. SlaveTypeOK
  <2>1. ASSUME NEW k \in {"yk", "yt"} PROVE s_bak[k] = NoCopy \/ IsFrame(s_bak[k])
    <3>1. s_bak[k] \in Intact \cup {NoCopy}
      BY <1>0 DEF Typed
    <3>2. CASE s_bak[k] \in Intact
      <4>1. s_bak[k] \in Line
        BY <3>2 DEF Line
      <4>2. QED
        BY <4>1, LineFrames
    <3>3. QED
      BY <3>1, <3>2
  <2>2. QED
    BY <1>0, <2>1 DEF Typed, SlaveTypeOK
<1>4. told \in [yk : Int, call : Int, damaged : BOOLEAN]
  <2>1. ASSUME NEW a \in Int, NEW b \in Int, NEW d \in BOOLEAN
        PROVE  [yk |-> a, call |-> b, damaged |-> d] \in [yk : Int, call : Int, damaged : BOOLEAN]
    BY Zenon
  <2>2. told.yk \in Int /\ told.call \in Int
    BY <1>0 DEF Typed
  <2>3. told = [yk |-> told.yk, call |-> told.call, damaged |-> FALSE] /\ FALSE \in BOOLEAN
    BY <1>0, Zenon DEF Whole
  <2>4. QED
    BY <2>1, <2>2, <2>3, Zenon
<1>5. TypeOK
  BY <1>0, <1>1, <1>2, <1>3, <1>4 DEF TypeOK, Typed
<1>6. BothConnected
  BY <1>0 DEF Connected, BothConnected, Up
<1>7. CallAllAgreed
  <2>1. told.call \in Int /\ Count(up, Terms) \in Nat /\ Owed(m) \in Nat
    BY <1>0, CountFinite DEF Typed, Owed
  <2>2. QED
    BY <1>0, <2>1 DEF TermsPaid, CallAllAgreed
<1>8. QED
  BY <1>5, <1>6, <1>7 DEF SidesAgree

LEMMA SafeInv == LineInv => CommandsSafe
<1> SUFFICES ASSUME LineInv PROVE CommandsSafe
  OBVIOUS
<1>0. Typed /\ CommandsPaid /\ Whole /\ Backed(s, s_bak)
  BY DEF LineInv
<1>1. SelectBeforeExecute
  <2>1. told.yk \in Int /\ Count(up, Acks) \in Nat /\ Count(down, Execs) \in Nat
    BY <1>0, CountFinite DEF Typed
  <2>2. QED
    BY <1>0, <2>1 DEF CommandsPaid, SelectBeforeExecute
<1>2. CommandIntact
  BY <1>0 DEF Whole, CommandIntact
<1>3. CopyPresent
  <2>1. \A ty \in {"C_SC", "C_SE"} : NoCopy \notin Copied(ty)
    <3>1. NoCopy.ty = "none"
      BY DEF NoCopy
    <3>2. QED
      BY <3>1 DEF Copied
  <2>2. QED
    BY <1>0, <2>1 DEF Backed, CopyPresent
<1>4. QED
  BY <1>1, <1>2, <1>3 DEF CommandsSafe

(* Whatever the line destroys and whenever the applications call, the      *)
(* master is connected only to a slave that is, and                        *)
(* iec101_m_state_machine_callall reports a complete interrogation only    *)
(* when the slave has completed one.                                       *)
THEOREM SidesAlwaysAgree == Spec => []SidesAgree
<1>1. QED
  BY LineAlways, AgreeInv, PTL

(* iec101_s_asdu_yk and iec101_s_asdu_yt execute whatever they receive,    *)
(* and yet a single command is executed only after its selection was       *)
(* acknowledged, with the object it was given, and the acknowledgement is  *)
(* never built from a copy that is not there.                              *)
THEOREM CommandsStaySafe == Spec => []CommandsSafe
<1>1. QED
  BY LineAlways, SafeInv, PTL
=============================================================================
