----------------------------- MODULE IpcProofs -----------------------------
(***************************************************************************)
(* EntriesLive (with the types) and AnswerIsMine, for any set of clients   *)
(* and any bounds.                                                         *)
(*                                                                         *)
(* EntriesLive needs to know what is still on the way to the server: a     *)
(* connection that is not bound has its BIND in front, so that an UNBIND   *)
(* is never read before it and never passed over (ListInv).  AnswerIsMine  *)
(* needs three facts.  A connection is bound before its client calls, and  *)
(* what came to it before lies in front of the answer to BIND (BindInv).   *)
(* A request that an earlier connection of a client left behind is         *)
(* answered to an entry before the client's present one (OrderInv).  So    *)
(* at most one of the request, its answer and the semaphore is there       *)
(* while a call waits, and none while no call does (CallInv).              *)
(***************************************************************************)
EXTENDS Ipc, SequenceTheorems, WellFoundedInduction, TLAPS

Cmds == {"get", "put"}
ConnFields == {"cli", "st", "open", "toC", "toS"}
EntryFields == {"conn", "bind", "cid", "r"}
ClientFields == {"pc", "conn", "bsem", "sem", "sync", "resp", "req", "ret", "cb", "r", "late", "wait"}
Messages == [flag : {"BIND", "UNBIND", "COMM", "PUSH"}, src : Clients \cup {0}, dest : Clients \cup {0},
             cmd : {"none", "info", "get", "put", "push"}, tag : Nat]
IsRequest(msg) == msg.flag = "COMM" /\ msg.cmd \in Cmds

(* Queues of messages: without requests; with at most one, the given one;  *)
(* without a flag; with BIND in front and nowhere else; with nothing that  *)
(* is a request, and no second BIND, behind a BIND.                        *)
Quiet(q) == \A n \in DOMAIN q : ~IsRequest(q[n])
Only(q, tag, cmd) ==
  \A n \in DOMAIN q : IsRequest(q[n]) =>
    q[n].tag = tag /\ q[n].cmd = cmd /\ \A l \in DOMAIN q : IsRequest(q[l]) => l = n
No(q, flag) == \A n \in DOMAIN q : q[n].flag # flag
BindFirst(q) == q # <<>> /\ q[1].flag = "BIND" /\ \A n \in DOMAIN q : n > 1 => q[n].flag # "BIND"
BindLast(q) ==
  \A n \in DOMAIN q : q[n].flag = "BIND" => \A l \in DOMAIN q : l > n => q[l].flag # "BIND" /\ ~IsRequest(q[l])

-----------------------------------------------------------------------------
(* Sequences, of whatever they hold.                                       *)
IsSeq(q) == q \in Seq({q[n] : n \in DOMAIN q})

ConnOK(x) ==
  /\ DOMAIN x = ConnFields
  /\ x.cli \in Clients /\ x.st \in {"pending", "accepted", "closed"} /\ x.open \in BOOLEAN
  /\ x.toC \in Seq(Messages) /\ x.toS \in Seq(Messages)
  /\ \A n \in DOMAIN x.toS : x.toS[n].src = x.cli
EntryOK(x) == DOMAIN x = EntryFields /\ x.bind \in BOOLEAN /\ x.cid \in Clients \cup {0}
ClientOK(x) ==
  /\ DOMAIN x = ClientFields
  /\ x.pc \in {"off", "binding", "bound", "up", "waiting", "timedout"}
  /\ x.bsem \in Nat /\ x.sem \in Nat /\ x.sync \subseteq Cmds
  /\ x.cb \in BOOLEAN /\ x.late \in BOOLEAN

(* The parts of the invariant, of a list cl, connections cs and clients c. *)
Shape(cl, cs, c) ==
  /\ IsSeq(cs) /\ \A i \in DOMAIN cs : ConnOK(cs[i])
  /\ IsSeq(cl) /\ Len(cl) <= MAX_IPC_NUMNER
  /\ \A j \in DOMAIN cl : EntryOK(cl[j]) /\ cl[j].conn \in DOMAIN cs
  /\ DOMAIN c = Clients /\ c = [k \in Clients |-> c[k]] /\ \A k \in Clients : ClientOK(c[k])

(* The connection of a client that runs is open and its newest one.        *)
OwnedBy(cs, k, x) ==
  x.pc # "off" => /\ x.conn \in DOMAIN cs /\ cs[x.conn].cli = k /\ cs[x.conn].open
                  /\ \A l \in DOMAIN cs : cs[l].cli = k => l <= x.conn

(* The server's list, and what is on the way to it.                        *)
Listed(cl, cs) ==
  /\ \A j \in DOMAIN cl : cs[cl[j].conn].st = "accepted"
  /\ \A j, l \in DOMAIN cl : cl[j].conn = cl[l].conn => j = l
  /\ \A j \in DOMAIN cl : cl[j].bind => cl[j].cid = cs[cl[j].conn].cli /\ No(cs[cl[j].conn].toS, "BIND")
  /\ \A j \in DOMAIN cl : ~cl[j].bind => BindFirst(cs[cl[j].conn].toS)
LeavesWell(i, x, dead) ==
  /\ No(x.toS, "PUSH")
  /\ x.st = "pending" => BindFirst(x.toS) /\ No(x.toS, "COMM")
  /\ x.open => No(x.toS, "UNBIND")
  /\ (~x.open /\ x.st # "closed" /\ i \notin dead) => ~No(x.toS, "UNBIND")

(* Binding: the server answers BIND once; what it sends before that lies   *)
(* in front of the answer.                                                 *)
Unbound(cl, cs, i) == cs[i].st = "pending" \/ \E j \in DOMAIN cl : cl[j].conn = i /\ ~cl[j].bind
BindOf(cl, cs, x) ==
  x.pc # "off" =>
    /\ BindLast(cs[x.conn].toC) /\ No(cs[x.conn].toC, "UNBIND") /\ x.bsem <= 1
    /\ x.bsem = 1 => x.pc = "binding" /\ No(cs[x.conn].toC, "BIND") /\ Quiet(cs[x.conn].toC)
    /\ x.pc # "binding" => No(cs[x.conn].toC, "BIND")
    /\ x.pc = "binding" => No(cs[x.conn].toS, "COMM") /\ ~x.cb
    /\ Unbound(cl, cs, x.conn) => x.pc = "binding" /\ x.bsem = 0 /\ No(cs[x.conn].toC, "BIND")

(* A connection on which its client has called was listed before any newer *)
(* one of that client.                                                     *)
Ordered(cl, cs) ==
  \A j, l \in DOMAIN cl :
    (/\ ~No(cs[cl[j].conn].toS, "COMM")
     /\ cs[cl[j].conn].cli = cs[cl[l].conn].cli
     /\ cl[j].conn < cl[l].conn) => j < l

(* Of a call: nothing while none waits; while one waits, its request, its  *)
(* answer or the semaphore, at most one of them.                           *)
Idle(x) == x.sem = 0 /\ x.sync = {}
CallOf(x, toS, toC) ==
  /\ x.pc # "timedout"
  /\ x.pc \in {"off", "binding", "bound"} => x.ret = "none" /\ Idle(x)
  /\ x.pc = "up" => (x.ret = "ok" => x.resp = x.req) /\ Idle(x) /\ x.cb
  /\ x.pc \in {"bound", "up"} => Quiet(toS) /\ Quiet(toC)
  /\ x.pc = "waiting" =>
       /\ x.ret = "none" /\ x.cb
       /\ \/ x.sem = 0 /\ x.sync = {x.wait} /\ Only(toS, x.req, x.wait) /\ Quiet(toC)
          \/ x.sem = 0 /\ x.sync = {x.wait} /\ Quiet(toS) /\ Only(toC, x.req, x.wait)
          \/ x.sem = 1 /\ x.sync = {} /\ x.resp = x.req /\ Quiet(toS) /\ Quiet(toC)
Calls(cs, x) == ~x.late => CallOf(x, cs[x.conn].toS, cs[x.conn].toC)

(* The semaphore counts calls that were made.                              *)
Waits(x) == (IF "get" \in x.sync THEN 1 ELSE 0) + (IF "put" \in x.sync THEN 1 ELSE 0)
Counted(x, tags) == x.sem + Waits(x) <= tags

Inv(cl, cs, c, tags, dead) ==
  /\ Shape(cl, cs, c) /\ Listed(cl, cs) /\ Ordered(cl, cs)
  /\ \A i \in DOMAIN cs : LeavesWell(i, cs[i], dead)
  /\ \A k \in Clients : OwnedBy(cs, k, c[k]) /\ BindOf(cl, cs, c[k]) /\ Calls(cs, c[k]) /\ Counted(c[k], tags)

IpcInv ==
  /\ up \in BOOLEAN /\ lim \in Limits
  /\ DOMAIN obs = {"tags", "dead"} /\ obs.tags \in 0 .. lim.tags
  /\ Inv(clist, conn, cli, obs.tags, obs.dead)

-----------------------------------------------------------------------------
(* Queues of messages.                                                     *)

(* A message at the end of a queue (send).                                 *)
LEMMA Appended ==
  ASSUME NEW q \in Seq(Messages), NEW m \in Messages
  PROVE  /\ Append(q, m) \in Seq(Messages)
         /\ \A k : (\A n \in DOMAIN q : q[n].src = k) /\ m.src = k => \A n \in DOMAIN Append(q, m) : Append(q, m)[n].src = k
         /\ \A f : No(Append(q, m), f) <=> No(q, f) /\ m.flag # f
         /\ Quiet(Append(q, m)) <=> Quiet(q) /\ ~IsRequest(m)
         /\ BindFirst(q) /\ m.flag # "BIND" => BindFirst(Append(q, m))
         /\ BindLast(q) /\ (No(q, "BIND") \/ (m.flag # "BIND" /\ ~IsRequest(m))) => BindLast(Append(q, m))
         /\ \A t, c : Only(q, t, c) /\ ~IsRequest(m) => Only(Append(q, m), t, c)
         /\ Quiet(q) => Only(Append(q, m), m.tag, m.cmd)
<1> DEFINE p == Append(q, m)
<1>1. /\ p \in Seq(Messages) /\ Len(p) = Len(q) + 1 /\ Len(q) \in Nat /\ DOMAIN q = 1 .. Len(q) /\ DOMAIN p = 1 .. Len(q) + 1
      /\ p[Len(q) + 1] = m /\ \A n \in 1 .. Len(q) : p[n] = q[n]
      /\ q # <<>> => Len(q) > 0
  BY AppendProperties, LenProperties, EmptySeq
<1>2. p # <<>>
  BY <1>1, EmptySeq
<1> HIDE DEF p
<1>3. \A k : (\A n \in DOMAIN q : q[n].src = k) /\ m.src = k => \A n \in DOMAIN p : p[n].src = k
  BY <1>1
<1>4. \A f : No(p, f) <=> No(q, f) /\ m.flag # f
  BY <1>1 DEF No
<1>5. Quiet(p) <=> Quiet(q) /\ ~IsRequest(m)
  BY <1>1 DEF Quiet
<1>6. BindFirst(q) /\ m.flag # "BIND" => BindFirst(p)
  BY <1>1, <1>2 DEF BindFirst
<1>7. BindLast(q) /\ (No(q, "BIND") \/ (m.flag # "BIND" /\ ~IsRequest(m))) => BindLast(p)
  BY <1>1 DEF BindLast, No
<1>8. \A t, c : Only(q, t, c) /\ ~IsRequest(m) => Only(p, t, c)
  BY <1>1 DEF Only
<1>9. Quiet(q) => Only(p, m.tag, m.cmd)
  BY <1>1 DEF Only, Quiet
<1> QED
  BY <1>1, <1>3, <1>4, <1>5, <1>6, <1>7, <1>8, <1>9 DEF p

(* A message read from a queue (recv).                                     *)
LEMMA Received ==
  ASSUME NEW q \in Seq(Messages), q # <<>>
  PROVE  /\ Head(q) \in Messages /\ Tail(q) \in Seq(Messages)
         /\ \A k : (\A n \in DOMAIN q : q[n].src = k) => Head(q).src = k /\ \A n \in DOMAIN Tail(q) : Tail(q)[n].src = k
         /\ \A f : No(q, f) <=> No(Tail(q), f) /\ Head(q).flag # f
         /\ Quiet(q) <=> Quiet(Tail(q)) /\ ~IsRequest(Head(q))
         /\ BindFirst(q) => Head(q).flag = "BIND" /\ No(Tail(q), "BIND")
         /\ BindLast(q) => BindLast(Tail(q)) /\ (Head(q).flag = "BIND" => No(Tail(q), "BIND") /\ Quiet(Tail(q)))
         /\ \A t, c : Only(q, t, c) => /\ Only(Tail(q), t, c)
                                       /\ IsRequest(Head(q)) => Head(q).tag = t /\ Head(q).cmd = c /\ Quiet(Tail(q))
<1> DEFINE p == Tail(q)
           h == Head(q)
<1>1. /\ p \in Seq(Messages) /\ Len(p) = Len(q) - 1 /\ Len(q) \in Nat \ {0} /\ DOMAIN q = 1 .. Len(q) /\ DOMAIN p = 1 .. Len(q) - 1
      /\ h = q[1] /\ h \in Messages /\ \A n \in 1 .. Len(q) - 1 : p[n] = q[n + 1]
  BY HeadTailProperties, LenProperties, EmptySeq
<1>2. \A n \in 1 .. Len(q) : n = 1 \/ (n - 1 \in 1 .. Len(q) - 1 /\ q[n] = p[n - 1])
  <2> TAKE n \in 1 .. Len(q)
  <2>1. CASE n # 1
    <3>1. n - 1 \in 1 .. Len(q) - 1 /\ (n - 1) + 1 = n
      BY <1>1, <2>1
    <3> QED
      BY <1>1, <3>1
  <2> QED
    BY <2>1
<1> HIDE DEF p, h
<1>3. \A k : (\A n \in DOMAIN q : q[n].src = k) => h.src = k /\ \A n \in DOMAIN p : p[n].src = k
  BY <1>1, SMTT(30)
<1>4. \A f : No(q, f) <=> No(p, f) /\ h.flag # f
  BY <1>1, <1>2, SMTT(30) DEF No
<1>5. Quiet(q) <=> Quiet(p) /\ ~IsRequest(h)
  BY <1>1, <1>2, SMTT(30) DEF Quiet
<1>6. BindFirst(q) => h.flag = "BIND" /\ No(p, "BIND")
  BY <1>1, SMTT(30) DEF BindFirst, No
<1>7. BindLast(q) => BindLast(p) /\ (h.flag = "BIND" => No(p, "BIND") /\ Quiet(p))
  <2>1. BindLast(q) => BindLast(p)
    <3> SUFFICES ASSUME BindLast(q), NEW n \in DOMAIN p, p[n].flag = "BIND", NEW l \in DOMAIN p, l > n
                 PROVE  p[l].flag # "BIND" /\ ~IsRequest(p[l])
      BY DEF BindLast
    <3>1. n + 1 \in DOMAIN q /\ l + 1 \in DOMAIN q /\ p[n] = q[n + 1] /\ p[l] = q[l + 1] /\ l + 1 > n + 1
      BY <1>1
    <3> QED
      BY <3>1 DEF BindLast
  <2>2. BindLast(q) /\ h.flag = "BIND" => No(p, "BIND") /\ Quiet(p)
    <3> SUFFICES ASSUME BindLast(q), h.flag = "BIND", NEW n \in DOMAIN p
                 PROVE  p[n].flag # "BIND" /\ ~IsRequest(p[n])
      BY DEF No, Quiet
    <3>1. 1 \in DOMAIN q /\ n + 1 \in DOMAIN q /\ p[n] = q[n + 1] /\ n + 1 > 1
      BY <1>1
    <3> QED
      BY <1>1, <3>1 DEF BindLast
  <2> QED
    BY <2>1, <2>2
<1>8. \A t, c : Only(q, t, c) => Only(p, t, c) /\ (IsRequest(h) => h.tag = t /\ h.cmd = c /\ Quiet(p))
  <2> SUFFICES ASSUME NEW t, NEW c, Only(q, t, c)
               PROVE  Only(p, t, c) /\ (IsRequest(h) => h.tag = t /\ h.cmd = c /\ Quiet(p))
    OBVIOUS
  <2>1. Only(p, t, c)
    <3> SUFFICES ASSUME NEW n \in DOMAIN p, IsRequest(p[n])
                 PROVE  p[n].tag = t /\ p[n].cmd = c /\ \A l \in DOMAIN p : IsRequest(p[l]) => l = n
      BY DEF Only
    <3>1. n + 1 \in DOMAIN q /\ p[n] = q[n + 1] /\ \A l \in DOMAIN p : l + 1 \in DOMAIN q /\ p[l] = q[l + 1]
      BY <1>1
    <3>2. p[n].tag = t /\ p[n].cmd = c /\ \A l \in DOMAIN p : IsRequest(p[l]) => l + 1 = n + 1
      BY <3>1 DEF Only
    <3> QED
      BY <1>1, <3>2
  <2>2. IsRequest(h) => h.tag = t /\ h.cmd = c
    BY <1>1 DEF Only
  <2>3. IsRequest(h) => Quiet(p)
    <3> SUFFICES ASSUME IsRequest(h), NEW n \in DOMAIN p, IsRequest(p[n])  PROVE FALSE
      BY DEF Quiet
    <3>1. n + 1 \in DOMAIN q /\ 1 \in DOMAIN q /\ p[n] = q[n + 1] /\ n + 1 # 1
      BY <1>1
    <3> QED
      BY <1>1, <3>1 DEF Only
  <2> QED
    BY <2>1, <2>2, <2>3
<1> QED
  BY <1>1, <1>3, <1>4, <1>5, <1>6, <1>7, <1>8 DEF p, h

(* A queue without requests has at most the one that is asked for.         *)
LEMMA QuietIsOnly ==
  ASSUME NEW q, Quiet(q)
  PROVE  \A t, c : Only(q, t, c)
BY DEF Quiet, Only

LEMMA NoCommIsQuiet ==
  ASSUME NEW q, No(q, "COMM")
  PROVE  Quiet(q)
BY DEF No, Quiet, IsRequest

-----------------------------------------------------------------------------
(* Lists of whatever they hold.                                            *)
LEMMA ASequence ==
  ASSUME NEW q, NEW n \in Nat, DOMAIN q = 1 .. n, q = [i \in 1 .. n |-> q[i]]
  PROVE  IsSeq(q) /\ Len(q) = n
<1> DEFINE S == {q[i] : i \in 1 .. n}
<1>1. \A i \in 1 .. n : q[i] \in S
  OBVIOUS
<1>2. q \in [1 .. n -> S]
  <2> HIDE DEF S
  <2> QED
    BY <1>1
<1>3. q \in Seq(S)
  BY <1>2, SeqDef
<1> QED
  BY <1>3, LenProperties DEF IsSeq

LEMMA SeqFacts ==
  ASSUME NEW q, IsSeq(q)
  PROVE  /\ Len(q) \in Nat /\ DOMAIN q = 1 .. Len(q)
         /\ q = [i \in 1 .. Len(q) |-> q[i]]
BY LenProperties DEF IsSeq

LEMMA SeqAdded ==
  ASSUME NEW q, IsSeq(q), NEW x
  PROVE  /\ IsSeq(Append(q, x)) /\ Len(Append(q, x)) = Len(q) + 1
         /\ DOMAIN Append(q, x) = 1 .. Len(q) + 1
         /\ Append(q, x)[Len(q) + 1] = x
         /\ \A i \in DOMAIN q : Append(q, x)[i] = q[i]
<1> DEFINE S == {q[i] : i \in DOMAIN q} \cup {x}
<1>1. q \in Seq(S)
  <2>1. \A i \in 1 .. Len(q) : q[i] \in S
    BY SeqFacts
  <2> HIDE DEF S
  <2>2. q \in [1 .. Len(q) -> S]
    BY <2>1, SeqFacts
  <2> QED
    BY <2>2, SeqFacts, SeqDef
<1>2. x \in S
  OBVIOUS
<1> HIDE DEF S
<1>3. /\ Append(q, x) \in Seq(S) /\ Len(Append(q, x)) = Len(q) + 1 /\ Append(q, x)[Len(q) + 1] = x
      /\ \A i \in 1 .. Len(q) : Append(q, x)[i] = q[i]
  BY <1>1, <1>2, AppendProperties
<1>4. /\ Len(q) \in Nat /\ DOMAIN q = 1 .. Len(q) /\ DOMAIN Append(q, x) = 1 .. Len(q) + 1
      /\ Append(q, x) = [i \in 1 .. Len(q) + 1 |-> Append(q, x)[i]]
  BY <1>1, <1>3, SeqFacts, LenProperties
<1> QED
  BY <1>3, <1>4, ASequence

LEMMA SeqSet ==
  ASSUME NEW q, IsSeq(q), NEW i \in DOMAIN q, NEW x
  PROVE  /\ IsSeq([q EXCEPT ![i] = x]) /\ Len([q EXCEPT ![i] = x]) = Len(q)
         /\ DOMAIN [q EXCEPT ![i] = x] = DOMAIN q
         /\ [q EXCEPT ![i] = x][i] = x
         /\ \A j \in DOMAIN q : j # i => [q EXCEPT ![i] = x][j] = q[j]
<1> DEFINE p == [q EXCEPT ![i] = x]
<1>1. DOMAIN p = DOMAIN q /\ p = [j \in DOMAIN q |-> p[j]]
  OBVIOUS
<1>2. IsSeq(p) /\ Len(p) = Len(q)
  <2> HIDE DEF p
  <2> QED
    BY <1>1, SeqFacts, ASequence
<1> QED
  BY <1>2

LEMMA SeqDropped ==
  ASSUME NEW q, IsSeq(q), NEW i \in DOMAIN q
  PROVE  /\ IsSeq(RemoveAt(q, i)) /\ Len(RemoveAt(q, i)) = Len(q) - 1
         /\ DOMAIN RemoveAt(q, i) = 1 .. Len(q) - 1
         /\ \A j \in 1 .. Len(q) - 1 : RemoveAt(q, i)[j] = IF j < i THEN q[j] ELSE q[j + 1]
<1> DEFINE S == {q[n] : n \in DOMAIN q}
           a == SubSeq(q, 1, i - 1)
           b == SubSeq(q, i + 1, Len(q))
<1>1. /\ q \in Seq(S) /\ Len(q) \in Nat /\ DOMAIN q = 1 .. Len(q) /\ i \in 1 .. Len(q)
  BY SeqFacts DEF IsSeq
<1> HIDE DEF S
<1>2. a \in Seq(S) /\ Len(a) = i - 1 /\ \A j \in 1 .. i - 1 : a[j] = q[j]
  <2>1. 1 \in 1 .. Len(q) + 1 /\ i - 1 \in 0 .. Len(q)
    BY <1>1
  <2> QED
    BY <1>1, <2>1, SubSeqProperties
<1>3. b \in Seq(S) /\ Len(b) = Len(q) - i /\ \A j \in 1 .. Len(q) - i : b[j] = q[i + j]
  <2>1. i + 1 \in 1 .. Len(q) + 1 /\ Len(q) \in 0 .. Len(q)
    BY <1>1
  <2>2. i + 1 <= Len(q) + 1
    BY <1>1
  <2>3. \A j \in 1 .. Len(q) - i : b[j] = q[i + 1 + j - 1] /\ i + 1 + j - 1 = i + j
    BY <1>1, <2>1, <2>2, SubSeqProperties
  <2>4. b \in Seq(S) /\ Len(b) = Len(q) - i
    BY <1>1, <2>1, <2>2, SubSeqProperties
  <2> QED
    BY <2>3, <2>4
<1>4. RemoveAt(q, i) = a \o b
  BY DEF RemoveAt
<1> HIDE DEF a, b
<1>5. /\ a \o b \in Seq(S) /\ Len(a \o b) = Len(q) - 1
      /\ \A j \in 1 .. Len(q) - 1 : (a \o b)[j] = IF j <= i - 1 THEN a[j] ELSE b[j - (i - 1)]
  <2>1. a \o b \in Seq(S) /\ Len(a \o b) = Len(a) + Len(b)
    BY <1>2, <1>3, ConcatProperties
  <2>2. \A j \in 1 .. Len(a) + Len(b) : (a \o b)[j] = IF j <= Len(a) THEN a[j] ELSE b[j - Len(a)]
    BY <1>2, <1>3, ConcatProperties
  <2>3. Len(a) + Len(b) = Len(q) - 1
    BY <1>1, <1>2, <1>3
  <2> QED
    BY <1>2, <2>1, <2>2, <2>3
<1>6. \A j \in 1 .. Len(q) - 1 : (a \o b)[j] = IF j < i THEN q[j] ELSE q[j + 1]
  <2> TAKE j \in 1 .. Len(q) - 1
  <2>1. CASE j < i
    BY <1>1, <1>2, <1>5, <2>1
  <2>2. CASE ~(j < i)
    <3>1. j - (i - 1) \in 1 .. Len(q) - i /\ i + (j - (i - 1)) = j + 1
      BY <1>1, <2>2
    <3>2. b[j - (i - 1)] = q[i + (j - (i - 1))]
      BY <1>3, <3>1
    <3> QED
      BY <1>1, <1>5, <2>2, <3>1, <3>2
  <2> QED
    BY <2>1, <2>2
<1>7. DOMAIN (a \o b) = 1 .. Len(q) - 1 /\ a \o b = [j \in 1 .. Len(q) - 1 |-> (a \o b)[j]]
  BY <1>5, LenProperties
<1>8. Len(q) - 1 \in Nat
  BY <1>1
<1> QED
  BY <1>4, <1>5, <1>6, <1>7, <1>8, ASequence

-----------------------------------------------------------------------------
(* The invariant, one change at a time.                                    *)

(* l2 is cl, but for what is known of connection i; the list knows of i    *)
(* what x is; g is f but at i; i is the newest connection of its client.   *)
EntryMoves(cl, l2, i) ==
  /\ IsSeq(l2) /\ Len(l2) = Len(cl)
  /\ \A j \in DOMAIN cl : EntryOK(l2[j]) /\ l2[j].conn = cl[j].conn
  /\ \A j \in DOMAIN cl : cl[j].conn # i => (l2[j].bind <=> cl[j].bind) /\ l2[j].cid = cl[j].cid
EntryAgrees(l2, i, x) ==
  \A j \in DOMAIN l2 : l2[j].conn = i =>
    /\ x.st = "accepted"
    /\ l2[j].bind => l2[j].cid = x.cli /\ No(x.toS, "BIND")
    /\ ~l2[j].bind => BindFirst(x.toS)
Put(f, i, x, g) == g = [f EXCEPT ![i] = x]
Within(a, b) == a \subseteq b
Newest(cs, i) == \A l \in DOMAIN cs : cs[l].cli = cs[i].cli => l <= i

(* Something happens to connection i and to its client, whose record is y  *)
(* then, and to the entry of i in the list: it is enough to look at them.  *)
LEMMA Moves ==
  ASSUME NEW cl, NEW cs, NEW c, NEW tags \in Nat, NEW dead, Inv(cl, cs, c, tags, dead),
         NEW i \in DOMAIN cs, NEW x, ConnOK(x), x.cli = cs[i].cli,
         NEW y, ClientOK(y), NEW d, Put(cs, i, x, d), NEW e, Put(c, x.cli, y, e),
         NEW l2, EntryMoves(cl, l2, i),
         NEW tags2 \in Nat, tags <= tags2, NEW died, Within(dead, died),
         OwnedBy(d, x.cli, y), BindOf(l2, d, y), Calls(d, y), Counted(y, tags2),
         LeavesWell(i, x, died),
         EntryAgrees(l2, i, x),
         No(x.toS, "COMM") \/ ~No(cs[i].toS, "COMM") \/ Newest(cs, i)
  PROVE  Inv(l2, d, e, tags2, died)
<1> DEFINE k == x.cli
<1>1. /\ DOMAIN cs = 1 .. Len(cs) /\ Len(cs) \in Nat /\ DOMAIN cl = 1 .. Len(cl) /\ Len(cl) \in Nat
      /\ IsSeq(cs) /\ \A l \in DOMAIN cs : ConnOK(cs[l])
      /\ Len(cl) <= MAX_IPC_NUMNER /\ \A j \in DOMAIN cl : EntryOK(cl[j]) /\ cl[j].conn \in DOMAIN cs
      /\ DOMAIN c = Clients /\ \A q \in Clients : ClientOK(c[q])
  BY SeqFacts DEF Inv, Shape
<1>2. IsSeq(d) /\ DOMAIN d = DOMAIN cs /\ d[i] = x /\ \A l \in DOMAIN cs : l # i => d[l] = cs[l]
  BY <1>1, SeqSet DEF Put
<1>3. k \in Clients /\ DOMAIN e = Clients /\ e = [q \in Clients |-> e[q]] /\ e[k] = y /\ \A q \in Clients : q # k => e[q] = c[q]
  BY <1>1 DEF ConnOK, Put
<1>4. \A l \in DOMAIN cs : d[l].cli = cs[l].cli
  BY <1>2
<1>a. /\ IsSeq(l2) /\ Len(l2) = Len(cl) /\ DOMAIN l2 = DOMAIN cl
      /\ \A j \in DOMAIN cl : EntryOK(l2[j]) /\ l2[j].conn = cl[j].conn /\ cl[j].conn \in DOMAIN cs
      /\ \A j \in DOMAIN cl : cl[j].conn # i => (l2[j].bind <=> cl[j].bind) /\ l2[j].cid = cl[j].cid
  BY <1>1, SeqFacts DEF EntryMoves
<1>5. Shape(l2, d, e)
  <2>1. \A j \in DOMAIN l2 : EntryOK(l2[j]) /\ l2[j].conn \in DOMAIN d
    BY <1>2, <1>a
  <2>2. \A l \in DOMAIN d : ConnOK(d[l])
    BY <1>1, <1>2
  <2>3. \A q \in Clients : ClientOK(e[q])
    BY <1>1, <1>3
  <2> QED
    BY <1>1, <1>2, <1>3, <1>a, <2>1, <2>2, <2>3 DEF Shape
<1>6. Listed(l2, d)
  BY <1>2, <1>a, SMTT(30) DEF Inv, Listed, EntryAgrees
<1>7. Ordered(l2, d)
  <2> SUFFICES ASSUME NEW j \in DOMAIN cl, NEW l \in DOMAIN cl, ~No(d[cl[j].conn].toS, "COMM"),
                      cs[cl[j].conn].cli = cs[cl[l].conn].cli, cl[j].conn < cl[l].conn
               PROVE  j < l
    BY <1>4, <1>a DEF Ordered
  <2>1. cl[j].conn \in DOMAIN cs /\ cl[l].conn \in DOMAIN cs
    BY <1>1
  <2>2. CASE cl[j].conn = i
    <3>1. ~(cl[l].conn <= i)
      BY <1>1, <2>1, <2>2
    <3>2. ~No(cs[i].toS, "COMM")
      BY <1>2, <2>1, <2>2, <3>1 DEF Newest
    <3> QED
      BY <2>2, <3>2 DEF Inv, Ordered
  <2>3. CASE cl[j].conn # i
    BY <1>2, <2>1, <2>3 DEF Inv, Ordered
  <2> QED
    BY <2>2, <2>3
<1>8. \A l \in DOMAIN d : LeavesWell(l, d[l], died)
  <2> SUFFICES ASSUME NEW l \in DOMAIN cs, l # i  PROVE LeavesWell(l, cs[l], died)
    BY <1>2
  <2>1. LeavesWell(l, cs[l], dead)
    BY DEF Inv
  <2> QED
    BY <2>1 DEF LeavesWell, Within
<1>9. ASSUME NEW q \in Clients
      PROVE  OwnedBy(d, q, e[q]) /\ BindOf(l2, d, e[q]) /\ Calls(d, e[q]) /\ Counted(e[q], tags2)
  <2>1. CASE q = k
    BY <1>3, <2>1
  <2>2. CASE q # k
    <3>1. OwnedBy(cs, q, c[q]) /\ BindOf(cl, cs, c[q]) /\ Calls(cs, c[q]) /\ Counted(c[q], tags) /\ e[q] = c[q]
      BY <1>3, <2>2 DEF Inv
    <3>2. c[q].pc # "off" => c[q].conn \in DOMAIN cs /\ c[q].conn # i /\ d[c[q].conn] = cs[c[q].conn]
      BY <1>2, <2>2, <3>1 DEF OwnedBy
    <3>3. OwnedBy(d, q, c[q])
      BY <1>2, <1>4, <3>1, <3>2 DEF OwnedBy
    <3>4. c[q].pc # "off" => (Unbound(l2, d, c[q].conn) <=> Unbound(cl, cs, c[q].conn))
      BY <1>a, <3>2 DEF Unbound
    <3>5. BindOf(l2, d, c[q])
      BY <3>1, <3>2, <3>4 DEF BindOf
    <3>6. Calls(d, c[q])
      BY <3>1, <3>2 DEF Calls, CallOf
    <3>7. Counted(c[q], tags2)
      <4>1. c[q].sem \in Nat /\ Waits(c[q]) \in Nat
        BY <1>1 DEF ClientOK, Waits
      <4> QED
        BY <3>1, <4>1 DEF Counted
    <3> QED
      BY <3>1, <3>3, <3>5, <3>6, <3>7
  <2> QED
    BY <2>1, <2>2
<1> QED
  BY <1>5, <1>6, <1>7, <1>8, <1>9 DEF Inv
(* An entry at the end of the list (ipc_add_client): what BindOf says of   *)
(* its connection has to be known.                                         *)
LEMMA EntryAdded ==
  ASSUME NEW cl, NEW cs, NEW c, NEW tags, NEW dead, Inv(cl, cs, c, tags, dead),
         NEW en, EntryOK(en), en.conn \in DOMAIN cs, ~en.bind, Len(cl) < MAX_IPC_NUMNER,
         cs[en.conn].st = "accepted", BindFirst(cs[en.conn].toS), No(cs[en.conn].toS, "COMM"),
         \A j \in DOMAIN cl : cl[j].conn # en.conn,
         \A k \in Clients : c[k].pc # "off" /\ c[k].conn = en.conn =>
           c[k].pc = "binding" /\ c[k].bsem = 0 /\ No(cs[en.conn].toC, "BIND")
  PROVE  Inv(Append(cl, en), cs, c, tags, dead)
<1> DEFINE l2 == Append(cl, en)
<1>1. /\ IsSeq(cl) /\ DOMAIN cl = 1 .. Len(cl) /\ Len(cl) \in Nat
      /\ \A j \in DOMAIN cl : EntryOK(cl[j]) /\ cl[j].conn \in DOMAIN cs
  BY SeqFacts DEF Inv, Shape
<1>2. /\ IsSeq(l2) /\ Len(l2) = Len(cl) + 1 /\ DOMAIN l2 = 1 .. Len(cl) + 1 /\ l2[Len(cl) + 1] = en
      /\ \A j \in DOMAIN cl : l2[j] = cl[j]
  BY <1>1, SeqAdded
<1> HIDE DEF l2
<1>3. \A j \in DOMAIN l2 : \/ j \in DOMAIN cl /\ l2[j] = cl[j] /\ j < Len(cl) + 1
                           \/ j = Len(cl) + 1 /\ l2[j] = en
  BY <1>1, <1>2
<1>4. Shape(l2, cs, c)
  <2>1. Len(l2) <= MAX_IPC_NUMNER
    BY <1>1, <1>2, IpcBounds
  <2> QED
    BY <1>1, <1>2, <1>3, <2>1 DEF Inv, Shape
<1>5. Listed(l2, cs)
  BY <1>3 DEF Inv, Listed
<1>6. Ordered(l2, cs)
  BY <1>1, <1>3 DEF Inv, Ordered
<1>7. ASSUME NEW k \in Clients  PROVE BindOf(l2, cs, c[k])
  <2>1. BindOf(cl, cs, c[k])
    BY DEF Inv
  <2>2. c[k].pc # "off" /\ c[k].conn # en.conn /\ Unbound(l2, cs, c[k].conn) => Unbound(cl, cs, c[k].conn)
    BY <1>3 DEF Unbound
  <2> QED
    BY <2>1, <2>2 DEF BindOf
<1> QED
  BY <1>4, <1>5, <1>6, <1>7 DEF Inv, l2

(* An entry that leaves the list (wow_slist_remove).                       *)
LEMMA EntryDropped ==
  ASSUME NEW cl, NEW cs, NEW c, NEW tags, NEW dead, Inv(cl, cs, c, tags, dead), NEW i \in DOMAIN cl
  PROVE  /\ Inv(RemoveAt(cl, i), cs, c, tags, dead)
         /\ \A j \in DOMAIN RemoveAt(cl, i) : RemoveAt(cl, i)[j].conn # cl[i].conn
<1> DEFINE l2 == RemoveAt(cl, i)
           Old(j) == IF j < i THEN j ELSE j + 1
<1>1. /\ IsSeq(cl) /\ DOMAIN cl = 1 .. Len(cl) /\ Len(cl) \in Nat /\ Len(cl) <= MAX_IPC_NUMNER
      /\ \A j \in DOMAIN cl : EntryOK(cl[j]) /\ cl[j].conn \in DOMAIN cs
  BY SeqFacts DEF Inv, Shape
<1>2. /\ IsSeq(l2) /\ Len(l2) = Len(cl) - 1 /\ DOMAIN l2 = 1 .. Len(cl) - 1
      /\ \A j \in 1 .. Len(cl) - 1 : l2[j] = IF j < i THEN cl[j] ELSE cl[j + 1]
  BY <1>1, SeqDropped
<1> HIDE DEF l2
<1>3. \A j \in DOMAIN l2 : Old(j) \in DOMAIN cl /\ Old(j) # i /\ l2[j] = cl[Old(j)]
  BY <1>1, <1>2
<1>4. \A j, l \in DOMAIN l2 : (Old(j) < Old(l) <=> j < l) /\ (Old(j) = Old(l) => j = l)
  BY <1>1, <1>2
<1> HIDE DEF Old
<1>5. Shape(l2, cs, c)
  <2>1. Len(l2) <= MAX_IPC_NUMNER
    BY <1>1, <1>2, IpcBounds
  <2> QED
    BY <1>1, <1>2, <1>3, <2>1 DEF Inv, Shape
<1>6. Listed(l2, cs)
  BY <1>3, <1>4 DEF Inv, Listed
<1>7. Ordered(l2, cs)
  BY <1>3, <1>4 DEF Inv, Ordered
<1>8. ASSUME NEW k \in Clients  PROVE BindOf(l2, cs, c[k])
  <2>1. BindOf(cl, cs, c[k])
    BY DEF Inv
  <2>2. Unbound(l2, cs, c[k].conn) => Unbound(cl, cs, c[k].conn)
    BY <1>3 DEF Unbound
  <2> QED
    BY <2>1, <2>2 DEF BindOf
<1>9. \A j \in DOMAIN l2 : l2[j].conn # cl[i].conn
  BY <1>3 DEF Inv, Listed
<1> QED
  BY <1>5, <1>6, <1>7, <1>8, <1>9 DEF Inv, l2

(* A connection that is made, with BIND on the way.                        *)
LEMMA ConnAdded ==
  ASSUME NEW cl, NEW cs, NEW c, NEW tags \in Nat, NEW dead, Inv(cl, cs, c, tags, dead),
         NEW k \in Clients, c[k].pc = "off",
         NEW x, ConnOK(x), x.cli = k, x.st = "pending", x.open, LeavesWell(Len(cs) + 1, x, {}),
         NEW y, ClientOK(y), y.pc = "binding", y.conn = Len(cs) + 1, y.ret = "none", Idle(y), y.bsem = 0, ~y.cb,
         x.toC = <<>>
  PROVE  Inv(cl, Append(cs, x), [c EXCEPT ![k] = y], tags, dead)
<1> DEFINE d == Append(cs, x)
           e == [c EXCEPT ![k] = y]
           i == Len(cs) + 1
<1>1. /\ IsSeq(cs) /\ DOMAIN cs = 1 .. Len(cs) /\ Len(cs) \in Nat
      /\ \A l \in DOMAIN cs : ConnOK(cs[l])
      /\ \A j \in DOMAIN cl : cl[j].conn \in DOMAIN cs
      /\ DOMAIN c = Clients
  BY SeqFacts DEF Inv, Shape
<1>2. /\ IsSeq(d) /\ DOMAIN d = 1 .. i /\ d[i] = x
      /\ \A l \in DOMAIN cs : d[l] = cs[l]
  BY <1>1, SeqAdded
<1>3. DOMAIN e = Clients /\ e = [q \in Clients |-> e[q]] /\ e[k] = y /\ \A q \in Clients : q # k => e[q] = c[q]
  BY <1>1
<1> HIDE DEF d, e
<1>4. \A l \in DOMAIN d : \/ l \in DOMAIN cs /\ d[l] = cs[l] /\ l < i
                          \/ l = i /\ d[l] = x
  BY <1>1, <1>2
<1>5. DOMAIN cs \subseteq DOMAIN d /\ i \in DOMAIN d /\ i \notin DOMAIN cs
  BY <1>1, <1>2
<1>6. Shape(cl, d, e)
  <2>1. \A l \in DOMAIN d : ConnOK(d[l])
    BY <1>1, <1>4
  <2>2. \A q \in Clients : ClientOK(e[q])
    BY <1>3 DEF Inv, Shape
  <2> QED
    BY <1>2, <1>3, <1>5, <2>1, <2>2 DEF Inv, Shape
<1>7. Listed(cl, d)
  BY <1>1, <1>2 DEF Inv, Listed
<1>8. Ordered(cl, d)
  BY <1>1, <1>2 DEF Inv, Ordered
<1>9. \A l \in DOMAIN d : LeavesWell(l, d[l], dead)
  <2>1. LeavesWell(i, x, dead)
    BY DEF LeavesWell
  <2> QED
    BY <1>4, <2>1 DEF Inv
<1>10. ASSUME NEW q \in Clients
       PROVE  OwnedBy(d, q, e[q]) /\ BindOf(cl, d, e[q]) /\ Calls(d, e[q]) /\ Counted(e[q], tags)
  <2>1. CASE q = k
    <3>1. OwnedBy(d, q, y)
      BY <1>1, <1>4, <1>5, <2>1 DEF OwnedBy
    <3>2. \A f : No(x.toC, f)
      BY DEF No
    <3>3. BindOf(cl, d, y)
      <4>1. No(x.toS, "COMM")
        BY DEF LeavesWell
      <4>2. BindLast(x.toC)
        BY DEF BindLast
      <4> QED
        BY <1>2, <3>2, <4>1, <4>2 DEF BindOf
    <3>4. Calls(d, y)
      BY DEF Calls, CallOf
    <3>5. Counted(y, tags)
      BY DEF Idle, Counted, Waits
    <3> QED
      BY <1>3, <2>1, <3>1, <3>3, <3>4, <3>5
  <2>2. CASE q # k
    <3>1. OwnedBy(cs, q, c[q]) /\ BindOf(cl, cs, c[q]) /\ Calls(cs, c[q]) /\ Counted(c[q], tags) /\ e[q] = c[q]
      BY <1>3, <2>2 DEF Inv
    <3>2. c[q].pc # "off" => c[q].conn \in DOMAIN cs /\ d[c[q].conn] = cs[c[q].conn]
      BY <1>2, <3>1 DEF OwnedBy
    <3>3. OwnedBy(d, q, c[q])
      BY <1>4, <1>5, <2>2, <3>1, <3>2 DEF OwnedBy
    <3>4. BindOf(cl, d, c[q])
      BY <3>1, <3>2 DEF BindOf, Unbound
    <3>5. Calls(d, c[q])
      BY <3>1, <3>2 DEF Calls, CallOf
    <3> QED
      BY <3>1, <3>3, <3>4, <3>5
  <2> QED
    BY <2>1, <2>2
<1> QED
  BY <1>6, <1>7, <1>8, <1>9, <1>10 DEF Inv, d, e
(* Only a client changes.                                                  *)
LEMMA ClientMoves ==
  ASSUME NEW cl, NEW cs, NEW c, NEW tags \in Nat, NEW dead, Inv(cl, cs, c, tags, dead),
         NEW k \in Clients, c[k].pc # "off",
         NEW y, ClientOK(y), OwnedBy(cs, k, y), BindOf(cl, cs, y), Calls(cs, y), Counted(y, tags),
         NEW e, e = [c EXCEPT ![k] = y]
  PROVE  Inv(cl, cs, e, tags, dead)
<1>1. DOMAIN e = Clients /\ e = [q \in Clients |-> e[q]] /\ e[k] = y /\ \A q \in Clients : q # k => e[q] = c[q]
  BY DEF Inv, Shape
<1>2. Shape(cl, cs, e)
  <2>1. \A q \in Clients : ClientOK(e[q])
    BY <1>1 DEF Inv, Shape
  <2> QED
    BY <1>1, <2>1 DEF Inv, Shape
<1>3. ASSUME NEW q \in Clients
      PROVE  OwnedBy(cs, q, e[q]) /\ BindOf(cl, cs, e[q]) /\ Calls(cs, e[q]) /\ Counted(e[q], tags)
  <2>1. CASE q = k
    BY <1>1, <2>1
  <2>2. CASE q # k
    BY <1>1, <2>2 DEF Inv
  <2> QED
    BY <2>1, <2>2
<1> QED
  BY <1>2, <1>3 DEF Inv

(* Only a connection changes and, maybe, its entry.                        *)
LEMMA ServerMoves ==
  ASSUME NEW cl, NEW cs, NEW c, NEW tags \in Nat, NEW dead, Inv(cl, cs, c, tags, dead),
         NEW i \in DOMAIN cs, NEW x, ConnOK(x), x.cli = cs[i].cli, x.open = cs[i].open,
         NEW d, Put(cs, i, x, d),
         NEW l2, EntryMoves(cl, l2, i),
         c[x.cli].pc # "off" /\ c[x.cli].conn = i => BindOf(l2, d, c[x.cli]) /\ Calls(d, c[x.cli]),
         LeavesWell(i, x, dead),
         EntryAgrees(l2, i, x),
         No(x.toS, "COMM") \/ ~No(cs[i].toS, "COMM")
  PROVE  Inv(l2, d, c, tags, dead)
<1> DEFINE k == x.cli
           y == c[k]
<1>1. /\ k \in Clients /\ ClientOK(y) /\ c = [q \in Clients |-> c[q]]
      /\ OwnedBy(cs, k, y) /\ BindOf(cl, cs, y) /\ Calls(cs, y) /\ Counted(y, tags)
      /\ DOMAIN l2 = DOMAIN cl
      /\ \A j \in DOMAIN cl : l2[j].conn = cl[j].conn /\ (cl[j].conn # i => (l2[j].bind <=> cl[j].bind))
  BY SeqFacts DEF ConnOK, Inv, Shape, EntryMoves
<1>2. DOMAIN d = DOMAIN cs /\ d[i] = x /\ \A l \in DOMAIN cs : l # i => d[l] = cs[l]
  BY SeqSet DEF Inv, Shape, Put
<1>3. OwnedBy(d, k, y)
  BY <1>1, <1>2 DEF OwnedBy
<1> HIDE DEF y
<1>4. BindOf(l2, d, y) /\ Calls(d, y)
  <2>1. CASE y.pc # "off" /\ y.conn = i
    BY <2>1 DEF y
  <2>2. CASE y.pc # "off" /\ y.conn # i
    <3>1. y.conn \in DOMAIN cs /\ d[y.conn] = cs[y.conn]
      BY <1>1, <1>2, <2>2 DEF OwnedBy
    <3>2. Unbound(l2, d, y.conn) <=> Unbound(cl, cs, y.conn)
      BY <1>1, <2>2, <3>1 DEF Unbound
    <3> QED
      BY <1>1, <3>1, <3>2 DEF BindOf, Calls
  <2>3. CASE y.pc = "off"
    BY <1>1, <2>3 DEF BindOf, Calls, CallOf
  <2> QED
    BY <2>1, <2>2, <2>3
<1>5. Put(c, x.cli, y, c)
  BY <1>1 DEF y, Put
<1>6. Inv(l2, d, c, tags, dead)
  <2>1. /\ Within(dead, dead) /\ tags <= tags
        /\ No(x.toS, "COMM") \/ ~No(cs[i].toS, "COMM") \/ Newest(cs, i)
    BY DEF Within
  <2>2. ClientOK(y) /\ OwnedBy(d, x.cli, y) /\ BindOf(l2, d, y) /\ Calls(d, y) /\ Counted(y, tags)
    BY <1>1, <1>3, <1>4
  <2> QED
    BY <1>5, <2>1, <2>2, Moves
<1> QED
  BY <1>6

(* What is broadcast is no request and no answer, whatever its identifier. *)
LEMMA Pushed ==
  ASSUME NEW cl, NEW cs, NEW c, NEW tags \in Nat, NEW dead, Inv(cl, cs, c, tags, dead),
         NEW tags2 \in Nat, tags <= tags2,
         NEW d, IsSeq(d), DOMAIN d = DOMAIN cs,
         \A i \in DOMAIN cs : \/ d[i] = cs[i]
                              \/ \E m \in Messages : /\ m.flag = "PUSH"
                                                     /\ d[i] = [cs[i] EXCEPT !.toC = Append(@, m)]
  PROVE  Inv(cl, d, c, tags2, dead)
<1>1. ASSUME NEW i \in DOMAIN cs
      PROVE  /\ ConnOK(d[i]) /\ d[i].cli = cs[i].cli /\ d[i].st = cs[i].st /\ d[i].open = cs[i].open /\ d[i].toS = cs[i].toS
             /\ \A f \in {"BIND", "UNBIND"} : No(d[i].toC, f) <=> No(cs[i].toC, f)
             /\ Quiet(cs[i].toC) => Quiet(d[i].toC)
             /\ BindLast(cs[i].toC) => BindLast(d[i].toC)
             /\ \A t, cmd : Only(cs[i].toC, t, cmd) => Only(d[i].toC, t, cmd)
  <2>1. ConnOK(cs[i])
    BY DEF Inv, Shape
  <2>2. CASE d[i] = cs[i]
    BY <2>1, <2>2
  <2>3. ASSUME NEW m \in Messages, m.flag = "PUSH", d[i] = [cs[i] EXCEPT !.toC = Append(@, m)]
        PROVE  <1>1!2
    <3>1. /\ DOMAIN d[i] = ConnFields /\ d[i].toC = Append(cs[i].toC, m) /\ cs[i].toC \in Seq(Messages)
          /\ d[i].cli = cs[i].cli /\ d[i].st = cs[i].st /\ d[i].open = cs[i].open /\ d[i].toS = cs[i].toS
      BY <2>1, <2>3 DEF ConnOK, ConnFields
    <3>2. ~IsRequest(m)
      BY <2>3 DEF IsRequest
    <3>3. Append(cs[i].toC, m) \in Seq(Messages)
      BY <3>1, Appended
    <3>4. ConnOK(d[i])
      BY <2>1, <3>1, <3>3 DEF ConnOK
    <3> QED
      BY <2>3, <3>1, <3>2, <3>4, Appended
  <2> QED
    BY <2>2, <2>3
<1>2. Shape(cl, d, c)
  BY <1>1 DEF Inv, Shape
<1>3. Listed(cl, d) /\ Ordered(cl, d)
  <2>1. \A j \in DOMAIN cl : cl[j].conn \in DOMAIN cs
    BY DEF Inv, Shape
  <2> QED
    BY <1>1, <2>1 DEF Inv, Listed, Ordered
<1>4. \A i \in DOMAIN d : LeavesWell(i, d[i], dead)
  BY <1>1 DEF Inv, LeavesWell
<1>5. ASSUME NEW k \in Clients
      PROVE  OwnedBy(d, k, c[k]) /\ BindOf(cl, d, c[k]) /\ Calls(d, c[k]) /\ Counted(c[k], tags2)
  <2>1. OwnedBy(cs, k, c[k]) /\ BindOf(cl, cs, c[k]) /\ Calls(cs, c[k]) /\ Counted(c[k], tags) /\ ClientOK(c[k])
    BY DEF Inv, Shape
  <2>2. OwnedBy(d, k, c[k])
    BY <1>1, <2>1 DEF OwnedBy
  <2>3. BindOf(cl, d, c[k])
    BY <1>1, <2>1 DEF BindOf, Unbound, OwnedBy
  <2>4. Calls(d, c[k])
    BY <1>1, <2>1 DEF Calls, CallOf, OwnedBy
  <2>5. Counted(c[k], tags2)
    BY <2>1 DEF Counted, ClientOK, Waits
  <2> QED
    BY <2>2, <2>3, <2>4, <2>5
<1> QED
  BY <1>2, <1>3, <1>4, <1>5 DEF Inv

(* The server goes: nothing is listed, and what it did not read is lost.   *)
LEMMA NoneFits == 0 <= MAX_IPC_NUMNER
BY IpcBounds

LEMMA EmptyQueue ==
  ASSUME NEW e, e = <<>>
  PROVE  e \in Seq(Messages) /\ IsSeq(e) /\ DOMAIN e = {} /\ Len(e) = 0
<1>1. e \in Seq(Messages) /\ e \in Seq({}) /\ Len(e) = 0
  BY EmptySeq
<1>2. DOMAIN e = {}
  BY <1>1, LenProperties
<1>3. IsSeq(e)
  BY <1>1, <1>2 DEF IsSeq
<1> QED
  BY <1>1, <1>2, <1>3

LEMMA Destroyed ==
  ASSUME NEW cl, NEW cs, NEW c, NEW tags \in Nat, NEW dead, Inv(cl, cs, c, tags, dead),
         NEW e, e \in Seq(Messages), IsSeq(e), DOMAIN e = {}, Len(e) = 0,
         NEW d, IsSeq(d), DOMAIN d = DOMAIN cs,
         \A i \in DOMAIN cs : d[i] = [cs[i] EXCEPT !.st = "closed", !.toS = e]
  PROVE  Inv(e, d, c, tags, dead)
<1>1. IsSeq(cs) /\ Len(cs) \in Nat /\ DOMAIN cs = 1 .. Len(cs) /\ \A i \in DOMAIN cs : ConnOK(cs[i])
  BY SeqFacts DEF Inv, Shape
<1>4. Quiet(e) /\ (\A f : No(e, f)) /\ \A t, cmd : Only(e, t, cmd)
  BY DEF Quiet, No, Only
<1>5. ASSUME NEW i \in DOMAIN cs
      PROVE  /\ ConnOK(d[i]) /\ d[i].cli = cs[i].cli /\ d[i].st = "closed" /\ d[i].open = cs[i].open
             /\ d[i].toS = e /\ d[i].toC = cs[i].toC
  <2>1. ConnOK(cs[i]) /\ d[i] = [cs[i] EXCEPT !.st = "closed", !.toS = e]
    BY <1>1
  <2>2. /\ DOMAIN d[i] = ConnFields /\ d[i].cli = cs[i].cli /\ d[i].st = "closed" /\ d[i].open = cs[i].open
        /\ d[i].toS = e /\ d[i].toC = cs[i].toC
    BY <2>1 DEF ConnOK, ConnFields
  <2> QED
    BY <2>1, <2>2 DEF ConnOK
<1>6. Shape(e, d, c)
  <2>1. Len(e) <= MAX_IPC_NUMNER
    BY NoneFits
  <2>2. \A i \in DOMAIN d : ConnOK(d[i])
    BY <1>5
  <2>3. \A j \in DOMAIN e : EntryOK(e[j]) /\ e[j].conn \in DOMAIN d
    OBVIOUS
  <2>4. DOMAIN c = Clients /\ c = [k \in Clients |-> c[k]] /\ \A k \in Clients : ClientOK(c[k])
    BY DEF Inv, Shape
  <2> QED
    BY <2>1, <2>2, <2>3, <2>4 DEF Shape
<1>7. Listed(e, d) /\ Ordered(e, d)
  BY DEF Listed, Ordered
<1>8. \A i \in DOMAIN d : LeavesWell(i, d[i], dead)
  BY <1>4, <1>5 DEF LeavesWell
<1>9. ASSUME NEW k \in Clients
      PROVE  OwnedBy(d, k, c[k]) /\ BindOf(e, d, c[k]) /\ Calls(d, c[k])
  <2>1. OwnedBy(cs, k, c[k]) /\ BindOf(cl, cs, c[k]) /\ Calls(cs, c[k])
    BY DEF Inv
  <2>2. c[k].pc # "off" => c[k].conn \in DOMAIN cs
    BY <2>1 DEF OwnedBy
  <2>3. OwnedBy(d, k, c[k])
    BY <1>5, <2>1 DEF OwnedBy
  <2>4. BindOf(e, d, c[k])
    BY <1>4, <1>5, <2>1, <2>2 DEF BindOf, Unbound
  <2>5. Calls(d, c[k])
    <3> DEFINE y == c[k]
               q == cs[y.conn].toC
    <3>1. CASE y.pc # "off"
      <4>1. d[y.conn].toS = e /\ d[y.conn].toC = q
        BY <1>5, <2>2, <3>1
      <4>2. ~y.late => CallOf(y, cs[y.conn].toS, q)
        BY <2>1 DEF Calls
      <4>3. Quiet(q) => \A t, cmd : Only(q, t, cmd)
        BY QuietIsOnly
      <4> HIDE DEF y, q
      <4>4. ~y.late => CallOf(y, e, q)
        BY <1>4, <4>2, <4>3 DEF CallOf
      <4> QED
        BY <4>1, <4>4 DEF Calls, y
    <3>2. CASE y.pc = "off"
      BY <2>1, <3>2 DEF Calls, CallOf
    <3> QED
      BY <3>1, <3>2
  <2> QED
    BY <2>3, <2>4, <2>5
<1> QED
  BY <1>6, <1>7, <1>8, <1>9 DEF Inv
-----------------------------------------------------------------------------
(* The steps.                                                              *)

LEMMA IpcStart == Init => IpcInv
<1> SUFFICES ASSUME Init  PROVE IpcInv
  OBVIOUS
<1>1. IsSeq(clist) /\ DOMAIN clist = {} /\ Len(clist) = 0 /\ IsSeq(conn) /\ DOMAIN conn = {}
  BY EmptyQueue DEF Init
<1>2. lim \in Limits /\ lim.tags \in Nat /\ up = TRUE /\ DOMAIN obs = {"tags", "dead"} /\ obs.tags = 0
  BY IpcBounds DEF Init
<1>3. DOMAIN cli = Clients /\ cli = [k \in Clients |-> cli[k]] /\ \A k \in Clients : cli[k] = Off
  BY DEF Init
<1>4. ClientOK(Off) /\ Off.pc = "off" /\ Off.ret = "none" /\ Off.sem = 0 /\ Off.sync = {}
  BY DEF ClientOK, ClientFields, Off
<1>5. Shape(clist, conn, cli)
  BY <1>1, <1>3, <1>4, NoneFits DEF Shape
<1>6. Listed(clist, conn) /\ Ordered(clist, conn)
  BY <1>1 DEF Listed, Ordered
<1>7. \A k \in Clients : OwnedBy(conn, k, cli[k]) /\ BindOf(clist, conn, cli[k]) /\ Calls(conn, cli[k]) /\ Counted(cli[k], 0)
  BY <1>3, <1>4 DEF OwnedBy, BindOf, Calls, CallOf, Idle, Counted, Waits
<1> QED
  BY <1>1, <1>2, <1>5, <1>6, <1>7 DEF IpcInv, Inv

(* What the invariant says of one client.                                  *)
LEMMA AtClient ==
  ASSUME IpcInv, NEW k \in Clients
  PROVE  /\ Inv(clist, conn, cli, obs.tags, obs.dead) /\ obs.tags \in Nat /\ lim.tags \in Nat
         /\ cli = [q \in Clients |-> cli[q]]
         /\ ClientOK(cli[k]) /\ OwnedBy(conn, k, cli[k]) /\ BindOf(clist, conn, cli[k])
         /\ Calls(conn, cli[k]) /\ Counted(cli[k], obs.tags)
BY IpcBounds DEF IpcInv, Inv, Shape

LEMMA ClientSteps ==
  ASSUME IpcInv, UNCHANGED <<lim, up, clist, conn, obs>>, NEW k \in Clients, cli[k].pc # "off",
         NEW y, cli' = [cli EXCEPT ![k] = y], ClientOK(y), OwnedBy(conn, k, y), BindOf(clist, conn, y),
         Calls(conn, y), Counted(y, obs.tags)
  PROVE  IpcInv'
<1>1. Inv(clist, conn, cli, obs.tags, obs.dead) /\ obs.tags \in Nat
  BY AtClient
<1>2. Inv(clist, conn, cli', obs.tags, obs.dead)
  BY <1>1, ClientMoves
<1> QED
  BY <1>2 DEF IpcInv

LEMMA BindDoneStep ==
  ASSUME IpcInv, UNCHANGED lim, NEW k \in Clients, BindDone(k)
  PROVE  IpcInv'
<1> DEFINE x == cli[k]
           y == [x EXCEPT !.pc = "bound", !.bsem = x.bsem - 1]
<1>1. /\ cli = [q \in Clients |-> cli[q]] /\ ClientOK(x) /\ OwnedBy(conn, k, x) /\ BindOf(clist, conn, x)
      /\ Calls(conn, x) /\ Counted(x, obs.tags)
  BY AtClient
<1>2. UNCHANGED <<up, clist, conn, obs>> /\ cli' = [cli EXCEPT ![k] = y] /\ x.pc = "binding" /\ x.bsem > 0
  BY <1>1 DEF BindDone
<1> HIDE DEF x
<1>3. /\ DOMAIN y = ClientFields /\ y.pc = "bound" /\ y.bsem = x.bsem - 1 /\ y.conn = x.conn /\ y.sem = x.sem /\ y.sync = x.sync
      /\ y.resp = x.resp /\ y.req = x.req /\ y.ret = x.ret /\ y.cb = x.cb /\ y.late = x.late /\ y.wait = x.wait
  BY <1>1 DEF ClientOK, ClientFields
<1> HIDE DEF y
<1>4. x.bsem = 1
  BY <1>1, <1>2 DEF ClientOK, BindOf
<1>5. ClientOK(y)
  BY <1>1, <1>3, <1>4 DEF ClientOK
<1>6. OwnedBy(conn, k, y)
  BY <1>1, <1>2, <1>3 DEF OwnedBy
<1>7. BindOf(clist, conn, y)
  BY <1>1, <1>2, <1>3, <1>4 DEF BindOf
<1>8. Calls(conn, y)
  <2>1. Quiet(conn[x.conn].toC) /\ Quiet(conn[x.conn].toS)
    BY <1>1, <1>2, <1>4, NoCommIsQuiet DEF BindOf
  <2> QED
    BY <1>1, <1>2, <1>3, <2>1 DEF Calls, CallOf, Idle
<1>9. Counted(y, obs.tags)
  BY <1>1, <1>3 DEF Counted, Waits
<1>10. x.pc # "off"
  BY <1>2
<1> QED
  BY <1>2, <1>5, <1>6, <1>7, <1>8, <1>9, <1>10, ClientSteps DEF x
(* The steps of a client that is bound leave its connection alone.         *)
LEMMA BoundSteps ==
  ASSUME IpcInv, UNCHANGED <<lim, up, clist, conn, obs>>, NEW k \in Clients, cli[k].pc \notin {"off", "binding"},
         NEW y, cli' = [cli EXCEPT ![k] = y], ClientOK(y), y.pc \notin {"off", "binding"},
         y.conn = cli[k].conn, y.bsem = cli[k].bsem, Calls(conn, y), Counted(y, obs.tags)
  PROVE  IpcInv'
<1> DEFINE x == cli[k]
<1>1. OwnedBy(conn, k, x) /\ BindOf(clist, conn, x) /\ ClientOK(x)
  BY AtClient
<1> HIDE DEF x
<1>2. x.pc \notin {"off", "binding"} /\ y.conn = x.conn /\ y.bsem = x.bsem
  BY DEF x
<1>3. OwnedBy(conn, k, y)
  BY <1>1, <1>2 DEF OwnedBy
<1>4. BindOf(clist, conn, y)
  BY <1>1, <1>2 DEF BindOf, ClientOK
<1>5. cli[k].pc # "off"
  OBVIOUS
<1> QED
  BY <1>3, <1>4, <1>5, ClientSteps

LEMMA ReadyStep ==
  ASSUME IpcInv, UNCHANGED lim, NEW k \in Clients, Ready(k)
  PROVE  IpcInv'
<1> DEFINE x == cli[k]
           y == [x EXCEPT !.pc = "up", !.cb = TRUE]
<1>1. cli = [q \in Clients |-> cli[q]] /\ ClientOK(x) /\ Calls(conn, x) /\ Counted(x, obs.tags)
  BY AtClient
<1>2. UNCHANGED <<up, clist, conn, obs>> /\ cli' = [cli EXCEPT ![k] = y] /\ x.pc = "bound"
  BY <1>1 DEF Ready
<1>3. cli[k].pc \notin {"off", "binding"}
  BY <1>2
<1> HIDE DEF x
<1>4. /\ DOMAIN y = ClientFields /\ y.pc = "up" /\ y.bsem = x.bsem /\ y.conn = x.conn /\ y.sem = x.sem /\ y.sync = x.sync
      /\ y.resp = x.resp /\ y.req = x.req /\ y.ret = x.ret /\ y.cb = TRUE /\ y.late = x.late /\ y.wait = x.wait
  BY <1>1 DEF ClientOK, ClientFields
<1> HIDE DEF y
<1>5. ClientOK(y)
  BY <1>1, <1>4 DEF ClientOK
<1>6. Calls(conn, y)
  BY <1>1, <1>2, <1>4 DEF Calls, CallOf, Idle
<1>7. Counted(y, obs.tags)
  BY <1>1, <1>4 DEF Counted, Waits
<1>8. y.pc \notin {"off", "binding"} /\ y.conn = cli[k].conn /\ y.bsem = cli[k].bsem
  BY <1>4 DEF x
<1> QED
  BY <1>2, <1>3, <1>5, <1>6, <1>7, <1>8, BoundSteps

LEMMA AnsweredStep ==
  ASSUME IpcInv, UNCHANGED lim, NEW k \in Clients, Answered(k)
  PROVE  IpcInv'
<1> DEFINE x == cli[k]
           y == [x EXCEPT !.pc = "up", !.sem = x.sem - 1, !.ret = "ok"]
<1>1. cli = [q \in Clients |-> cli[q]] /\ ClientOK(x) /\ Calls(conn, x) /\ Counted(x, obs.tags) /\ obs.tags \in Nat
  BY AtClient
<1>2. UNCHANGED <<up, clist, conn, obs>> /\ cli' = [cli EXCEPT ![k] = y] /\ x.pc = "waiting" /\ x.sem > 0
  BY <1>1 DEF Answered
<1>3. cli[k].pc \notin {"off", "binding"}
  BY <1>2
<1> HIDE DEF x
<1>4. /\ DOMAIN y = ClientFields /\ y.pc = "up" /\ y.bsem = x.bsem /\ y.conn = x.conn /\ y.sem = x.sem - 1 /\ y.sync = x.sync
      /\ y.resp = x.resp /\ y.req = x.req /\ y.ret = "ok" /\ y.cb = x.cb /\ y.late = x.late /\ y.wait = x.wait
  BY <1>1 DEF ClientOK, ClientFields
<1> HIDE DEF y
<1>5. ClientOK(y)
  BY <1>1, <1>2, <1>4 DEF ClientOK
<1>6. Calls(conn, y)
  BY <1>1, <1>2, <1>4 DEF Calls, CallOf, Idle
<1>7. Counted(y, obs.tags)
  BY <1>1, <1>2, <1>4 DEF Counted, Waits, ClientOK
<1>8. y.pc \notin {"off", "binding"} /\ y.conn = cli[k].conn /\ y.bsem = cli[k].bsem
  BY <1>4 DEF x
<1> QED
  BY <1>2, <1>3, <1>5, <1>6, <1>7, <1>8, BoundSteps

LEMMA WaitTimeoutStep ==
  ASSUME IpcInv, UNCHANGED lim, NEW k \in Clients, WaitTimeout(k)
  PROVE  IpcInv'
<1> DEFINE x == cli[k]
           y == [x EXCEPT !.pc = "timedout", !.late = TRUE]
<1>1. cli = [q \in Clients |-> cli[q]] /\ ClientOK(x) /\ Counted(x, obs.tags)
  BY AtClient
<1>2. UNCHANGED <<up, clist, conn, obs>> /\ cli' = [cli EXCEPT ![k] = y] /\ x.pc = "waiting"
  BY <1>1 DEF WaitTimeout
<1>3. cli[k].pc \notin {"off", "binding"}
  BY <1>2
<1> HIDE DEF x
<1>4. /\ DOMAIN y = ClientFields /\ y.pc = "timedout" /\ y.bsem = x.bsem /\ y.conn = x.conn /\ y.sem = x.sem /\ y.sync = x.sync
      /\ y.cb = x.cb /\ y.late = TRUE
  BY <1>1 DEF ClientOK, ClientFields
<1> HIDE DEF y
<1>5. ClientOK(y)
  BY <1>1, <1>4 DEF ClientOK
<1>6. Calls(conn, y)
  BY <1>4 DEF Calls
<1>7. Counted(y, obs.tags)
  BY <1>1, <1>4 DEF Counted, Waits
<1>8. y.pc \notin {"off", "binding"} /\ y.conn = cli[k].conn /\ y.bsem = cli[k].bsem
  BY <1>4 DEF x
<1> QED
  BY <1>2, <1>3, <1>5, <1>6, <1>7, <1>8, BoundSteps

LEMMA PopSyncCmdStep ==
  ASSUME IpcInv, UNCHANGED lim, NEW k \in Clients, pop_sync_cmd(k)
  PROVE  IpcInv'
<1> DEFINE x == cli[k]
           y == [x EXCEPT !.pc = "up", !.sync = x.sync \ {x.wait}, !.ret = "failed"]
<1>1. cli = [q \in Clients |-> cli[q]] /\ ClientOK(x) /\ Counted(x, obs.tags) /\ Calls(conn, x) /\ obs.tags \in Nat
  BY AtClient
<1>2. UNCHANGED <<up, clist, conn, obs>> /\ cli' = [cli EXCEPT ![k] = y] /\ x.pc = "timedout"
  BY <1>1 DEF pop_sync_cmd
<1>3. cli[k].pc \notin {"off", "binding"}
  BY <1>2
<1> HIDE DEF x
<1>4. /\ DOMAIN y = ClientFields /\ y.pc = "up" /\ y.bsem = x.bsem /\ y.conn = x.conn /\ y.sem = x.sem
      /\ y.sync = x.sync \ {x.wait} /\ y.cb = x.cb /\ y.late = x.late
  BY <1>1 DEF ClientOK, ClientFields
<1> HIDE DEF y
<1>5. ClientOK(y)
  BY <1>1, <1>4 DEF ClientOK
<1>6. Calls(conn, y)
  BY <1>1, <1>2, <1>4 DEF Calls, CallOf
<1>7. Counted(y, obs.tags)
  BY <1>1, <1>4 DEF Counted, Waits, ClientOK
<1>8. y.pc \notin {"off", "binding"} /\ y.conn = cli[k].conn /\ y.bsem = cli[k].bsem
  BY <1>4 DEF x
<1> QED
  BY <1>2, <1>3, <1>5, <1>6, <1>7, <1>8, BoundSteps

LEMMA ClientPollStep ==
  ASSUME IpcInv, UNCHANGED lim, NEW k \in Clients, ClientPoll(k)
  PROVE  IpcInv'
<1> DEFINE x == cli[k]
           y == [x EXCEPT !.r = NoMsg]
<1>1. cli = [q \in Clients |-> cli[q]] /\ ClientOK(x) /\ Counted(x, obs.tags) /\ Calls(conn, x)
  BY AtClient
<1>2. UNCHANGED <<up, clist, conn, obs>> /\ cli' = [cli EXCEPT ![k] = y] /\ x.pc = "up"
  BY <1>1 DEF ClientPoll
<1>3. cli[k].pc \notin {"off", "binding"}
  BY <1>2
<1> HIDE DEF x
<1>4. /\ DOMAIN y = ClientFields /\ y.pc = "up" /\ y.bsem = x.bsem /\ y.conn = x.conn /\ y.sem = x.sem /\ y.sync = x.sync
      /\ y.resp = x.resp /\ y.req = x.req /\ y.ret = x.ret /\ y.cb = x.cb /\ y.late = x.late /\ y.wait = x.wait
  BY <1>1, <1>2 DEF ClientOK, ClientFields
<1> HIDE DEF y
<1>5. ClientOK(y)
  BY <1>1, <1>4 DEF ClientOK
<1>6. Calls(conn, y)
  BY <1>1, <1>2, <1>4 DEF Calls, CallOf, Idle
<1>7. Counted(y, obs.tags)
  BY <1>1, <1>4 DEF Counted, Waits
<1>8. y.pc \notin {"off", "binding"} /\ y.conn = cli[k].conn /\ y.bsem = cli[k].bsem
  BY <1>4 DEF x
<1> QED
  BY <1>2, <1>3, <1>5, <1>6, <1>7, <1>8, BoundSteps
(* Msg with an identifier of a client and of the server is a message.      *)
LEMMA AMessage ==
  ASSUME NEW k \in Clients, NEW t \in Nat, NEW f \in {"BIND", "UNBIND", "COMM"}, NEW c \in {"none", "info", "get", "put", "push"}
  PROVE  /\ Msg(f, ServerId, k, c, t) \in Messages /\ Msg(f, ServerId, k, c, t).src = k
         /\ Msg(f, ServerId, k, c, t).flag = f /\ Msg(f, ServerId, k, c, t).cmd = c /\ Msg(f, ServerId, k, c, t).tag = t
BY DEF Msg, ServerId, Messages

LEMMA OneMessage ==
  ASSUME NEW m \in Messages, NEW q, q = <<m>>
  PROVE  q \in Seq(Messages) /\ DOMAIN q = {1} /\ q[1] = m
<1>1. DOMAIN q = 1 .. 1 /\ q[1] = m /\ q = [i \in 1 .. 1 |-> q[i]]
  OBVIOUS
<1>2. q \in [1 .. 1 -> Messages]
  BY <1>1
<1> QED
  BY <1>1, <1>2, SeqDef

LEMMA CreateStep ==
  ASSUME IpcInv, UNCHANGED lim, NEW k \in Clients, Create(k)
  PROVE  IpcInv'
<1> DEFINE m == Msg("BIND", ServerId, k, "none", 0)
           toS == <<m>>
           toC == <<>>
           x == [cli |-> k, st |-> "pending", open |-> TRUE, toC |-> toC, toS |-> toS]
           y == [Off EXCEPT !.pc = "binding", !.conn = Len(conn) + 1]
<1>1. /\ Inv(clist, conn, cli, obs.tags, obs.dead) /\ obs.tags \in Nat
      /\ cli[k].pc = "off" /\ UNCHANGED <<up, clist, obs>> /\ conn' = Append(conn, x) /\ cli' = [cli EXCEPT ![k] = y]
  BY AtClient DEF Create
<1>2. m \in Messages /\ m.src = k /\ m.flag = "BIND" /\ m.cmd = "none"
  BY AMessage
<1> HIDE DEF m
<1>3. toS \in Seq(Messages) /\ DOMAIN toS = {1} /\ toS[1] = m
  BY <1>2, OneMessage
<1>4. toS # <<>>
  <2>1. DOMAIN <<>> = {}
    BY EmptyQueue
  <2> QED
    BY <1>3, <2>1
<1>5. toC \in Seq(Messages)
  BY EmptySeq
<1> HIDE DEF toS, toC
<1>6. DOMAIN x = ConnFields /\ x.cli = k /\ x.st = "pending" /\ x.open = TRUE /\ x.toC = toC /\ x.toS = toS
  BY DEF ConnFields
<1> HIDE DEF x
<1>7. ConnOK(x)
  BY <1>2, <1>3, <1>5, <1>6 DEF ConnOK
<1>8. LeavesWell(Len(conn) + 1, x, {})
  BY <1>2, <1>3, <1>4, <1>6 DEF LeavesWell, BindFirst, No
<1>9. /\ ClientOK(y) /\ y.pc = "binding" /\ y.conn = Len(conn) + 1 /\ y.ret = "none" /\ Idle(y)
      /\ y.bsem = 0 /\ ~y.cb
  BY DEF ClientOK, ClientFields, Off, Idle
<1> HIDE DEF y
<1>10. x.toC = <<>> /\ x.open
  BY <1>6 DEF toC
<1>11. Inv(clist, conn', cli', obs.tags, obs.dead)
  BY <1>1, <1>6, <1>7, <1>8, <1>9, <1>10, ConnAdded
<1> QED
  BY <1>1, <1>11 DEF IpcInv

(* A connection w whose client has closed it is x; nothing but what is on  *)
(* the way to the server changes; a message sent is at the end of that,    *)
(* unless the server has closed.                                           *)
Gone(w, x) == DOMAIN x = ConnFields /\ x.cli = w.cli /\ x.st = w.st /\ x.toC = w.toC /\ x.open = FALSE
Same(w, x) == DOMAIN x = ConnFields /\ x.cli = w.cli /\ x.st = w.st /\ x.toC = w.toC /\ x.open = w.open
Said(w, x, m) == (x.toS = w.toS /\ w.st = "closed") \/ x.toS = Append(w.toS, m)

(* A client goes: with UNBIND on the way (m), or by dying.                 *)
LEMMA Leaves ==
  ASSUME NEW cl, NEW cs, NEW c, NEW tags \in Nat, NEW dead, Inv(cl, cs, c, tags, dead),
         NEW k \in Clients, c[k].pc # "off", NEW i, i = c[k].conn, NEW e, Put(c, k, Off, e), NEW died, Within(dead, died),
         NEW m \in Messages, m.src = k, m.flag = "UNBIND",
         NEW x, NEW d, Put(cs, i, x, d), Gone(cs[i], x), Said(cs[i], x, m) \/ (x.toS = cs[i].toS /\ i \in died)
  PROVE  Inv(cl, d, e, tags, died)
<1> DEFINE w == cs[i]
<1>1. /\ i \in DOMAIN cs /\ ConnOK(w) /\ w.cli = k /\ LeavesWell(i, w, dead) /\ Listed(cl, cs)
      /\ IsSeq(cl) /\ \A j \in DOMAIN cl : EntryOK(cl[j])
  BY DEF Inv, Shape, OwnedBy
<1>2. /\ EntryMoves(cl, cl, i) /\ EntryAgrees(cl, i, w)
  BY <1>1 DEF EntryMoves, EntryAgrees, Listed
<1>3. /\ DOMAIN x = ConnFields /\ x.cli = k /\ x.st = w.st /\ x.open = FALSE /\ x.toC = w.toC
      /\ (x.toS = w.toS /\ (w.st = "closed" \/ i \in died)) \/ x.toS = Append(w.toS, m)
  BY <1>1 DEF Gone, Said
<1> HIDE DEF w
<1>4. /\ x.toS \in Seq(Messages) /\ \A n \in DOMAIN x.toS : x.toS[n].src = k
      /\ \A f \in {"BIND", "COMM", "PUSH"} : No(x.toS, f) <=> No(w.toS, f)
      /\ BindFirst(w.toS) => BindFirst(x.toS)
      /\ w.st = "closed" \/ i \in died \/ ~No(x.toS, "UNBIND")
  <2>1. w.toS \in Seq(Messages) /\ \A n \in DOMAIN w.toS : w.toS[n].src = k
    BY <1>1 DEF ConnOK
  <2>2. CASE x.toS = w.toS /\ (w.st = "closed" \/ i \in died)
    BY <2>1, <2>2
  <2>3. CASE x.toS = Append(w.toS, m)
    BY <2>1, <2>3, Appended
  <2> QED
    BY <1>3, <2>2, <2>3
<1>5. ConnOK(x)
  BY <1>1, <1>3, <1>4 DEF ConnOK
<1>6. LeavesWell(i, x, died)
  BY <1>1, <1>3, <1>4 DEF LeavesWell
<1>7. EntryAgrees(cl, i, x)
  BY <1>1, <1>2, <1>3, <1>4 DEF EntryAgrees
<1>8. ClientOK(Off) /\ OwnedBy(d, k, Off) /\ BindOf(cl, d, Off) /\ Calls(d, Off) /\ Counted(Off, tags)
  <2>1. ClientOK(Off) /\ Off.pc = "off" /\ Off.ret = "none" /\ Off.sem = 0 /\ Off.sync = {}
    BY DEF ClientOK, ClientFields, Off
  <2> QED
    BY <2>1 DEF OwnedBy, BindOf, Calls, CallOf, Idle, Counted, Waits
<1>9. x.cli = cs[i].cli /\ (No(x.toS, "COMM") \/ ~No(cs[i].toS, "COMM")) /\ tags <= tags
  BY <1>1, <1>3, <1>4 DEF w
<1>10. Put(c, x.cli, Off, e) /\ OwnedBy(d, x.cli, Off)
  BY <1>3, <1>8
<1>11. i \in DOMAIN cs
  BY <1>1
<1> HIDE DEF Off
<1> QED
  BY <1>2, <1>5, <1>6, <1>7, <1>8, <1>9, <1>10, <1>11, Moves

(* A client's own connection.                                              *)
LEMMA OwnConn ==
  ASSUME IpcInv, NEW k \in Clients, cli[k].pc # "off"
  PROVE  /\ IsSeq(conn) /\ conn = [l \in DOMAIN conn |-> conn[l]]
         /\ cli[k].conn \in DOMAIN conn /\ conn[cli[k].conn].cli = k /\ ConnOK(conn[cli[k].conn])
<1>1. Inv(clist, conn, cli, obs.tags, obs.dead) /\ OwnedBy(conn, k, cli[k])
  BY AtClient
<1>2. IsSeq(conn)
  BY <1>1 DEF Inv, Shape
<1> QED
  BY <1>1, <1>2, SeqFacts DEF Inv, Shape, OwnedBy

(* A message a client sends arrives if the server has not closed.          *)
LEMMA ClientSends ==
  ASSUME NEW cs, NEW i \in DOMAIN cs, IsSeq(cs), ConnOK(cs[i]), NEW m, NEW d, d = ToServer(cs, i, m)
  PROVE  Put(cs, i, d[i], d) /\ Said(cs[i], d[i], m) /\ Same(cs[i], d[i])
<1>1. cs = [l \in DOMAIN cs |-> cs[l]] /\ DOMAIN cs[i] = ConnFields
  BY SeqFacts DEF ConnOK
<1>2. CASE cs[i].st # "closed"
  <2>1. d = [cs EXCEPT ![i].toS = Append(@, m)]
    BY <1>2 DEF ToServer
  <2> QED
    BY <1>1, <2>1 DEF ConnFields, Put, Same, Said
<1>3. CASE cs[i].st = "closed"
  <2>1. d = cs
    BY <1>3 DEF ToServer
  <2> QED
    BY <1>1, <1>3, <2>1 DEF Put, Same, Said
<1> QED
  BY <1>2, <1>3

LEMMA ExitSteps ==
  ASSUME IpcInv, UNCHANGED <<lim, up, clist, obs>>, NEW k \in Clients, cli[k].pc # "off",
         cli' = [cli EXCEPT ![k] = Off], conn' = ipc_skt_exit(k)
  PROVE  IpcInv'
<1> DEFINE i == cli[k].conn
           m == Msg("UNBIND", ServerId, k, "none", 0)
           d == ToServer(conn, i, m)
           x == [d[i] EXCEPT !.open = FALSE]
<1> HIDE DEF d, m, i, x
<1>1. IsSeq(conn) /\ i \in DOMAIN conn /\ ConnOK(conn[i])
  BY OwnConn DEF i
<1>2. Put(conn, i, d[i], d) /\ Said(conn[i], d[i], m) /\ Same(conn[i], d[i])
  BY <1>1, ClientSends DEF d
<1>3. conn' = [d EXCEPT ![i] = x]
  BY DEF ipc_skt_exit, d, m, i, x
<1>4. Put(conn, i, x, conn')
  BY <1>1, <1>2, <1>3 DEF Put
<1>5. Gone(conn[i], x) /\ Said(conn[i], x, m)
  BY <1>1, <1>2 DEF Gone, Said, Same, ConnFields, x
<1>6. i = cli[k].conn /\ m \in Messages /\ m.src = k /\ m.flag = "UNBIND"
  BY AMessage DEF i, m
<1>7. Put(cli, k, Off, cli') /\ Within(obs.dead, obs.dead)
  BY DEF Put, Within
<1>8. Inv(clist, conn, cli, obs.tags, obs.dead) /\ obs.tags \in Nat
  BY AtClient
<1>9. Inv(clist, conn', cli', obs.tags, obs.dead)
  BY <1>4, <1>5, <1>6, <1>7, <1>8, Leaves
<1> QED
  BY <1>9 DEF IpcInv

LEMMA CrashStep ==
  ASSUME IpcInv, UNCHANGED lim, NEW k \in Clients, Crash(k)
  PROVE  IpcInv'
<1> DEFINE i == cli[k].conn
           m == Msg("UNBIND", ServerId, k, "none", 0)
           x == [conn[i] EXCEPT !.open = FALSE]
<1>1. /\ UNCHANGED <<lim, up, clist>> /\ cli[k].pc # "off" /\ Put(cli, k, Off, cli')
      /\ Put(conn, i, x, conn') /\ obs' = [obs EXCEPT !.dead = @ \cup {i}]
  BY DEF Crash, Put
<1>2. DOMAIN conn[i] = ConnFields
  BY <1>1, OwnConn DEF ConnOK
<1>3. DOMAIN obs' = DOMAIN obs /\ obs'.tags = obs.tags /\ Within(obs.dead, obs'.dead) /\ i \in obs'.dead
  BY <1>1 DEF IpcInv, Within
<1>4. Gone(conn[i], x) /\ x.toS = conn[i].toS
  <2> HIDE DEF i
  <2> QED
    BY <1>2 DEF ConnFields, Gone
<1> HIDE DEF i, x, m
<1>5. i = cli[k].conn /\ m \in Messages /\ m.src = k /\ m.flag = "UNBIND"
  BY AMessage DEF i, m
<1>6. Inv(clist, conn, cli, obs.tags, obs.dead) /\ obs.tags \in Nat
  BY AtClient
<1>7. Inv(clist, conn', cli', obs.tags, obs'.dead)
  BY <1>1, <1>3, <1>4, <1>5, <1>6, Leaves
<1> QED
  BY <1>1, <1>3, <1>7 DEF IpcInv
(* A message of a client (m) is on its way: y is the client's record then, *)
(* that of a call that waits if m is a request.                            *)
Asked(x, y, m) ==
  /\ y.pc = "waiting" /\ y.sync = x.sync \cup {m.cmd} /\ y.wait = m.cmd /\ y.req = m.tag /\ y.ret = "none"
  /\ y.sem = x.sem /\ y.cb = x.cb /\ y.late = x.late /\ y.conn = x.conn /\ y.bsem = x.bsem

LEMMA Sends ==
  ASSUME NEW cl, NEW cs, NEW c, NEW tags \in Nat, NEW dead, Inv(cl, cs, c, tags, dead),
         NEW k \in Clients, NEW v, v = c[k], v.pc = "up", NEW i, i = v.conn,
         NEW m \in Messages, m.src = k, m.flag = "COMM",
         NEW x, NEW d, Put(cs, i, x, d), Same(cs[i], x), Said(cs[i], x, m),
         NEW y, ClientOK(y), NEW e, Put(c, k, y, e), (y = v /\ ~IsRequest(m)) \/ Asked(v, y, m),
         NEW tags2 \in Nat, tags2 = tags + 1
  PROVE  Inv(cl, d, e, tags2, dead)
<1> DEFINE w == cs[i]
<1>1. /\ i \in DOMAIN cs /\ ConnOK(w) /\ w.cli = k /\ LeavesWell(i, w, dead) /\ Listed(cl, cs)
      /\ IsSeq(cl) /\ (\A j \in DOMAIN cl : EntryOK(cl[j])) /\ IsSeq(cs) /\ ClientOK(v) /\ v.conn = i
      /\ OwnedBy(cs, k, v) /\ BindOf(cl, cs, v) /\ Calls(cs, v) /\ Counted(v, tags)
  BY DEF Inv, Shape, OwnedBy
<1>2. EntryMoves(cl, cl, i) /\ EntryAgrees(cl, i, w) /\ Newest(cs, i)
  BY <1>1 DEF EntryMoves, EntryAgrees, Listed, OwnedBy, Newest
<1>3. /\ DOMAIN x = ConnFields /\ x.cli = k /\ x.st = w.st /\ x.open = w.open /\ x.toC = w.toC
      /\ x.toS = w.toS \/ x.toS = Append(w.toS, m)
  BY <1>1 DEF Same, Said
<1>4. DOMAIN d = DOMAIN cs /\ d[i] = x /\ \A l \in DOMAIN cs : l # i => d[l] = cs[l]
  BY <1>1, SeqSet DEF Put
<1>5. /\ BindLast(w.toC) /\ No(w.toC, "UNBIND") /\ No(w.toC, "BIND") /\ v.bsem = 0 /\ ~Unbound(cl, cs, i)
      /\ ~v.late => CallOf(v, w.toS, w.toC)
  BY <1>1 DEF BindOf, ClientOK, Calls
<1> HIDE DEF w
<1>6. /\ x.toS \in Seq(Messages) /\ \A n \in DOMAIN x.toS : x.toS[n].src = k
      /\ \A f \in {"BIND", "UNBIND", "PUSH"} : No(x.toS, f) <=> No(w.toS, f)
      /\ BindFirst(w.toS) => BindFirst(x.toS)
      /\ Quiet(w.toS) => (~IsRequest(m) => Quiet(x.toS)) /\ Only(x.toS, m.tag, m.cmd)
  <2>1. w.toS \in Seq(Messages) /\ \A n \in DOMAIN w.toS : w.toS[n].src = k
    BY <1>1 DEF ConnOK
  <2>2. CASE x.toS = w.toS
    BY <2>1, <2>2, QuietIsOnly
  <2>3. CASE x.toS = Append(w.toS, m)
    BY <2>1, <2>3, Appended
  <2> QED
    BY <1>3, <2>2, <2>3
<1>7. ConnOK(x)
  BY <1>1, <1>3, <1>6 DEF ConnOK
<1>8. LeavesWell(i, x, dead)
  <2>1. w.st # "pending"
    BY <1>5 DEF Unbound, w
  <2> QED
    BY <1>1, <1>3, <1>6, <2>1 DEF LeavesWell
<1>9. EntryAgrees(cl, i, x)
  BY <1>1, <1>2, <1>3, <1>6 DEF EntryAgrees
<1>10. y.conn = i /\ y.pc \in {"up", "waiting"} /\ y.bsem = 0
  BY <1>5, <1>1 DEF Asked
<1>11. OwnedBy(d, k, y)
  BY <1>1, <1>3, <1>4, <1>10 DEF OwnedBy, w
<1>12. BindOf(cl, d, y)
  <2>1. ~Unbound(cl, d, i)
    BY <1>3, <1>4, <1>5, <1>1 DEF Unbound, w
  <2> QED
    BY <1>1, <1>3, <1>4, <1>5, <1>10, <2>1 DEF BindOf
<1>13. Calls(d, y)
  <2>1. CASE y = v /\ ~IsRequest(m)
    BY <1>1, <1>3, <1>4, <1>5, <1>6, <2>1 DEF Calls, CallOf
  <2>2. CASE Asked(v, y, m)
    <3>1. ~y.late => Idle(v) /\ Quiet(w.toS) /\ Quiet(w.toC) /\ v.cb
      BY <1>5, <2>2 DEF CallOf, Asked
    <3>2. ~y.late => CallOf(y, x.toS, x.toC)
      BY <1>3, <1>6, <2>2, <3>1 DEF CallOf, Asked, Idle
    <3> QED
      BY <1>4, <1>1, <1>10, <3>2 DEF Calls
  <2> QED
    BY <2>1, <2>2
<1>14. Counted(y, tags2)
  <2>1. v.sem \in Nat
    BY <1>1 DEF ClientOK
  <2>2. CASE y = v
    BY <1>1, <2>1, <2>2 DEF Counted, Waits
  <2>3. CASE Asked(v, y, m)
    BY <1>1, <2>1, <2>3 DEF Counted, Waits, Asked
  <2> QED
    BY <2>2, <2>3
<1>15. x.cli = cs[i].cli /\ tags <= tags2 /\ Within(dead, dead) /\ i \in DOMAIN cs
  BY <1>1, <1>3 DEF w, Within
<1>16. Put(c, x.cli, y, e) /\ OwnedBy(d, x.cli, y)
  BY <1>3, <1>11
<1> QED
  BY <1>2, <1>7, <1>8, <1>9, <1>12, <1>13, <1>14, <1>15, <1>16, Moves

LEMMA SendStep ==
  ASSUME IpcInv, UNCHANGED lim, NEW k \in Clients, wow_ipc_send(k)
  PROVE  IpcInv'
<1> DEFINE i == cli[k].conn
           m == Msg("COMM", ServerId, k, "info", obs.tags + 1)
           d == ToServer(conn, i, m)
           v == cli[k]
<1>1. /\ UNCHANGED <<up, clist, cli>> /\ v.pc = "up" /\ obs.tags < lim.tags /\ conn' = d
      /\ obs' = [obs EXCEPT !.tags = @ + 1]
  BY DEF wow_ipc_send
<1>2. /\ Inv(clist, conn, cli, obs.tags, obs.dead) /\ obs.tags \in Nat /\ lim.tags \in Nat
      /\ ClientOK(v) /\ cli = [q \in Clients |-> cli[q]]
  BY AtClient
<1>3. obs'.tags = obs.tags + 1 /\ obs'.dead = obs.dead /\ DOMAIN obs' = DOMAIN obs /\ obs'.tags \in 0 .. lim.tags
  BY <1>1, <1>2 DEF IpcInv
<1>4. m \in Messages /\ m.src = k /\ m.flag = "COMM" /\ ~IsRequest(m)
  <2>1. obs.tags + 1 \in Nat
    BY <1>2
  <2>2. m.cmd = "info" /\ m \in Messages /\ m.src = k /\ m.flag = "COMM"
    BY <2>1, AMessage
  <2> QED
    BY <2>2 DEF IsRequest, Cmds
<1>5. IsSeq(conn) /\ i \in DOMAIN conn /\ ConnOK(conn[i])
  BY <1>1, OwnConn
<1> HIDE DEF d, m, i, v
<1>6. Put(conn, i, d[i], d) /\ Said(conn[i], d[i], m) /\ Same(conn[i], d[i])
  BY <1>5, ClientSends DEF d
<1>7. v = cli[k] /\ i = v.conn /\ Put(cli, k, v, cli)
  BY <1>2 DEF i, v, Put
<1>8. ASSUME NEW t \in Nat, t = obs.tags + 1
      PROVE  Inv(clist, d, cli, t, obs.dead)
  <2>1. (v = v /\ ~IsRequest(m)) \/ Asked(v, v, m)
    BY <1>4
  <2> QED
    BY <1>1, <1>2, <1>4, <1>6, <1>7, <1>8, <2>1, Sends
<1> QED
  BY <1>1, <1>2, <1>3, <1>8 DEF IpcInv

LEMMA SendWaitStep ==
  ASSUME IpcInv, UNCHANGED lim, NEW k \in Clients, NEW cmd \in Cmds, wow_ipc_send_wait(k, cmd)
  PROVE  IpcInv'
<1> DEFINE i == cli[k].conn
           m == Msg("COMM", ServerId, k, cmd, obs.tags + 1)
           d == ToServer(conn, i, m)
           v == cli[k]
           y == [v EXCEPT !.pc = "waiting", !.sync = v.sync \cup {cmd}, !.wait = cmd, !.req = obs.tags + 1, !.ret = "none"]
<1>1. /\ Inv(clist, conn, cli, obs.tags, obs.dead) /\ obs.tags \in Nat /\ lim.tags \in Nat
      /\ ClientOK(v) /\ cli = [q \in Clients |-> cli[q]]
  BY AtClient
<1>2. /\ UNCHANGED <<up, clist>> /\ v.pc = "up" /\ obs.tags < lim.tags /\ conn' = d
      /\ obs' = [obs EXCEPT !.tags = @ + 1] /\ cli' = [cli EXCEPT ![k] = y]
  BY <1>1 DEF wow_ipc_send_wait
<1>3. obs'.tags = obs.tags + 1 /\ obs'.dead = obs.dead /\ DOMAIN obs' = DOMAIN obs /\ obs'.tags \in 0 .. lim.tags
  BY <1>1, <1>2 DEF IpcInv
<1>4. m \in Messages /\ m.src = k /\ m.flag = "COMM" /\ m.cmd = cmd /\ m.tag = obs.tags + 1
  <2>1. obs.tags + 1 \in Nat /\ cmd \in {"none", "info", "get", "put", "push"}
    BY <1>1 DEF Cmds
  <2> QED
    BY <2>1, AMessage
<1>5. IsSeq(conn) /\ i \in DOMAIN conn /\ ConnOK(conn[i])
  BY <1>2, OwnConn
<1> HIDE DEF d, m, i, v
<1>6. Put(conn, i, d[i], d) /\ Said(conn[i], d[i], m) /\ Same(conn[i], d[i])
  BY <1>5, ClientSends DEF d
<1>7. /\ DOMAIN y = ClientFields /\ y.pc = "waiting" /\ y.bsem = v.bsem /\ y.conn = v.conn /\ y.sem = v.sem
      /\ y.sync = v.sync \cup {cmd} /\ y.req = obs.tags + 1 /\ y.ret = "none" /\ y.cb = v.cb /\ y.late = v.late /\ y.wait = cmd
  BY <1>1 DEF ClientOK, ClientFields
<1>8. Put(cli, k, y, cli')
  BY <1>2 DEF Put
<1> HIDE DEF y
<1>9. ClientOK(y) /\ Asked(v, y, m)
  BY <1>1, <1>4, <1>7 DEF ClientOK, Asked
<1>10. v = cli[k] /\ i = v.conn
  BY DEF i, v
<1>11. ASSUME NEW t \in Nat, t = obs.tags + 1
       PROVE  Inv(clist, d, cli', t, obs.dead)
  BY <1>1, <1>2, <1>4, <1>6, <1>8, <1>9, <1>10, <1>11, Sends
<1> QED
  BY <1>1, <1>2, <1>3, <1>11 DEF IpcInv
-----------------------------------------------------------------------------
(* All messages of a queue are k's; msg is taken from q, which is p then.  *)
From(q, k) == \A n \in DOMAIN q : q[n].src = k
Reads(q, msg, p) == q # <<>> /\ msg = Head(q) /\ p = Tail(q)

LEMMA ReadOne ==
  ASSUME NEW q \in Seq(Messages), NEW msg, NEW p, Reads(q, msg, p)
  PROVE  /\ msg \in Messages /\ p \in Seq(Messages)
         /\ \A f : No(q, f) <=> No(p, f) /\ msg.flag # f
         /\ Quiet(q) <=> Quiet(p) /\ ~IsRequest(msg)
         /\ BindFirst(q) => msg.flag = "BIND" /\ No(p, "BIND")
         /\ BindLast(q) => BindLast(p) /\ (msg.flag = "BIND" => No(p, "BIND") /\ Quiet(p))
         /\ \A t, c : Only(q, t, c) => /\ Only(p, t, c)
                                       /\ IsRequest(msg) => msg.tag = t /\ msg.cmd = c /\ Quiet(p)
BY Received DEF Reads

LEMMA ReadFrom ==
  ASSUME NEW q \in Seq(Messages), NEW msg, NEW p, Reads(q, msg, p), NEW k, From(q, k)
  PROVE  msg.src = k /\ From(p, k)
BY Received DEF Reads, From

(* A client reads a message: it is the answer to BIND, the answer that is  *)
(* waited for, something to keep or to hand on, or a broadcast taken for   *)
(* the answer, after which nothing is claimed of the client's calls.       *)
Alike(v, y) ==
  /\ DOMAIN y = ClientFields /\ y.pc = v.pc /\ y.conn = v.conn /\ y.cb = v.cb /\ y.wait = v.wait
  /\ y.req = v.req /\ y.ret = v.ret
Reacts(v, y, msg) ==
  /\ Alike(v, y)
  /\ \/ /\ msg.flag \in {"BIND", "UNBIND"} /\ y.bsem = v.bsem + 1
        /\ y.sync = v.sync /\ y.sem = v.sem /\ y.resp = v.resp /\ y.late = v.late
     \/ /\ msg.flag \in {"COMM", "PUSH"} /\ y.bsem = v.bsem
        /\ y.sync = v.sync /\ y.sem = v.sem /\ y.resp = v.resp /\ y.late = v.late
     \/ /\ msg.flag \in {"COMM", "PUSH"} /\ v.cb /\ y.bsem = v.bsem /\ msg.cmd \in v.sync
        /\ y.sync = v.sync \ {msg.cmd} /\ y.sem = v.sem + 1 /\ y.resp = msg.tag
        /\ y.late = (v.late \/ msg.flag = "PUSH")

LEMMA Takes ==
  ASSUME NEW cl, NEW cs, NEW c, NEW tags \in Nat, NEW dead, Inv(cl, cs, c, tags, dead),
         NEW k \in Clients, NEW v, v = c[k], v.pc # "off", NEW i, i = v.conn,
         NEW msg, NEW x, Reads(cs[i].toC, msg, x.toC),
         DOMAIN x = ConnFields, x.cli = cs[i].cli, x.st = cs[i].st, x.open = cs[i].open, x.toS = cs[i].toS,
         NEW d, Put(cs, i, x, d), NEW y, Reacts(v, y, msg), NEW e, Put(c, k, y, e)
  PROVE  Inv(cl, d, e, tags, dead)
<1> DEFINE w == cs[i]
<1>1. /\ i \in DOMAIN cs /\ ConnOK(w) /\ w.cli = k /\ LeavesWell(i, w, dead) /\ Listed(cl, cs)
      /\ IsSeq(cl) /\ (\A j \in DOMAIN cl : EntryOK(cl[j])) /\ IsSeq(cs) /\ ClientOK(v) /\ v.conn = i
      /\ OwnedBy(cs, k, v) /\ BindOf(cl, cs, v) /\ Calls(cs, v) /\ Counted(v, tags)
  BY DEF Inv, Shape, OwnedBy
<1>2. EntryMoves(cl, cl, i) /\ EntryAgrees(cl, i, w) /\ (No(x.toS, "COMM") \/ ~No(cs[i].toS, "COMM"))
  BY <1>1 DEF EntryMoves, EntryAgrees, Listed
<1>3. DOMAIN x = ConnFields /\ x.cli = k /\ x.st = w.st /\ x.open = w.open /\ x.toS = w.toS /\ Reads(w.toC, msg, x.toC)
  BY <1>1
<1>4. DOMAIN d = DOMAIN cs /\ d[i] = x /\ \A l \in DOMAIN cs : l # i => d[l] = cs[l]
  BY <1>1, SeqSet DEF Put
<1>5. /\ BindLast(w.toC) /\ No(w.toC, "UNBIND") /\ v.bsem <= 1
      /\ v.bsem = 1 => v.pc = "binding" /\ No(w.toC, "BIND") /\ Quiet(w.toC)
      /\ v.pc # "binding" => No(w.toC, "BIND")
      /\ v.pc = "binding" => No(w.toS, "COMM") /\ ~v.cb
      /\ Unbound(cl, cs, i) => v.pc = "binding" /\ v.bsem = 0 /\ No(w.toC, "BIND")
      /\ ~v.late => CallOf(v, w.toS, w.toC)
  BY <1>1 DEF BindOf, Calls
<1>6. Unbound(cl, d, i) <=> Unbound(cl, cs, i)
  BY <1>1, <1>3, <1>4 DEF Unbound
<1> HIDE DEF w
<1>7. w.toC \in Seq(Messages)
  BY <1>1 DEF ConnOK
<1>8. /\ msg \in Messages /\ x.toC \in Seq(Messages)
      /\ \A f : No(w.toC, f) <=> No(x.toC, f) /\ msg.flag # f
      /\ Quiet(w.toC) => Quiet(x.toC) /\ ~IsRequest(msg)
      /\ BindLast(x.toC) /\ (msg.flag = "BIND" => No(x.toC, "BIND") /\ Quiet(x.toC))
      /\ \A t, q : Only(w.toC, t, q) => /\ Only(x.toC, t, q)
                                        /\ IsRequest(msg) => msg.tag = t /\ msg.cmd = q /\ Quiet(x.toC)
  BY <1>3, <1>5, <1>7, ReadOne
<1>9. msg.flag # "UNBIND" /\ msg.flag \in {"BIND", "COMM", "PUSH"}
  BY <1>5, <1>8 DEF Messages
<1>10. /\ Alike(v, y)
       /\ \/ /\ msg.flag = "BIND" /\ y.bsem = v.bsem + 1 /\ y.sync = v.sync /\ y.sem = v.sem /\ y.resp = v.resp
             /\ y.late = v.late
          \/ /\ msg.flag # "BIND" /\ y.bsem = v.bsem /\ y.sync = v.sync /\ y.sem = v.sem /\ y.resp = v.resp
             /\ y.late = v.late
          \/ /\ msg.flag # "BIND" /\ v.cb /\ y.bsem = v.bsem /\ msg.cmd \in v.sync
             /\ y.late \/ (IsRequest(msg) /\ ~v.late)
             /\ y.sync = v.sync \ {msg.cmd} /\ y.sem = v.sem + 1 /\ y.resp = msg.tag
  <2>1. v.sync \subseteq Cmds /\ v.late \in BOOLEAN
    BY <1>1 DEF ClientOK
  <2> QED
    BY <1>9, <2>1 DEF Reacts, IsRequest
<1>11. ConnOK(x)
  BY <1>1, <1>3, <1>8 DEF ConnOK
<1>12. LeavesWell(i, x, dead)
  BY <1>1, <1>3 DEF LeavesWell
<1>13. EntryAgrees(cl, i, x)
  BY <1>1, <1>2, <1>3 DEF EntryAgrees
<1>14. ClientOK(y)
  <2>1. /\ y.pc = v.pc /\ y.cb = v.cb /\ DOMAIN y = ClientFields
        /\ y.sem \in Nat /\ y.bsem \in Nat /\ y.sync \subseteq Cmds
    BY <1>1, <1>10 DEF ClientOK, Alike
  <2>2. y.late \in BOOLEAN
    BY <1>1 DEF Reacts, ClientOK
  <2> QED
    BY <1>1, <2>1, <2>2 DEF ClientOK
<1>15. OwnedBy(d, k, y)
  BY <1>1, <1>3, <1>4, <1>10 DEF OwnedBy, Alike, w
<1>16. BindOf(cl, d, y)
  <2>1. y.pc = v.pc /\ y.conn = i /\ y.cb = v.cb
    BY <1>1, <1>10 DEF Alike
  <2>2. CASE msg.flag = "BIND"
    <3>1. v.pc = "binding" /\ v.bsem = 0 /\ ~Unbound(cl, cs, i)
      BY <1>1, <1>5, <1>8, <2>2 DEF ClientOK
    <3>2. y.bsem = 1
      BY <1>10, <2>2, <3>1
    <3> QED
      BY <1>3, <1>4, <1>5, <1>6, <1>8, <2>1, <2>2, <3>1, <3>2 DEF BindOf
  <2>3. CASE msg.flag # "BIND"
    <3>1. y.bsem = v.bsem
      BY <1>10, <2>3
    <3> QED
      BY <1>3, <1>4, <1>5, <1>6, <1>8, <2>1, <3>1 DEF BindOf
  <2> QED
    BY <1>9, <2>2, <2>3
<1>17. Calls(d, y)
  <2>1. SUFFICES ASSUME ~y.late  PROVE CallOf(y, w.toS, x.toC)
    BY <1>1, <1>3, <1>4, <1>10 DEF Calls, Alike
  <2>2. ~v.late /\ CallOf(v, w.toS, w.toC)
    BY <1>5, <1>10, <2>1
  <2>3. CASE y.sync = v.sync /\ y.sem = v.sem /\ y.resp = v.resp
    BY <1>8, <1>10, <2>2, <2>3 DEF CallOf, Idle, Alike
  <2>4. CASE /\ v.cb /\ msg.cmd \in v.sync /\ IsRequest(msg)
             /\ y.sync = v.sync \ {msg.cmd} /\ y.sem = v.sem + 1 /\ y.resp = msg.tag
    <3>1. v.pc = "waiting" /\ v.ret = "none" /\ v.sem = 0 /\ v.sync = {v.wait} /\ Quiet(w.toS) /\ Only(w.toC, v.req, v.wait)
      BY <1>1, <1>8, <2>2, <2>4 DEF CallOf, Idle, ClientOK
    <3>2. msg.tag = v.req /\ msg.cmd = v.wait /\ Quiet(x.toC)
      BY <1>8, <2>4, <3>1
    <3> QED
      BY <1>10, <2>4, <3>1, <3>2 DEF CallOf, Alike
  <2> QED
    BY <1>10, <2>1, <2>3, <2>4
<1>18. Counted(y, tags)
  <2>1. v.sem \in Nat /\ v.sync \subseteq Cmds
    BY <1>1 DEF ClientOK
  <2>2. CASE y.sync = v.sync /\ y.sem = v.sem
    BY <1>1, <2>2 DEF Counted, Waits
  <2>3. CASE msg.cmd \in v.sync /\ y.sync = v.sync \ {msg.cmd} /\ y.sem = v.sem + 1
    <3>1. msg.cmd = "get" \/ msg.cmd = "put"
      BY <2>1, <2>3 DEF Cmds
    <3>2. Waits(y) = Waits(v) - 1
      BY <2>3, <3>1 DEF Waits
    <3>3. Waits(v) \in Nat
      BY DEF Waits
    <3> QED
      BY <1>1, <2>1, <2>3, <3>2, <3>3 DEF Counted
  <2> QED
    BY <1>10, <2>2, <2>3
<1>19. x.cli = cs[i].cli /\ tags <= tags /\ Within(dead, dead) /\ i \in DOMAIN cs
  BY <1>1 DEF Within
<1>20. Put(c, x.cli, y, e) /\ OwnedBy(d, x.cli, y)
  BY <1>3, <1>15
<1> QED
  BY <1>2, <1>11, <1>12, <1>13, <1>14, <1>16, <1>17, <1>18, <1>19, <1>20, Moves
LEMMA ClientRecvStep ==
  ASSUME IpcInv, UNCHANGED lim, NEW k \in Clients, client_recv_callback(k)
  PROVE  IpcInv'
<1> DEFINE v == cli[k]
           i == v.conn
           msg == Head(conn[i].toC)
           x == [conn[i] EXCEPT !.toC = Tail(conn[i].toC)]
           y == ClientTakes(v, msg)
<1>1. /\ Inv(clist, conn, cli, obs.tags, obs.dead) /\ obs.tags \in Nat
      /\ ClientOK(v) /\ cli = [q \in Clients |-> cli[q]]
  BY AtClient
<1>2. /\ UNCHANGED <<up, clist, obs>> /\ v.pc # "off" /\ conn[i].toC # <<>>
      /\ conn' = [conn EXCEPT ![i] = x] /\ cli' = [cli EXCEPT ![k] = y]
  BY DEF client_recv_callback
<1>3. Put(conn, i, x, conn') /\ Put(cli, k, y, cli')
  BY <1>2 DEF Put
<1>4. i \in DOMAIN conn /\ ConnOK(conn[i])
  BY <1>2, OwnConn
<1>5. Reads(conn[i].toC, msg, Tail(conn[i].toC)) /\ conn[i].toC \in Seq(Messages)
  BY <1>2, <1>4 DEF Reads, ConnOK
<1>6. UNCHANGED <<up, clist, obs>> /\ v.pc # "off"
  BY <1>2
<1> HIDE DEF i
<1>7. /\ DOMAIN x = ConnFields /\ x.cli = conn[i].cli /\ x.st = conn[i].st /\ x.open = conn[i].open
      /\ x.toS = conn[i].toS /\ x.toC = Tail(conn[i].toC)
  BY <1>4 DEF ConnOK, ConnFields
<1> HIDE DEF x
<1>8. msg.flag \in {"BIND", "UNBIND", "COMM", "PUSH"}
  <2>1. msg \in Messages
    BY <1>5, ReadOne
  <2> QED
    BY <2>1 DEF Messages
<1> HIDE DEF msg, v
<1>9. Reacts(v, y, msg)
  <2>1. CASE msg.flag \in {"BIND", "UNBIND"}
    <3>1. y = [v EXCEPT !.bsem = v.bsem + 1, !.r = NoMsg]
      BY <2>1 DEF ClientTakes
    <3> QED
      BY <1>1, <2>1, <3>1 DEF Reacts, Alike, ClientOK, ClientFields
  <2>2. CASE msg.flag \in {"COMM", "PUSH"} /\ ~v.cb
    <3>1. y = [v EXCEPT !.r = msg]
      BY <2>2 DEF ClientTakes
    <3> QED
      BY <1>1, <2>2, <3>1 DEF Reacts, Alike, ClientOK, ClientFields
  <2>3. CASE msg.flag \in {"COMM", "PUSH"} /\ v.cb
    <3>1. y = ipc_process_msg(v, msg)
      BY <2>3 DEF ClientTakes
    <3>2. Ack(msg).cmd = msg.cmd
      <4>1. msg \in Messages
        BY <1>5, ReadOne
      <4> QED
        BY <4>1 DEF Ack, Messages
    <3> HIDE DEF y
    <3>3. CASE msg.cmd \in v.sync
      <4>1. y = [ToWaiter(v, msg) EXCEPT !.sync = @ \ {msg.cmd}]
        BY <3>1, <3>2, <3>3 DEF ipc_process_msg
      <4> QED
        BY <1>1, <2>3, <3>3, <4>1 DEF Reacts, Alike, ClientOK, ClientFields, ToWaiter
    <3>4. CASE msg.cmd \notin v.sync
      <4>1. \E r : y = [v EXCEPT !.r = r]
        BY <3>1, <3>2, <3>4 DEF ipc_process_msg
      <4> QED
        BY <1>1, <2>3, <4>1 DEF Reacts, Alike, ClientOK, ClientFields
    <3> QED
      BY <3>3, <3>4
  <2> QED
    BY <1>8, <2>1, <2>2, <2>3
<1> HIDE DEF y
<1>10. v = cli[k] /\ i = v.conn /\ Reads(conn[i].toC, msg, x.toC)
  BY <1>5, <1>7 DEF i, v
<1>11. Inv(clist, conn', cli', obs.tags, obs.dead)
  BY <1>1, <1>3, <1>6, <1>7, <1>9, <1>10, Takes
<1> QED
  BY <1>6, <1>11 DEF IpcInv
-----------------------------------------------------------------------------
(* The server takes a connection: its BIND is still to be read.            *)
LEMMA Accepts ==
  ASSUME NEW cl, NEW cs, NEW c, NEW tags \in Nat, NEW dead, Inv(cl, cs, c, tags, dead),
         NEW i \in DOMAIN cs, cs[i].st = "pending", Len(cl) < MAX_IPC_NUMNER,
         NEW x, DOMAIN x = ConnFields, x.cli = cs[i].cli, x.st = "accepted", x.open = cs[i].open,
         x.toS = cs[i].toS, x.toC = cs[i].toC, NEW d, Put(cs, i, x, d),
         NEW en, EntryOK(en), en.conn = i, ~en.bind
  PROVE  Inv(Append(cl, en), d, c, tags, dead)
<1> DEFINE w == cs[i]
<1>1. /\ ConnOK(w) /\ LeavesWell(i, w, dead) /\ Listed(cl, cs) /\ IsSeq(cl) /\ IsSeq(cs)
      /\ \A j \in DOMAIN cl : EntryOK(cl[j])
  BY DEF Inv, Shape
<1>2. BindFirst(w.toS) /\ No(w.toS, "COMM")
  BY <1>1 DEF LeavesWell
<1>3. \A j \in DOMAIN cl : cl[j].conn # i
  BY <1>1 DEF Listed
<1>4. DOMAIN d = DOMAIN cs /\ d[i] = x /\ \A l \in DOMAIN cs : l # i => d[l] = cs[l]
  BY <1>1, SeqSet DEF Put
<1>5. ASSUME NEW k \in Clients, c[k].pc # "off", c[k].conn = i
      PROVE  /\ c[k].pc = "binding" /\ c[k].bsem = 0 /\ No(w.toC, "BIND") /\ BindLast(w.toC) /\ No(w.toC, "UNBIND") /\ ~c[k].cb
             /\ ~c[k].late => CallOf(c[k], w.toS, w.toC)
  <2>1. BindOf(cl, cs, c[k]) /\ Calls(cs, c[k])
    BY DEF Inv
  <2> QED
    BY <1>5, <2>1 DEF BindOf, Unbound, Calls
<1> HIDE DEF w
<1>6. ConnOK(x)
  BY <1>1 DEF ConnOK, w
<1>7. LeavesWell(i, x, dead)
  BY <1>1 DEF LeavesWell, w
<1>8. EntryMoves(cl, cl, i) /\ EntryAgrees(cl, i, x)
  BY <1>1, <1>3 DEF EntryMoves, EntryAgrees
<1>9. c[x.cli].pc # "off" /\ c[x.cli].conn = i => BindOf(cl, d, c[x.cli]) /\ Calls(d, c[x.cli])
  <2> SUFFICES ASSUME c[x.cli].pc # "off", c[x.cli].conn = i  PROVE BindOf(cl, d, c[x.cli]) /\ Calls(d, c[x.cli])
    OBVIOUS
  <2> DEFINE v == c[x.cli]
  <2>1. x.cli \in Clients
    BY <1>6 DEF ConnOK
  <2>2. /\ v.pc = "binding" /\ v.bsem = 0 /\ No(w.toC, "BIND") /\ BindLast(w.toC) /\ No(w.toC, "UNBIND") /\ ~v.cb
        /\ ~v.late => CallOf(v, w.toS, w.toC)
    BY <1>5, <2>1
  <2>3. v.conn = i
    OBVIOUS
  <2> HIDE DEF v
  <2>4. d[v.conn].toC = w.toC /\ d[v.conn].toS = w.toS
    BY <1>4, <2>3 DEF w
  <2>5. BindOf(cl, d, v)
    BY <1>2, <2>2, <2>4 DEF BindOf
  <2>6. Calls(d, v)
    BY <2>2, <2>4 DEF Calls
  <2> QED
    BY <2>5, <2>6 DEF v
<1>10. No(x.toS, "COMM") \/ ~No(cs[i].toS, "COMM")
  BY <1>2 DEF w
<1>11. Inv(cl, d, c, tags, dead)
  BY <1>6, <1>7, <1>8, <1>9, <1>10, ServerMoves
<1>12. en.conn \in DOMAIN d /\ d[en.conn].st = "accepted" /\ BindFirst(d[en.conn].toS) /\ No(d[en.conn].toS, "COMM")
       /\ \A j \in DOMAIN cl : cl[j].conn # en.conn
  BY <1>2, <1>3, <1>4 DEF w
<1>13. \A k \in Clients : c[k].pc # "off" /\ c[k].conn = en.conn =>
         c[k].pc = "binding" /\ c[k].bsem = 0 /\ No(d[en.conn].toC, "BIND")
  BY <1>4, <1>5 DEF w
<1> QED
  BY <1>11, <1>12, <1>13, EntryAdded

LEMMA AcceptStep ==
  ASSUME IpcInv, UNCHANGED lim, NEW i \in DOMAIN conn, Accept(i)
  PROVE  IpcInv'
<1> DEFINE x == [conn[i] EXCEPT !.st = "accepted"]
           en == [conn |-> i, bind |-> FALSE, cid |-> 0, r |-> NoMsg]
<1>1. /\ Inv(clist, conn, cli, obs.tags, obs.dead) /\ obs.tags \in Nat /\ ConnOK(conn[i])
  BY IpcBounds DEF IpcInv, Inv, Shape
<1>2. /\ UNCHANGED <<up, cli, obs>> /\ conn[i].st = "pending" /\ Len(clist) < MAX_IPC_NUMNER
      /\ Put(conn, i, x, conn') /\ clist' = Append(clist, en)
  BY DEF Accept, Put
<1>3. /\ DOMAIN x = ConnFields /\ x.cli = conn[i].cli /\ x.st = "accepted" /\ x.open = conn[i].open
      /\ x.toS = conn[i].toS /\ x.toC = conn[i].toC
  BY <1>1 DEF ConnOK, ConnFields
<1>4. EntryOK(en) /\ en.conn = i /\ ~en.bind
  BY DEF EntryOK, EntryFields
<1> HIDE DEF x, en
<1>5. Inv(Append(clist, en), conn', cli, obs.tags, obs.dead)
  BY <1>1, <1>2, <1>3, <1>4, Accepts
<1> QED
  BY <1>2, <1>5 DEF IpcInv
-----------------------------------------------------------------------------
(* The server reads a message of the j-th entry, which is en then.         *)
LEMMA OneEntry ==
  ASSUME NEW cl, IsSeq(cl), \A l \in DOMAIN cl : EntryOK(cl[l]), NEW j \in DOMAIN cl,
         NEW en, EntryOK(en), en.conn = cl[j].conn, NEW l2, Put(cl, j, en, l2)
  PROVE  EntryMoves(cl, l2, cl[j].conn) /\ DOMAIN l2 = DOMAIN cl /\ l2[j] = en /\ \A l \in DOMAIN cl : l # j => l2[l] = cl[l]
<1>1. /\ IsSeq(l2) /\ Len(l2) = Len(cl) /\ DOMAIN l2 = DOMAIN cl /\ l2[j] = en
      /\ \A l \in DOMAIN cl : l # j => l2[l] = cl[l]
  BY SeqSet DEF Put
<1> QED
  BY <1>1 DEF EntryMoves

(* What the invariant says of an entry and its connection.                 *)
LEMMA AtEntry ==
  ASSUME NEW cl, NEW cs, NEW c, NEW tags, NEW dead, Inv(cl, cs, c, tags, dead), NEW j \in DOMAIN cl,
         NEW i, i = cl[j].conn
  PROVE  /\ i \in DOMAIN cs /\ ConnOK(cs[i]) /\ cs[i].cli \in Clients /\ LeavesWell(i, cs[i], dead)
         /\ cs[i].st = "accepted" /\ IsSeq(cs) /\ IsSeq(cl) /\ (\A l \in DOMAIN cl : EntryOK(cl[l]))
         /\ \A l \in DOMAIN cl : cl[l].conn = i => l = j
         /\ cl[j].bind => cl[j].cid = cs[i].cli /\ No(cs[i].toS, "BIND") /\ ~Unbound(cl, cs, i)
         /\ ~cl[j].bind => BindFirst(cs[i].toS) /\ Unbound(cl, cs, i)
<1>1. Shape(cl, cs, c) /\ Listed(cl, cs)
  BY DEF Inv
<1>2. /\ i \in DOMAIN cs /\ ConnOK(cs[i]) /\ LeavesWell(i, cs[i], dead)
      /\ IsSeq(cs) /\ IsSeq(cl) /\ (\A l \in DOMAIN cl : EntryOK(cl[l]))
  BY <1>1 DEF Inv, Shape
<1>3. /\ cs[i].st = "accepted" /\ \A l \in DOMAIN cl : cl[l].conn = i => l = j
      /\ cl[j].bind => cl[j].cid = cs[i].cli /\ No(cs[i].toS, "BIND")
      /\ ~cl[j].bind => BindFirst(cs[i].toS)
  BY <1>1 DEF Listed
<1> QED
  BY <1>2, <1>3 DEF Unbound, ConnOK

(* A client that runs is the owner of connection i.                        *)
LEMMA Owner ==
  ASSUME NEW cl, NEW cs, NEW c, NEW tags, NEW dead, Inv(cl, cs, c, tags, dead), NEW k \in Clients,
         NEW v, v = c[k], v.pc # "off", NEW i, v.conn = i
  PROVE  /\ i \in DOMAIN cs /\ cs[i].open /\ ClientOK(v) /\ \A l \in DOMAIN cs : cs[l].cli = k => l <= i
         /\ BindLast(cs[i].toC) /\ No(cs[i].toC, "UNBIND") /\ v.bsem <= 1
         /\ v.bsem = 1 => v.pc = "binding" /\ No(cs[i].toC, "BIND") /\ Quiet(cs[i].toC)
         /\ v.pc # "binding" => No(cs[i].toC, "BIND")
         /\ v.pc = "binding" => No(cs[i].toS, "COMM") /\ ~v.cb
         /\ Unbound(cl, cs, i) => v.pc = "binding" /\ v.bsem = 0 /\ No(cs[i].toC, "BIND")
         /\ ~v.late => CallOf(v, cs[i].toS, cs[i].toC)
<1>1. OwnedBy(cs, k, v) /\ BindOf(cl, cs, v) /\ Calls(cs, v) /\ ClientOK(v)
  BY DEF Inv, Shape
<1> QED
  BY <1>1 DEF OwnedBy, BindOf, Calls

(* BIND is read and answered.                                              *)Acked(w, x, m) ==
  /\ DOMAIN x = ConnFields /\ x.cli = w.cli /\ x.st = w.st /\ x.open = w.open
  /\ IF w.open THEN x.toC = Append(w.toC, m) ELSE x.toC = w.toC
IsBound(en, i, cid) == EntryOK(en) /\ en.conn = i /\ en.bind /\ en.cid = cid

LEMMA Binds ==
  ASSUME NEW cl, NEW cs, NEW c, NEW tags \in Nat, NEW dead, Inv(cl, cs, c, tags, dead),
         NEW j \in DOMAIN cl, NEW i, i = cl[j].conn,
         NEW msg, NEW x, Reads(cs[i].toS, msg, x.toS), msg.flag = "BIND",
         Acked(cs[i], x, msg), NEW d, Put(cs, i, x, d),
         NEW en, IsBound(en, i, msg.src), NEW l2, Put(cl, j, en, l2)
  PROVE  Inv(l2, d, c, tags, dead)
<1> DEFINE w == cs[i]
<1>1. /\ i \in DOMAIN cs /\ ConnOK(w) /\ w.cli \in Clients /\ LeavesWell(i, w, dead)
      /\ w.st = "accepted" /\ IsSeq(cs) /\ IsSeq(cl) /\ (\A l \in DOMAIN cl : EntryOK(cl[l]))
      /\ \A l \in DOMAIN cl : cl[l].conn = i => l = j
      /\ cl[j].bind => No(w.toS, "BIND")
      /\ ~cl[j].bind => BindFirst(w.toS) /\ Unbound(cl, cs, i)
  BY AtEntry
<1>2. DOMAIN d = DOMAIN cs /\ d[i] = x /\ \A l \in DOMAIN cs : l # i => d[l] = cs[l]
  BY <1>1, SeqSet DEF Put
<1>3. EntryMoves(cl, l2, i) /\ DOMAIN l2 = DOMAIN cl /\ l2[j] = en /\ \A l \in DOMAIN cl : l # j => l2[l] = cl[l]
  BY <1>1, OneEntry DEF IsBound
<1> DEFINE v == c[x.cli]
<1>4. v.pc # "off" /\ v.conn = i =>
        /\ w.open /\ BindLast(w.toC) /\ No(w.toC, "UNBIND")
        /\ v.pc = "binding" => No(w.toS, "COMM") /\ ~v.cb
        /\ Unbound(cl, cs, i) => v.pc = "binding" /\ v.bsem = 0 /\ No(w.toC, "BIND")
        /\ ~v.late => CallOf(v, w.toS, w.toC)
  BY <1>1, Owner DEF Acked
<1>a. /\ DOMAIN x = ConnFields /\ x.cli = w.cli /\ x.st = w.st /\ x.open = w.open /\ Reads(w.toS, msg, x.toS)
      /\ w.open => x.toC = Append(w.toC, msg)
      /\ x.toC \in {w.toC, Append(w.toC, msg)}
  BY DEF Acked
<1> HIDE DEF w, v
<1>5. /\ w.toS \in Seq(Messages) /\ w.toC \in Seq(Messages) /\ \A n \in DOMAIN w.toS : w.toS[n].src = w.cli
  BY <1>1 DEF ConnOK
<1>6. /\ msg \in Messages /\ x.toS \in Seq(Messages) /\ msg.src = w.cli /\ \A n \in DOMAIN x.toS : x.toS[n].src = w.cli
      /\ \A f : No(w.toS, f) <=> No(x.toS, f) /\ msg.flag # f
      /\ BindFirst(w.toS) => No(x.toS, "BIND")
  <2> DEFINE q == w.toS
             p == x.toS
  <2>1. q \in Seq(Messages) /\ Reads(q, msg, p)
    BY <1>5, <1>a
  <2>2. From(q, w.cli)
    BY <1>5 DEF From
  <2> HIDE DEF q, p
  <2> QED
    <3>1. /\ msg \in Messages /\ p \in Seq(Messages)
          /\ \A f : No(q, f) <=> No(p, f) /\ msg.flag # f
          /\ BindFirst(q) => No(p, "BIND")
      BY <2>1, ReadOne
    <3>2. msg.src = w.cli /\ From(p, w.cli)
      BY <2>1, <2>2, ReadFrom
    <3> QED
      BY <3>1, <3>2 DEF From, q, p
<1>7. Unbound(cl, cs, i) /\ No(x.toS, "BIND")
  BY <1>1, <1>6
<1>8. /\ Append(w.toC, msg) \in Seq(Messages)
      /\ \A f : No(Append(w.toC, msg), f) <=> No(w.toC, f) /\ msg.flag # f
      /\ BindLast(w.toC) /\ No(w.toC, "BIND") => BindLast(Append(w.toC, msg))
  BY <1>5, <1>6, Appended
<1>9. ConnOK(x)
  BY <1>1, <1>5, <1>6, <1>8, <1>a DEF ConnOK
<1>10. LeavesWell(i, x, dead)
  BY <1>1, <1>6, <1>a DEF LeavesWell
<1>11. EntryAgrees(l2, i, x)
  BY <1>1, <1>3, <1>6, <1>7, <1>a DEF EntryAgrees, IsBound
<1>12. v.pc # "off" /\ v.conn = i => BindOf(l2, d, v) /\ Calls(d, v)
  <2> SUFFICES ASSUME v.pc # "off", v.conn = i  PROVE BindOf(l2, d, v) /\ Calls(d, v)
    OBVIOUS
  <2>1. /\ x.toC = Append(w.toC, msg) /\ v.pc = "binding" /\ v.bsem = 0 /\ BindLast(x.toC) /\ No(x.toC, "UNBIND")
        /\ No(x.toS, "COMM") /\ ~v.cb
    BY <1>4, <1>6, <1>7, <1>8, <1>a
  <2>2. ~Unbound(l2, d, i)
    BY <1>1, <1>2, <1>3, <1>a DEF Unbound, IsBound
  <2>3. BindOf(l2, d, v)
    BY <1>2, <2>1, <2>2 DEF BindOf
  <2>4. Calls(d, v)
    BY <1>4, <2>1 DEF Calls, CallOf
  <2> QED
    BY <2>3, <2>4
<1>13. No(x.toS, "COMM") \/ ~No(cs[i].toS, "COMM")
  BY <1>6 DEF w
<1>14. c[x.cli].pc # "off" /\ c[x.cli].conn = i => BindOf(l2, d, c[x.cli]) /\ Calls(d, c[x.cli])
  BY <1>12 DEF v
<1>15. x.open = cs[i].open /\ x.cli = cs[i].cli /\ i \in DOMAIN cs
  BY <1>1 DEF Acked
<1> QED
  BY <1>3, <1>9, <1>10, <1>11, <1>13, <1>14, <1>15, ServerMoves

(* UNBIND is read: the entry leaves the list.                              *)Left(w, x) ==
  /\ DOMAIN x = ConnFields /\ x.cli = w.cli /\ x.st = "closed" /\ x.open = w.open
  /\ ~w.open => x.toC = w.toC

LEMMA Unbinds ==
  ASSUME NEW cl, NEW cs, NEW c, NEW tags \in Nat, NEW dead, Inv(cl, cs, c, tags, dead),
         NEW j \in DOMAIN cl, NEW i, i = cl[j].conn,
         NEW msg, NEW x, Reads(cs[i].toS, msg, x.toS), msg.flag = "UNBIND",
         Left(cs[i], x), NEW d, Put(cs, i, x, d)
  PROVE  Inv(RemoveAt(cl, j), d, c, tags, dead)
<1> DEFINE w == cs[i]
           l2 == RemoveAt(cl, j)
<1>1. /\ i \in DOMAIN cs /\ ConnOK(w) /\ w.cli \in Clients /\ LeavesWell(i, w, dead) /\ w.st = "accepted"
  BY AtEntry
<1>2. Inv(l2, cs, c, tags, dead) /\ \A l \in DOMAIN l2 : l2[l].conn # i
  BY EntryDropped
<1> HIDE DEF l2
<1>3. c[x.cli].pc # "off" /\ c[x.cli].conn = i => w.open
  BY <1>1, Owner DEF Left
<1>a. DOMAIN x = ConnFields /\ x.st = "closed" /\ x.cli = w.cli /\ x.open = w.open /\ Reads(w.toS, msg, x.toS) /\ (~w.open => x.toC = w.toC)
  BY DEF Left
<1> HIDE DEF w
<1>4. /\ w.toS \in Seq(Messages) /\ w.toC \in Seq(Messages) /\ \A n \in DOMAIN w.toS : w.toS[n].src = w.cli
  BY <1>1 DEF ConnOK
<1>5. /\ x.toS \in Seq(Messages) /\ \A n \in DOMAIN x.toS : x.toS[n].src = w.cli
      /\ \A f : No(w.toS, f) <=> No(x.toS, f) /\ msg.flag # f
  <2> DEFINE q == w.toS
             p == x.toS
  <2>1. q \in Seq(Messages) /\ Reads(q, msg, p)
    BY <1>4, <1>a
  <2>2. From(q, w.cli)
    BY <1>4 DEF From
  <2> HIDE DEF q, p
  <2> QED
    <3>1. /\ p \in Seq(Messages)
          /\ \A f : No(q, f) <=> No(p, f) /\ msg.flag # f
      BY <2>1, ReadOne
    <3>2. From(p, w.cli)
      BY <2>1, <2>2, ReadFrom
    <3> QED
      BY <3>1, <3>2 DEF From, q, p
<1>6. ~w.open
  BY <1>1, <1>5 DEF LeavesWell
<1>7. ConnOK(x)
  BY <1>1, <1>4, <1>5, <1>6, <1>a DEF ConnOK
<1>8. LeavesWell(i, x, dead)
  BY <1>1, <1>5, <1>6, <1>a DEF LeavesWell
<1>9. EntryAgrees(l2, i, x) /\ EntryMoves(l2, l2, i)
  BY <1>2 DEF EntryAgrees, EntryMoves, Inv, Shape
<1>10. /\ c[x.cli].pc # "off" /\ c[x.cli].conn = i => BindOf(l2, d, c[x.cli]) /\ Calls(d, c[x.cli])
       /\ x.open = cs[i].open /\ x.cli = cs[i].cli /\ i \in DOMAIN cs
       /\ No(x.toS, "COMM") \/ ~No(cs[i].toS, "COMM")
  BY <1>1, <1>3, <1>5, <1>6, <1>a DEF w
<1>11. Inv(l2, d, c, tags, dead)
  BY <1>2, <1>7, <1>8, <1>9, <1>10, ServerMoves
<1> QED
  BY <1>11 DEF l2
(* Another message is read: the entry is bound, and differs only by what   *)
(* is kept for wow_ipc_recv.                                               *)
Other(msg) == msg.flag \notin {"BIND", "UNBIND"}
SameEntry(a, b) == EntryOK(b) /\ b.conn = a.conn /\ (b.bind <=> a.bind) /\ b.cid = a.cid

LEMMA Hears ==
  ASSUME NEW cl, NEW cs, NEW c, NEW tags, NEW dead, Inv(cl, cs, c, tags, dead),
         NEW j \in DOMAIN cl, NEW i, i = cl[j].conn, NEW q, q = cs[i].toS, NEW msg, NEW p, Reads(q, msg, p), Other(msg)
  PROVE  /\ cl[j].bind /\ cl[j].cid = cs[i].cli /\ msg.src = cs[i].cli
         /\ msg \in Messages /\ msg.flag = "COMM" /\ ~No(q, "COMM")
<1>1. /\ ConnOK(cs[i]) /\ (cl[j].bind => cl[j].cid = cs[i].cli) /\ (~cl[j].bind => BindFirst(q)) /\ No(q, "PUSH")
  BY AtEntry DEF LeavesWell
<1>2. q \in Seq(Messages) /\ From(q, cs[i].cli)
  BY <1>1 DEF ConnOK, From
<1>3. /\ msg \in Messages /\ (BindFirst(q) => msg.flag = "BIND") /\ (No(q, "COMM") => msg.flag # "COMM") /\ msg.flag # "PUSH"
  BY <1>1, <1>2, ReadOne
<1>4. msg.src = cs[i].cli
  BY <1>2, ReadFrom
<1> QED
  BY <1>1, <1>3, <1>4 DEF Messages, Other

LEMMA Hands ==
  ASSUME NEW cl, NEW cs, NEW c, NEW tags \in Nat, NEW dead, Inv(cl, cs, c, tags, dead),
         NEW j \in DOMAIN cl, NEW i, i = cl[j].conn,
         NEW msg, NEW x, Reads(cs[i].toS, msg, x.toS), Other(msg),
         Same(cs[i], x), NEW d, Put(cs, i, x, d), NEW en, SameEntry(cl[j], en), NEW l2, Put(cl, j, en, l2)
  PROVE  Inv(l2, d, c, tags, dead)
<1> DEFINE w == cs[i]
<1>1. /\ i \in DOMAIN cs /\ ConnOK(w) /\ w.cli \in Clients /\ LeavesWell(i, w, dead)
      /\ w.st = "accepted" /\ IsSeq(cs) /\ IsSeq(cl) /\ (\A l \in DOMAIN cl : EntryOK(cl[l]))
      /\ \A l \in DOMAIN cl : cl[l].conn = i => l = j
      /\ cl[j].bind => cl[j].cid = w.cli /\ No(w.toS, "BIND") /\ ~Unbound(cl, cs, i)
      /\ ~cl[j].bind => BindFirst(w.toS)
  BY AtEntry
<1>2. DOMAIN d = DOMAIN cs /\ d[i] = x /\ \A l \in DOMAIN cs : l # i => d[l] = cs[l]
  BY <1>1, SeqSet DEF Put
<1>3. EntryMoves(cl, l2, i) /\ DOMAIN l2 = DOMAIN cl /\ l2[j] = en /\ \A l \in DOMAIN cl : l # j => l2[l] = cl[l]
  BY <1>1, OneEntry DEF SameEntry
<1> DEFINE v == c[x.cli]
<1>4. v.pc # "off" /\ v.conn = i =>
        /\ BindLast(w.toC) /\ No(w.toC, "UNBIND") /\ v.bsem <= 1
        /\ v.bsem = 1 => v.pc = "binding" /\ No(w.toC, "BIND") /\ Quiet(w.toC)
        /\ v.pc # "binding" => No(w.toC, "BIND")
        /\ v.pc = "binding" => No(w.toS, "COMM") /\ ~v.cb
        /\ ~v.late => CallOf(v, w.toS, w.toC)
  BY <1>1, Owner DEF Same
<1>a. DOMAIN x = ConnFields /\ x.cli = w.cli /\ x.st = w.st /\ x.toC = w.toC /\ x.open = w.open
  BY DEF Same
<1>b. w.toS \in Seq(Messages) /\ Reads(w.toS, msg, x.toS)
  BY <1>1 DEF ConnOK
<1>5. w.toC \in Seq(Messages) /\ From(w.toS, w.cli)
  BY <1>1 DEF ConnOK, From
<1> DEFINE q == w.toS
           p == x.toS
<1>c. q \in Seq(Messages) /\ Reads(q, msg, p) /\ From(q, w.cli)
  BY <1>b, <1>5
<1>d. x.toS = p /\ w.toS = q
  OBVIOUS
<1> HIDE DEF w, v, p, q
<1>6. /\ msg \in Messages /\ p \in Seq(Messages)
      /\ \A f : No(q, f) <=> No(p, f) /\ msg.flag # f
      /\ BindFirst(q) => msg.flag = "BIND"
      /\ Quiet(q) => Quiet(p)
      /\ \A t, m : Only(q, t, m) => Only(p, t, m)
  BY <1>c, ReadOne
<1>7. msg.src = w.cli /\ From(p, w.cli)
  BY <1>c, ReadFrom
<1>8. /\ cl[j].bind /\ cl[j].cid = w.cli /\ No(q, "BIND") /\ ~Unbound(cl, cs, i) /\ msg.flag = "COMM"
  <2>1. msg.flag = "COMM"
    BY <1>1, <1>6, <1>d DEF Messages, Other, LeavesWell
  <2> QED
    BY <1>1, <1>6, <1>d, <2>1
<1>9. ConnOK(x)
  BY <1>1, <1>6, <1>7, <1>a, <1>d DEF ConnOK, From
<1>10. LeavesWell(i, x, dead)
  <2>1. (No(q, "UNBIND") <=> No(p, "UNBIND")) /\ (No(q, "PUSH") <=> No(p, "PUSH"))
    BY <1>6, <1>8
  <2> QED
    BY <1>1, <1>a, <1>d, <2>1 DEF LeavesWell
<1>11. EntryAgrees(l2, i, x)
  BY <1>1, <1>3, <1>6, <1>8, <1>a, <1>d DEF EntryAgrees, SameEntry
<1>12. v.pc # "off" /\ v.conn = i => BindOf(l2, d, v) /\ Calls(d, v)
  <2> SUFFICES ASSUME v.pc # "off", v.conn = i  PROVE BindOf(l2, d, v) /\ Calls(d, v)
    OBVIOUS
  <2>1. ~Unbound(l2, d, i)
    BY <1>1, <1>2, <1>3, <1>8, <1>a DEF Unbound, SameEntry
  <2>2. d[v.conn].toC = w.toC /\ d[v.conn].toS = p
    BY <1>2, <1>a, <1>d
  <2>3. BindOf(l2, d, v)
    BY <1>4, <1>6, <1>d, <2>1, <2>2 DEF BindOf
  <2>4. Calls(d, v)
    BY <1>4, <1>6, <1>d, <2>2 DEF Calls, CallOf
  <2> QED
    BY <2>3, <2>4
<1>13. No(x.toS, "COMM") \/ ~No(cs[i].toS, "COMM")
  BY <1>6, <1>d DEF w
<1>14. c[x.cli].pc # "off" /\ c[x.cli].conn = i => BindOf(l2, d, c[x.cli]) /\ Calls(d, c[x.cli])
  BY <1>12 DEF v
<1>15. x.open = cs[i].open /\ x.cli = cs[i].cli /\ i \in DOMAIN cs
  BY <1>1 DEF Same
<1>16. Inv(l2, d, c, tags, dead)
  BY <1>3, <1>9, <1>10, <1>11, <1>13, <1>14, <1>15, ServerMoves
<1> QED
  BY <1>16

(* The server sends m to connection i: an answer only to a client that     *)
(* waits for it (Awaits), and nothing but BIND before BIND is answered.    *)
Told(w, x, m) ==
  /\ DOMAIN x = ConnFields /\ x.cli = w.cli /\ x.st = w.st /\ x.open = w.open /\ x.toS = w.toS
  /\ x.toC = Append(w.toC, m)
Awaits(v, m, toS, toC) ==
  v.pc = "waiting" /\ v.sem = 0 /\ v.sync = {v.wait} /\ v.cb /\ v.ret = "none"
  /\ m.tag = v.req /\ m.cmd = v.wait /\ Quiet(toS) /\ Quiet(toC)
MayTell(cl, cs, i, v, m) ==
  v.pc # "off" /\ v.conn = i /\ ~Unbound(cl, cs, i) =>
    v.pc # "binding" /\ (~v.late => ~IsRequest(m) \/ Awaits(v, m, cs[i].toS, cs[i].toC))

LEMMA Answers ==
  ASSUME NEW cl, NEW cs, NEW c, NEW tags \in Nat, NEW dead, Inv(cl, cs, c, tags, dead),
         NEW j \in DOMAIN cl, NEW i, i = cl[j].conn, NEW m \in Messages, m.flag = "COMM",
         NEW x, Told(cs[i], x, m), NEW d, Put(cs, i, x, d), MayTell(cl, cs, i, c[x.cli], m)
  PROVE  Inv(cl, d, c, tags, dead)
<1> DEFINE w == cs[i]
           v == c[x.cli]
<1>1. /\ i \in DOMAIN cs /\ ConnOK(w) /\ w.cli \in Clients /\ LeavesWell(i, w, dead)
      /\ w.st = "accepted" /\ IsSeq(cs) /\ IsSeq(cl) /\ (\A l \in DOMAIN cl : EntryOK(cl[l]))
      /\ \A l \in DOMAIN cl : cl[l].conn = i => l = j
      /\ cl[j].bind => cl[j].cid = w.cli /\ No(w.toS, "BIND")
      /\ ~cl[j].bind => BindFirst(w.toS)
  BY AtEntry
<1>2. DOMAIN d = DOMAIN cs /\ d[i] = x /\ \A l \in DOMAIN cs : l # i => d[l] = cs[l]
  BY <1>1, SeqSet DEF Put
<1>3. EntryMoves(cl, cl, i)
  BY <1>1 DEF EntryMoves
<1>4. v.pc # "off" /\ v.conn = i =>
        /\ BindLast(w.toC) /\ No(w.toC, "UNBIND") /\ v.bsem <= 1
        /\ v.bsem = 1 => v.pc = "binding" /\ No(w.toC, "BIND") /\ Quiet(w.toC)
        /\ v.pc # "binding" => No(w.toC, "BIND")
        /\ v.pc = "binding" => No(w.toS, "COMM") /\ ~v.cb
        /\ Unbound(cl, cs, i) => v.pc = "binding" /\ v.bsem = 0 /\ No(w.toC, "BIND")
        /\ ~v.late => CallOf(v, w.toS, w.toC)
  BY <1>1, Owner DEF Told
<1>5. v.pc # "off" /\ v.conn = i =>
        \/ Unbound(cl, cs, i)
        \/ v.pc # "binding" /\ (~v.late => ~IsRequest(m) \/ Awaits(v, m, w.toS, w.toC))
  BY DEF MayTell
<1>a. /\ DOMAIN x = ConnFields /\ x.cli = w.cli /\ x.st = w.st /\ x.open = w.open /\ x.toS = w.toS /\ x.toC = Append(w.toC, m)
  BY DEF Told
<1> DEFINE q == w.toC
           p == x.toC
<1>b. q \in Seq(Messages) /\ p = Append(q, m)
  BY <1>1, <1>a DEF ConnOK
<1>c. x.toC = p /\ w.toC = q
  OBVIOUS
<1> HIDE DEF w, p, q, v
<1>6. /\ p \in Seq(Messages)
      /\ \A f : No(p, f) <=> No(q, f) /\ m.flag # f
      /\ Quiet(p) <=> Quiet(q) /\ ~IsRequest(m)
      /\ BindLast(q) /\ No(q, "BIND") => BindLast(p)
      /\ \A t, n : Only(q, t, n) /\ ~IsRequest(m) => Only(p, t, n)
      /\ Quiet(q) => Only(p, m.tag, m.cmd)
  BY <1>b, Appended
<1>7. ConnOK(x)
  BY <1>1, <1>6, <1>a, <1>c DEF ConnOK
<1>8. LeavesWell(i, x, dead)
  BY <1>1, <1>a DEF LeavesWell
<1>9. EntryAgrees(cl, i, x)
  BY <1>1, <1>a DEF EntryAgrees
<1>10. v.pc # "off" /\ v.conn = i => BindOf(cl, d, v) /\ Calls(d, v)
  <2> SUFFICES ASSUME v.pc # "off", v.conn = i  PROVE BindOf(cl, d, v) /\ Calls(d, v)
    OBVIOUS
  <2>1. Unbound(cl, d, i) <=> Unbound(cl, cs, i)
    BY <1>1, <1>2, <1>a DEF Unbound, w
  <2>2. d[v.conn].toC = p /\ d[v.conn].toS = w.toS
    BY <1>2, <1>a, <1>c
  <2>3. No(q, "BIND") /\ (v.bsem = 1 => Unbound(cl, cs, i))
    BY <1>4, <1>5, <1>c
  <2>4. v.bsem # 1
    BY <1>4, <2>3
  <2>5. BindOf(cl, d, v)
    BY <1>4, <1>6, <1>c, <2>1, <2>2, <2>3, <2>4 DEF BindOf
  <2>6. ~v.late => CallOf(v, w.toS, p)
    <3> SUFFICES ASSUME ~v.late  PROVE CallOf(v, w.toS, p)
      OBVIOUS
    <3>1. CallOf(v, w.toS, q)
      BY <1>4, <1>c
    <3>2. CASE v.pc = "binding"
      BY <3>1, <3>2 DEF CallOf
    <3>3. CASE v.pc # "binding" /\ ~IsRequest(m)
      BY <1>6, <3>1, <3>3 DEF CallOf
    <3>4. CASE v.pc # "binding" /\ Awaits(v, m, w.toS, q)
      BY <1>6, <3>1, <3>4 DEF CallOf, Awaits
    <3> QED
      BY <1>4, <1>5, <1>c, <3>2, <3>3, <3>4
  <2>7. Calls(d, v)
    BY <2>2, <2>6 DEF Calls
  <2> QED
    BY <2>5, <2>7
<1>11. c[x.cli].pc # "off" /\ c[x.cli].conn = i => BindOf(cl, d, c[x.cli]) /\ Calls(d, c[x.cli])
  BY <1>10 DEF v
<1>12. x.open = cs[i].open /\ x.cli = cs[i].cli /\ i \in DOMAIN cs /\ (No(x.toS, "COMM") \/ ~No(cs[i].toS, "COMM"))
  BY <1>1 DEF Told
<1> QED
  BY <1>3, <1>7, <1>8, <1>9, <1>11, <1>12, ServerMoves
(* A request is read and its answer sent to the first entry that bears the *)
(* client's number (t): if a client that runs owns that entry's connection *)
(* it is the one the request came by.                                      *)FirstWith(cl, cid, t) == t \in DOMAIN cl /\ cl[t].cid = cid /\ \A l \in DOMAIN cl : cl[l].cid = cid => t <= l

LEMMA Requests ==
  ASSUME NEW cl, NEW cs, NEW c, NEW tags \in Nat, NEW dead, Inv(cl, cs, c, tags, dead),
         NEW j \in DOMAIN cl, NEW i, i = cl[j].conn,
         NEW msg, NEW x, Reads(cs[i].toS, msg, x.toS), Other(msg),
         Same(cs[i], x), NEW d, Put(cs, i, x, d), NEW en, SameEntry(cl[j], en), NEW l2, Put(cl, j, en, l2),
         NEW t, FirstWith(cl, msg.src, t),
         NEW i2, i2 = cl[t].conn, NEW m, m = Ack(msg), NEW x2, Told(d[i2], x2, m), NEW d2, Put(d, i2, x2, d2)
  PROVE  Inv(l2, d2, c, tags, dead)
<1>1. /\ Inv(l2, d, c, tags, dead) /\ cl[j].bind /\ cl[j].cid = cs[i].cli /\ msg.src = cs[i].cli
      /\ msg \in Messages /\ msg.flag = "COMM" /\ ~No(cs[i].toS, "COMM")
  <2>1. Other(msg)
    OBVIOUS
  <2>2. Inv(l2, d, c, tags, dead)
    BY <2>1, Hands
  <2> DEFINE q == cs[i].toS
             p == x.toS
  <2>3. q = cs[i].toS /\ Reads(q, msg, p)
    OBVIOUS
  <2> HIDE DEF q, p
  <2>4. /\ cl[j].bind /\ cl[j].cid = cs[i].cli /\ msg.src = cs[i].cli
        /\ msg \in Messages /\ msg.flag = "COMM" /\ ~No(q, "COMM")
    BY <2>1, <2>3, Hears
  <2> QED
    BY <2>2, <2>3, <2>4
<1>2. /\ i \in DOMAIN cs /\ ConnOK(cs[i]) /\ cs[i].cli \in Clients /\ IsSeq(cs) /\ IsSeq(cl) /\ (\A l \in DOMAIN cl : EntryOK(cl[l]))
  BY AtEntry
<1>3. DOMAIN d = DOMAIN cs /\ d[i] = x /\ \A l \in DOMAIN cs : l # i => d[l] = cs[l]
  BY <1>2, SeqSet DEF Put
<1>4. DOMAIN l2 = DOMAIN cl /\ l2[j] = en /\ \A l \in DOMAIN cl : l # j => l2[l] = cl[l]
  BY <1>2, SeqSet DEF Put
<1>5. t \in DOMAIN l2 /\ i2 = l2[t].conn /\ (l2[t].bind <=> cl[t].bind)
  BY <1>4 DEF SameEntry, FirstWith
<1>6. /\ m \in Messages /\ m.flag = "COMM" /\ m.tag = msg.tag /\ m.cmd = msg.cmd /\ (IsRequest(m) <=> IsRequest(msg))
  BY <1>1 DEF Ack, Messages, IsRequest
<1>7. i2 \in DOMAIN cs /\ (cl[t].bind => cl[t].cid = cs[i2].cli) /\ ConnOK(cs[i2])
  BY AtEntry DEF FirstWith
<1>8. ~l2[t].bind => Unbound(l2, d, i2)
  BY <1>1, <1>5, AtEntry
<1> DEFINE v == c[x2.cli]
<1>9. ASSUME v.pc # "off", v.conn = i2, ~Unbound(l2, d, i2)
      PROVE  v.pc # "binding" /\ (~v.late => ~IsRequest(m) \/ Awaits(v, m, d[i2].toS, d[i2].toC))
  <2> DEFINE k == cs[i].cli
  <2>1. cl[t].bind /\ cs[i2].cli = k
    BY <1>1, <1>5, <1>7, <1>8, <1>9 DEF FirstWith
  <2>2. x2.cli = k
    BY <1>3, <1>7, <2>1 DEF Told, Same
  <2>3. v = c[k] /\ k \in Clients
    BY <1>2, <2>2
  <2> HIDE DEF v, k
  <2>4. /\ cs[i2].open /\ ClientOK(v) /\ \A l \in DOMAIN cs : cs[l].cli = k => l <= i2
        /\ v.pc = "binding" => No(cs[i2].toS, "COMM")
        /\ ~v.late => CallOf(v, cs[i2].toS, cs[i2].toC)
    BY <1>9, <2>3, Owner
  <2>5. i2 = i
    <3>1. i <= i2 /\ i \in Int /\ i2 \in Int
      BY <1>2, <1>7, <2>4, SeqFacts DEF k
    <3>2. CASE i < i2
      <4>1. j < t
        BY <1>1, <2>1, <3>2 DEF Inv, Ordered, k, FirstWith
      <4>2. t <= j
        BY <1>1 DEF FirstWith
      <4>3. j \in Int /\ t \in Int
        BY <1>2, SeqFacts DEF FirstWith
      <4> QED
        BY <4>1, <4>2, <4>3
    <3> QED
      BY <3>1, <3>2
  <2>6. v.pc # "binding"
    BY <1>1, <2>4, <2>5
  <2>7. ASSUME ~v.late, IsRequest(m)  PROVE Awaits(v, m, d[i2].toS, d[i2].toC)
    <3> DEFINE q == cs[i].toS
               p == x.toS
               r == cs[i].toC
    <3>1. q \in Seq(Messages) /\ Reads(q, msg, p)
      BY <1>2 DEF ConnOK
    <3>2. CallOf(v, q, r) /\ IsRequest(msg) /\ d[i2].toS = p /\ d[i2].toC = r
      BY <1>3, <1>6, <2>4, <2>5, <2>7 DEF Same
    <3> HIDE DEF q, p, r
    <3>3. ~Quiet(q) /\ \A n, cmd : Only(q, n, cmd) => msg.tag = n /\ msg.cmd = cmd /\ Quiet(p)
      BY <3>1, <3>2, ReadOne
    <3>4. v.pc = "waiting"
      BY <2>4, <2>6, <3>2, <3>3, <1>9 DEF CallOf, ClientOK
    <3>5. v.sem = 0 /\ v.sync = {v.wait} /\ Only(q, v.req, v.wait) /\ Quiet(r) /\ v.cb /\ v.ret = "none"
      BY <3>2, <3>3, <3>4 DEF CallOf
    <3>6. Awaits(v, m, p, r)
      BY <1>6, <3>3, <3>4, <3>5 DEF Awaits
    <3> QED
      BY <3>2, <3>6
  <2> QED
    BY <2>6, <2>7
<1>10. MayTell(l2, d, i2, c[x2.cli], m)
  BY <1>9 DEF MayTell
<1> QED
  BY <1>1, <1>5, <1>6, <1>10, Answers
LEMMA SeqPut ==
  ASSUME NEW q, IsSeq(q), NEW i \in DOMAIN q, NEW x, NEW p, Put(q, i, x, p)
  PROVE  IsSeq(p) /\ Len(p) = Len(q) /\ DOMAIN p = DOMAIN q /\ p[i] = x /\ \A j \in DOMAIN q : j # i => p[j] = q[j]
BY SeqSet DEF Put

(* A set of numbers that is not empty has a smallest one, the one SendTo   *)
(* chooses.                                                                *)
LEMMA Smallest ==
  ASSUME NEW S, S \subseteq Nat, S # {}
  PROVE  \E x \in S : \A y \in S : x <= y
<1> DEFINE R == {ss \in Nat \X Nat : ss[1] < ss[2]}
<1>1. IsWellFoundedOn(R, Nat)
  BY NatLessThanWellFounded DEF OpToRel
<1>2. \A x, y \in Nat : y < x => <<y, x>> \in R
  OBVIOUS
<1> HIDE DEF R
<1>3. PICK x \in S : \A y \in S : <<y, x>> \notin R
  BY <1>1, WFMin
<1>4. \A y \in S : ~(y < x)
  BY <1>2, <1>3
<1>5. \A y \in S : x <= y
  BY <1>4
<1> QED
  BY <1>5

(* What ToClient does to a connection.                                     *)
Sent(cs, i, m, d) == d = ToClient(cs, i, m)
Heard(w, x, m) == x.toS = w.toS /\ IF w.open THEN Told(w, x, m) ELSE x = w
LEMMA ClientGets ==
  ASSUME NEW cs, IsSeq(cs), NEW i \in DOMAIN cs, DOMAIN cs[i] = ConnFields, NEW m, NEW d, Sent(cs, i, m, d)
  PROVE  Put(cs, i, d[i], d) /\ Heard(cs[i], d[i], m)
<1>1. cs = [l \in DOMAIN cs |-> cs[l]]
  BY SeqFacts
<1>2. CASE cs[i].open
  <2> DEFINE w == cs[i]
             x == [w EXCEPT !.toC = Append(w.toC, m)]
  <2>1. d = [cs EXCEPT ![i] = x]
    BY <1>2 DEF ToClient, Sent
  <2> HIDE DEF x
  <2>2. d[i] = x
    BY <2>1
  <2>3. Told(w, x, m)
    <3> HIDE DEF w
    <3>1. DOMAIN w = ConnFields
      BY DEF w
    <3> QED
      BY <3>1 DEF ConnFields, Told, x
  <2> HIDE DEF w
  <2>4. x.toS = w.toS
    BY <2>3 DEF Told
  <2> QED
    BY <1>2, <2>1, <2>2, <2>3, <2>4 DEF Put, Heard, w
<1>3. CASE ~cs[i].open
  <2>1. d = cs
    BY <1>3 DEF ToClient, Sent
  <2>2. Put(cs, i, cs[i], cs)
    BY <1>1 DEF Put
  <2> QED
    BY <1>3, <2>1, <2>2 DEF Heard
<1> QED
  BY <1>2, <1>3

LEMMA PutPut ==
  ASSUME NEW f, NEW i \in DOMAIN f, NEW x, NEW g, Put(f, i, x, g), NEW y, NEW h, Put(g, i, y, h)
  PROVE  Put(f, i, y, h)
BY DEF Put

(* The connection of an entry whose first message has been read.           *)
LEMMA AfterRead ==
  ASSUME IpcInv, NEW j \in DOMAIN clist, NEW i, i = clist[j].conn, conn[i].toS # <<>>,
         NEW cs, cs = [conn EXCEPT ![i].toS = Tail(@)]
  PROVE  /\ Inv(clist, conn, cli, obs.tags, obs.dead) /\ obs.tags \in Nat
         /\ i \in DOMAIN conn /\ Put(conn, i, cs[i], cs) /\ Same(conn[i], cs[i])
         /\ Reads(conn[i].toS, Head(conn[i].toS), cs[i].toS)
         /\ IsSeq(cs) /\ DOMAIN cs = DOMAIN conn /\ \A l \in DOMAIN cs : ConnOK(cs[l])
<1>1. Inv(clist, conn, cli, obs.tags, obs.dead) /\ obs.tags \in Nat
  BY IpcBounds DEF IpcInv
<1>2. i \in DOMAIN conn /\ ConnOK(conn[i]) /\ IsSeq(conn)
  BY <1>1, AtEntry
<1>3. cs = [conn EXCEPT ![i] = [conn[i] EXCEPT !.toS = Tail(conn[i].toS)]]
  OBVIOUS
<1>4. /\ cs[i] = [conn[i] EXCEPT !.toS = Tail(conn[i].toS)]
      /\ DOMAIN cs = DOMAIN conn /\ IsSeq(cs) /\ \A l \in DOMAIN conn : l # i => cs[l] = conn[l]
  <2> DEFINE x == [conn[i] EXCEPT !.toS = Tail(conn[i].toS)]
  <2>1. cs = [conn EXCEPT ![i] = x]
    BY <1>3
  <2> HIDE DEF x
  <2>a. Put(conn, i, x, cs)
    BY <2>1 DEF Put
  <2>2. /\ cs[i] = x /\ DOMAIN cs = DOMAIN conn /\ IsSeq(cs) /\ \A l \in DOMAIN conn : l # i => cs[l] = conn[l]
    BY <1>2, <2>a, SeqPut
  <2> QED
    BY <2>2 DEF x
<1>5. Put(conn, i, cs[i], cs)
  BY <1>3, <1>4 DEF Put
<1>6. Same(conn[i], cs[i]) /\ cs[i].toS = Tail(conn[i].toS)
  BY <1>2, <1>4 DEF ConnOK, ConnFields, Same
<1>7. Reads(conn[i].toS, Head(conn[i].toS), cs[i].toS)
  BY <1>6 DEF Reads
<1> DEFINE q == conn[i].toS
           p == cs[i].toS
<1>8. q \in Seq(Messages) /\ From(q, conn[i].cli) /\ Reads(q, Head(q), p)
  BY <1>2, <1>7 DEF ConnOK, From
<1> HIDE DEF q, p
<1>9. p \in Seq(Messages) /\ From(p, conn[i].cli)
  BY <1>8, ReadOne, ReadFrom
<1>10. ConnOK(cs[i])
  BY <1>2, <1>6, <1>9 DEF ConnOK, From, Same, p
<1>11. \A l \in DOMAIN conn : ConnOK(conn[l])
  BY <1>1 DEF Inv, Shape
<1> QED
  BY <1>1, <1>2, <1>4, <1>5, <1>6, <1>7, <1>10, <1>11

LEMMA BindStep ==
  ASSUME IpcInv, NEW j \in DOMAIN clist, NEW i, i = clist[j].conn, conn[i].toS # <<>>,
         NEW msg, msg = Head(conn[i].toS), msg.flag = "BIND",
         NEW cs, cs = [conn EXCEPT ![i].toS = Tail(@)], ipc_ack_client_bind(j, msg, cs), UNCHANGED <<up, cli, obs, lim>>
  PROVE  IpcInv'
<1>1. /\ Inv(clist, conn, cli, obs.tags, obs.dead) /\ obs.tags \in Nat
      /\ i \in DOMAIN conn /\ Put(conn, i, cs[i], cs) /\ Same(conn[i], cs[i])
      /\ Reads(conn[i].toS, msg, cs[i].toS)
      /\ IsSeq(cs) /\ DOMAIN cs = DOMAIN conn /\ \A l \in DOMAIN cs : ConnOK(cs[l])
  BY AfterRead
<1> DEFINE x == conn'[i]
           en == [clist[j] EXCEPT !.bind = TRUE, !.cid = msg.src, !.r = NoMsg]
<1>2. conn' = ToClient(cs, i, msg) /\ clist' = [clist EXCEPT ![j] = en]
  BY DEF ipc_ack_client_bind
<1>3. Put(cs, i, x, conn') /\ Heard(cs[i], x, msg)
  <2>1. DOMAIN cs[i] = ConnFields /\ Sent(cs, i, msg, conn')
    BY <1>1, <1>2 DEF Same, Sent
  <2>2. IsSeq(cs) /\ i \in DOMAIN cs
    BY <1>1
  <2> QED
    BY <2>1, <2>2, ClientGets
<1>4. Put(conn, i, x, conn')
  BY <1>1, <1>3, PutPut
<1>5. Put(clist, j, en, clist')
  BY <1>2 DEF Put
<1>6. EntryOK(clist[j])
  BY <1>1, AtEntry
<1> DEFINE q == conn[i].toS
           p == cs[i].toS
           w == conn[i]
<1>7. msg.src \in Clients \cup {0}
  <2>1. q \in Seq(Messages) /\ Reads(q, msg, p)
    BY <1>1, AtEntry DEF ConnOK
  <2> HIDE DEF q, p
  <2>2. msg \in Messages
    BY <2>1, ReadOne
  <2> QED
    BY <2>2 DEF Messages
<1>8. IsBound(en, i, msg.src)
  BY <1>6, <1>7 DEF EntryOK, EntryFields, IsBound
<1>9. Reads(conn[i].toS, msg, x.toS) /\ Acked(conn[i], x, msg)
  <2>1. Reads(conn[i].toS, msg, x.toS)
    BY <1>1, <1>3 DEF Heard
  <2>2. CASE conn[i].open
    BY <1>1, <1>3, <2>1, <2>2 DEF Told, Heard, Same, Acked
  <2>3. CASE ~conn[i].open
    BY <1>1, <1>3, <2>1, <2>3 DEF Heard, Same, Acked
  <2> QED
    BY <2>2, <2>3
<1> HIDE DEF x, en
<1>10. Inv(clist', conn', cli, obs.tags, obs.dead)
  BY <1>1, <1>4, <1>5, <1>8, <1>9, Binds
<1> QED
  BY <1>10 DEF IpcInv
LEMMA UnbindStep ==
  ASSUME IpcInv, NEW j \in DOMAIN clist, NEW i, i = clist[j].conn, conn[i].toS # <<>>,
         NEW msg, msg = Head(conn[i].toS), msg.flag = "UNBIND",
         NEW cs, cs = [conn EXCEPT ![i].toS = Tail(@)], ipc_ack_client_unbind(j, msg, cs), UNCHANGED <<up, cli, obs, lim>>
  PROVE  IpcInv'
<1>1. /\ Inv(clist, conn, cli, obs.tags, obs.dead) /\ obs.tags \in Nat
      /\ i \in DOMAIN conn /\ Put(conn, i, cs[i], cs) /\ Same(conn[i], cs[i])
      /\ Reads(conn[i].toS, msg, cs[i].toS)
      /\ IsSeq(cs) /\ DOMAIN cs = DOMAIN conn /\ \A l \in DOMAIN cs : ConnOK(cs[l])
  BY AfterRead
<1>2. clist[j].bind
  <2> DEFINE q == conn[i].toS
             p == cs[i].toS
  <2>1. (~clist[j].bind => BindFirst(q)) /\ q \in Seq(Messages) /\ Reads(q, msg, p)
    BY <1>1, AtEntry DEF ConnOK
  <2> HIDE DEF q, p
  <2>2. ~BindFirst(q)
    BY <2>1, ReadOne
  <2> QED
    BY <2>1, <2>2
<1> DEFINE d == ToClient(cs, i, msg)
           x == [d[i] EXCEPT !.st = "closed"]
<1>3. clist' = RemoveAt(clist, j) /\ conn' = [d EXCEPT ![i].st = "closed"]
  BY <1>2 DEF ipc_ack_client_unbind
<1>4. DOMAIN cs[i] = ConnFields /\ i \in DOMAIN cs /\ Sent(cs, i, msg, d)
  BY <1>1 DEF Same, Sent
<1> HIDE DEF d
<1>5. Put(cs, i, d[i], d) /\ Heard(cs[i], d[i], msg)
  BY <1>1, <1>4, ClientGets
<1>6. Put(d, i, x, conn')
  BY <1>3 DEF Put
<1>7. Put(conn, i, d[i], d)
  BY <1>1, <1>5, PutPut
<1>8. Put(conn, i, x, conn')
  BY <1>1, <1>6, <1>7, PutPut
<1>9. Reads(conn[i].toS, msg, x.toS) /\ Left(conn[i], x)
  <2> DEFINE v == d[i]
             w == cs[i]
  <2>1. /\ DOMAIN v = ConnFields /\ v.cli = w.cli /\ v.open = w.open /\ v.toS = w.toS /\ (~w.open => v.toC = w.toC)
    <3>1. CASE w.open
      BY <1>5, <3>1 DEF Heard, Told
    <3>2. CASE ~w.open
      BY <1>4, <1>5, <3>2 DEF Heard
    <3> QED
      BY <3>1, <3>2
  <2>2. /\ DOMAIN x = ConnFields /\ x.cli = v.cli /\ x.st = "closed" /\ x.open = v.open /\ x.toS = v.toS /\ x.toC = v.toC
    <3> HIDE DEF v
    <3>1. x = [v EXCEPT !.st = "closed"]
      BY DEF v
    <3> QED
      BY <2>1, <3>1 DEF ConnFields
  <2> HIDE DEF x, v
  <2> QED
    BY <1>1, <2>1, <2>2 DEF Same, Left
<1> HIDE DEF x
<1>10. Inv(RemoveAt(clist, j), conn', cli, obs.tags, obs.dead)
  BY <1>1, <1>8, <1>9, Unbinds
<1> QED
  BY <1>3, <1>10 DEF IpcInv

LEMMA CommStep ==
  ASSUME IpcInv, NEW j \in DOMAIN clist, NEW i, i = clist[j].conn, conn[i].toS # <<>>,
         NEW msg, msg = Head(conn[i].toS), Other(msg),
         NEW cs, cs = [conn EXCEPT ![i].toS = Tail(@)], NEW r, clist' = [clist EXCEPT ![j].r = r],
         conn' = cs \/ (clist[j].bind /\ conn' = SendTo(cs, msg.src, Ack(msg))), UNCHANGED <<up, cli, obs, lim>>
  PROVE  IpcInv'
<1>1. /\ Inv(clist, conn, cli, obs.tags, obs.dead) /\ obs.tags \in Nat
      /\ i \in DOMAIN conn /\ Put(conn, i, cs[i], cs) /\ Same(conn[i], cs[i])
      /\ Reads(conn[i].toS, msg, cs[i].toS)
      /\ IsSeq(cs) /\ DOMAIN cs = DOMAIN conn /\ \A l \in DOMAIN cs : ConnOK(cs[l])
  BY AfterRead
<1> DEFINE en == [clist[j] EXCEPT !.r = r]
           m == Ack(msg)
           x == cs[i]
<1>2. EntryOK(clist[j]) /\ IsSeq(clist)
  BY <1>1, AtEntry
<1>3. SameEntry(clist[j], en)
  BY <1>2 DEF SameEntry, EntryOK, EntryFields
<1>4. Put(clist, j, en, clist')
  BY DEF Put
<1> HIDE DEF en, m, x
<1>5. Reads(conn[i].toS, msg, x.toS) /\ Same(conn[i], x) /\ Put(conn, i, x, cs)
  BY <1>1 DEF x
<1>6. Inv(clist', cs, cli, obs.tags, obs.dead)
  BY <1>1, <1>3, <1>4, <1>5, Hands
<1>7. CASE conn' = cs
  BY <1>6, <1>7 DEF IpcInv
<1>8. CASE conn' = SendTo(cs, msg.src, m)
  <2> DEFINE found == {l \in DOMAIN clist : clist[l].cid = msg.src}
             t == CHOOSE l \in found : \A n \in found : l <= n
             i2 == clist[t].conn
             x2 == conn'[i2]
  <2>1. CASE found = {}
    BY <1>6, <1>8, <2>1 DEF IpcInv, SendTo
  <2>2. CASE found # {}
    <3>1. found \subseteq Nat
      BY <1>2, SeqFacts
    <3>2. \E l \in found : \A n \in found : l <= n
      <4> HIDE DEF found
      <4> QED
        BY <2>2, <3>1, Smallest
    <3>3. t \in found /\ \A n \in found : t <= n
      BY <3>2
    <3>4. conn' = ToClient(cs, i2, m)
      BY <1>8, <2>2 DEF SendTo
    <3> HIDE DEF t
    <3>5. FirstWith(clist, msg.src, t)
      BY <3>3 DEF FirstWith
    <3>6. t \in DOMAIN clist
      BY <3>3
    <3> HIDE DEF found
    <3>7. i2 \in DOMAIN conn
      BY <1>1, <3>6, AtEntry
    <3>8. i2 \in DOMAIN cs /\ DOMAIN cs[i2] = ConnFields
      BY <1>1, <3>7 DEF ConnOK
    <3>9. i2 = clist[t].conn
      OBVIOUS
    <3> HIDE DEF i2
    <3>10. Sent(cs, i2, m, conn')
      BY <3>4 DEF Sent
    <3>11. Put(cs, i2, x2, conn') /\ Heard(cs[i2], x2, m)
      BY <1>1, <3>8, <3>10, ClientGets
    <3> HIDE DEF x2
    <3>12. CASE cs[i2].open
      <4>1. Told(cs[i2], x2, m)
        BY <3>11, <3>12 DEF Heard
      <4>2. m = Ack(msg)
        BY DEF m
      <4>3. Inv(clist', conn', cli, obs.tags, obs.dead)
        BY <1>1, <1>3, <1>4, <1>5, <3>5, <3>9, <3>11, <4>1, <4>2, Requests
      <4> QED
        BY <4>3 DEF IpcInv
    <3>13. CASE ~cs[i2].open
      <4>1. conn' = cs
        BY <3>4, <3>13 DEF ToClient
      <4> QED
        BY <1>6, <4>1 DEF IpcInv
    <3> QED
      BY <3>12, <3>13
  <2> QED
    BY <2>1, <2>2
<1> QED
  BY <1>7, <1>8 DEF m

LEMMA ServerRecvStep ==
  ASSUME IpcInv, UNCHANGED lim, NEW j \in DOMAIN clist, server_recv_callback(j)
  PROVE  IpcInv'
<1> DEFINE i == clist[j].conn
           msg == Head(conn[i].toS)
           cs == [conn EXCEPT ![i].toS = Tail(@)]
<1>1. conn[i].toS # <<>> /\ UNCHANGED <<up, cli, obs, lim>>
  BY DEF server_recv_callback
<1>2. CASE msg.flag = "BIND"
  <2>1. ipc_ack_client_bind(j, msg, cs)
    BY <1>2 DEF server_recv_callback
  <2> QED
    BY <1>1, <1>2, <2>1, BindStep
<1>3. CASE msg.flag = "UNBIND"
  <2>1. ipc_ack_client_unbind(j, msg, cs)
    BY <1>3 DEF server_recv_callback
  <2> QED
    BY <1>1, <1>3, <2>1, UnbindStep
<1>4. CASE msg.flag \notin {"BIND", "UNBIND"}
  <2> DEFINE r == IF msg.cmd = "info" \/ ~clist[j].bind THEN msg ELSE NoMsg
  <2>1. clist' = [clist EXCEPT ![j].r = r]
    BY <1>4 DEF server_recv_callback
  <2>2. conn' = cs \/ (clist[j].bind /\ conn' = SendTo(cs, msg.src, Ack(msg)))
    BY <1>4 DEF server_recv_callback
  <2>3. Other(msg)
    BY <1>4 DEF Other
  <2> HIDE DEF r
  <2> QED
    BY <1>1, <2>1, <2>2, <2>3, CommStep
<1> QED
  BY <1>2, <1>3, <1>4
-----------------------------------------------------------------------------
(* The server's own calls: wow_ipc_recv takes a message from an entry.     *)
LEMMA Keeps ==
  ASSUME NEW cl, NEW cs, NEW c, NEW tags, NEW dead, Inv(cl, cs, c, tags, dead),
         NEW j \in DOMAIN cl, NEW en, SameEntry(cl[j], en), NEW l2, Put(cl, j, en, l2)
  PROVE  Inv(l2, cs, c, tags, dead)
<1>1. /\ Shape(cl, cs, c) /\ Listed(cl, cs) /\ Ordered(cl, cs)
      /\ \A i \in DOMAIN cs : LeavesWell(i, cs[i], dead)
      /\ \A k \in Clients : OwnedBy(cs, k, c[k]) /\ BindOf(cl, cs, c[k]) /\ Calls(cs, c[k]) /\ Counted(c[k], tags)
  BY DEF Inv
<1>2. /\ IsSeq(l2) /\ Len(l2) = Len(cl) /\ DOMAIN l2 = DOMAIN cl
      /\ \A l \in DOMAIN cl : /\ EntryOK(l2[l]) /\ l2[l].conn = cl[l].conn /\ l2[l].cid = cl[l].cid
                              /\ l2[l].bind <=> cl[l].bind
  <2>1. IsSeq(cl) /\ \A l \in DOMAIN cl : EntryOK(cl[l])
    BY <1>1 DEF Shape
  <2>2. /\ IsSeq(l2) /\ Len(l2) = Len(cl) /\ DOMAIN l2 = DOMAIN cl /\ l2[j] = en
        /\ \A l \in DOMAIN cl : l # j => l2[l] = cl[l]
    BY <2>1, SeqSet DEF Put
  <2> QED
    BY <2>1, <2>2 DEF SameEntry
<1>3. Shape(l2, cs, c)
  BY <1>1, <1>2 DEF Shape
<1>4. Listed(l2, cs)
  BY <1>1, <1>2 DEF Listed
<1>5. Ordered(l2, cs)
  BY <1>1, <1>2 DEF Ordered
<1>6. \A i : Unbound(l2, cs, i) <=> Unbound(cl, cs, i)
  BY <1>2 DEF Unbound
<1>7. ASSUME NEW k \in Clients
      PROVE  BindOf(l2, cs, c[k])
  BY <1>1, <1>6 DEF BindOf
<1> QED
  BY <1>1, <1>3, <1>4, <1>5, <1>7 DEF Inv

LEMMA ServerPollStep ==
  ASSUME IpcInv, UNCHANGED lim, NEW j \in DOMAIN clist, ServerPoll(j)
  PROVE  IpcInv'
<1> DEFINE en == [clist[j] EXCEPT !.r = NoMsg]
<1>1. Inv(clist, conn, cli, obs.tags, obs.dead) /\ EntryOK(clist[j])
  BY DEF IpcInv, Inv, Shape
<1>2. SameEntry(clist[j], en)
  BY <1>1 DEF SameEntry, EntryOK, EntryFields
<1>3. Put(clist, j, en, clist')
  BY DEF Put, ServerPoll
<1> HIDE DEF en
<1>4. Inv(clist', conn, cli, obs.tags, obs.dead)
  BY <1>1, <1>2, <1>3, Keeps
<1> QED
  BY <1>4 DEF IpcInv, ServerPoll

(* wow_ipc_broadcast sends a message to every client that is bound.        *)
LEMMA BroadcastStep ==
  ASSUME IpcInv, UNCHANGED lim, NEW cmd \in {"push", "get", "put"}, ipc_skt_broadcast(cmd)
  PROVE  IpcInv'
<1>1. /\ Inv(clist, conn, cli, obs.tags, obs.dead) /\ obs.tags \in Nat /\ obs.tags + 1 \in Nat
      /\ obs.tags <= obs.tags + 1 /\ obs.tags + 1 \in 0 .. lim.tags /\ IsSeq(conn)
      /\ \A j \in DOMAIN clist : EntryOK(clist[j])
  BY IpcBounds DEF IpcInv, Inv, Shape, ipc_skt_broadcast
<1>2. IsSeq(conn') /\ DOMAIN conn' = DOMAIN conn
  <2>1. DOMAIN conn' = DOMAIN conn /\ conn' = [i \in DOMAIN conn |-> conn'[i]]
    BY DEF ipc_skt_broadcast
  <2> QED
    BY <1>1, <2>1, SeqFacts, ASequence
<1>3. ASSUME NEW i \in DOMAIN conn
      PROVE  \/ conn'[i] = conn[i]
             \/ \E m \in Messages : /\ m.flag = "PUSH"
                                    /\ conn'[i] = [conn[i] EXCEPT !.toC = Append(@, m)]
  <2> DEFINE t == CHOOSE j \in Bound(i) : TRUE
             m == Msg("PUSH", clist[t].cid, ServerId, cmd, obs.tags + 1)
  <2>1. CASE conn[i].open /\ Bound(i) # {}
    <3>1. t \in Bound(i)
      BY <2>1
    <3>2. t \in DOMAIN clist
      BY <3>1 DEF Bound
    <3>3. conn'[i] = [conn[i] EXCEPT !.toC = Append(@, m)]
      BY <2>1 DEF ipc_skt_broadcast
    <3> HIDE DEF t
    <3>4. clist[t].cid \in Clients \cup {0}
      BY <1>1, <3>2 DEF EntryOK
    <3>5. m \in Messages /\ m.flag = "PUSH"
      BY <1>1, <3>4 DEF Msg, Messages, ServerId
    <3> QED
      BY <3>3, <3>5
  <2>2. CASE ~(conn[i].open /\ Bound(i) # {})
    BY <2>2 DEF ipc_skt_broadcast
  <2> QED
    BY <2>1, <2>2
<1>4. Inv(clist, conn', cli, obs.tags + 1, obs.dead)
  BY <1>1, <1>2, <1>3, Pushed, ZenonT(40)
<1>5. /\ obs'.tags = obs.tags + 1 /\ obs'.dead = obs.dead /\ DOMAIN obs' = {"tags", "dead"}
      /\ up' = up /\ clist' = clist /\ cli' = cli
  BY DEF IpcInv, ipc_skt_broadcast
<1> QED
  BY <1>1, <1>4, <1>5 DEF IpcInv

(* wow_ipc_destroy of the server closes every connection.                  *)
LEMMA ServerDestroyStep ==
  ASSUME IpcInv, UNCHANGED lim, ServerDestroy
  PROVE  IpcInv'
<1>1. Inv(clist, conn, cli, obs.tags, obs.dead) /\ obs.tags \in Nat /\ IsSeq(conn)
  BY DEF IpcInv, Inv, Shape
<1>2. PICK e : e = <<>>
  OBVIOUS
<1>3. e \in Seq(Messages) /\ IsSeq(e) /\ DOMAIN e = {} /\ Len(e) = 0
  BY <1>2, EmptyQueue
<1>4. conn' = [i \in DOMAIN conn |-> [conn[i] EXCEPT !.st = "closed", !.toS = e]]
  BY <1>2 DEF ServerDestroy
<1>5. clist' = e /\ up' = FALSE /\ cli' = cli /\ obs' = obs
  BY <1>2 DEF ServerDestroy
<1>6. /\ DOMAIN conn' = DOMAIN conn /\ conn' = [i \in DOMAIN conn |-> conn'[i]]
      /\ \A i \in DOMAIN conn : conn'[i] = [conn[i] EXCEPT !.st = "closed", !.toS = e]
  BY <1>4
<1>7. IsSeq(conn')
  BY <1>1, <1>6, SeqFacts, ASequence
<1>8. Inv(e, conn', cli, obs.tags, obs.dead)
  BY <1>1, <1>3, <1>6, <1>7, Destroyed, ZenonT(40)
<1> QED
  BY <1>5, <1>8 DEF IpcInv
-----------------------------------------------------------------------------
(* Every step of every actor.                                              *)
LEMMA IpcNext ==
  ASSUME IpcInv, [Next]_ipcVars
  PROVE  IpcInv'
<1>1. CASE UNCHANGED ipcVars
  BY <1>1 DEF ipcVars, IpcInv
<1>2. CASE Next
  <2> UNCHANGED lim
    BY <1>2 DEF Next
  <2>1. ASSUME NEW k \in Clients, BindTimeout(k) \/ wow_ipc_destroy(k)
        PROVE  IpcInv'
    <3>1. /\ UNCHANGED <<lim, up, clist, obs>> /\ cli[k].pc # "off"
          /\ cli' = [cli EXCEPT ![k] = Off] /\ conn' = ipc_skt_exit(k)
      BY <2>1 DEF BindTimeout, wow_ipc_destroy
    <3> QED
      BY <3>1, ExitSteps
  <2>2. ASSUME NEW k \in Clients,
               \/ Create(k) \/ BindDone(k) \/ Ready(k) \/ Crash(k)
               \/ wow_ipc_send(k) \/ (\E cmd \in {"get", "put"} : wow_ipc_send_wait(k, cmd))
               \/ Answered(k) \/ WaitTimeout(k) \/ pop_sync_cmd(k) \/ client_recv_callback(k) \/ ClientPoll(k)
        PROVE  IpcInv'
    <3>1. CASE Create(k)
      BY <3>1, CreateStep
    <3>2. CASE BindDone(k)
      BY <3>2, BindDoneStep
    <3>3. CASE Ready(k)
      BY <3>3, ReadyStep
    <3>4. CASE Crash(k)
      BY <3>4, CrashStep
    <3>5. CASE wow_ipc_send(k)
      BY <3>5, SendStep
    <3>6. CASE \E cmd \in {"get", "put"} : wow_ipc_send_wait(k, cmd)
      BY <3>6, SendWaitStep DEF Cmds
    <3>7. CASE Answered(k)
      BY <3>7, AnsweredStep
    <3>8. CASE WaitTimeout(k)
      BY <3>8, WaitTimeoutStep
    <3>9. CASE pop_sync_cmd(k)
      BY <3>9, PopSyncCmdStep
    <3>10. CASE client_recv_callback(k)
      BY <3>10, ClientRecvStep
    <3>11. CASE ClientPoll(k)
      BY <3>11, ClientPollStep
    <3> QED
      BY <2>2, <3>1, <3>2, <3>3, <3>4, <3>5, <3>6, <3>7, <3>8, <3>9, <3>10, <3>11
  <2>3. ASSUME NEW i \in DOMAIN conn, Accept(i)
        PROVE  IpcInv'
    BY <2>3, AcceptStep
  <2>4. ASSUME NEW j \in DOMAIN clist, server_recv_callback(j)
        PROVE  IpcInv'
    BY <2>4, ServerRecvStep
  <2>5. ASSUME NEW j \in DOMAIN clist, ServerPoll(j)
        PROVE  IpcInv'
    BY <2>5, ServerPollStep
  <2>6. CASE \E cmd \in {"push", "get", "put"} : ipc_skt_broadcast(cmd)
    BY <2>6, BroadcastStep
  <2>7. CASE ServerDestroy
    BY <2>7, ServerDestroyStep
  <2> QED
    BY <1>2, <2>1, <2>2, <2>3, <2>4, <2>5, <2>6, <2>7 DEF Next
<1> QED
  BY <1>1, <1>2

(* A client process that does not run has nothing.                         *)
Nothing == \A k \in Clients : cli[k].pc = "off" => cli[k] = Off
LEMMA NothingStep ==
  ASSUME IpcInv, Nothing, [Next]_ipcVars
  PROVE  Nothing'
<1>1. cli = [k \in Clients |-> cli[k]] /\ \A k \in Clients : ClientOK(cli[k])
  BY DEF IpcInv, Inv, Shape
<1>2. ASSUME NEW k \in Clients, NEW y, cli' = [cli EXCEPT ![k] = y], y = Off \/ y.pc # "off"
      PROVE  Nothing'
  BY <1>1, <1>2 DEF Nothing
<1>3. CASE UNCHANGED cli
  BY <1>3 DEF Nothing
<1>4. CASE \E k \in Clients : BindTimeout(k) \/ wow_ipc_destroy(k) \/ Crash(k)
  BY <1>2, <1>4 DEF BindTimeout, wow_ipc_destroy, Crash
<1>5. ASSUME NEW k \in Clients,
             Create(k) \/ BindDone(k) \/ Ready(k) \/ Answered(k) \/ WaitTimeout(k) \/ pop_sync_cmd(k)
      PROVE  Nothing'
  <2>1. CASE Create(k)
    <3> DEFINE y == [Off EXCEPT !.pc = "binding", !.conn = Len(conn) + 1]
    <3>1. cli' = [cli EXCEPT ![k] = y]
      BY <1>1, <2>1 DEF Create
    <3>2. y.pc # "off"
      BY <1>1 DEF ClientOK, ClientFields, Off
    <3> HIDE DEF y
    <3> QED
      BY <1>2, <3>1, <3>2
  <2>2. CASE BindDone(k)
    <3> DEFINE y == [cli[k] EXCEPT !.pc = "bound", !.bsem = cli[k].bsem - 1]
    <3>1. cli' = [cli EXCEPT ![k] = y]
      BY <1>1, <2>2 DEF BindDone
    <3>2. y.pc # "off"
      BY <1>1 DEF ClientOK, ClientFields, Off
    <3> HIDE DEF y
    <3> QED
      BY <1>2, <3>1, <3>2
  <2>3. CASE Ready(k)
    <3> DEFINE y == [cli[k] EXCEPT !.pc = "up", !.cb = TRUE]
    <3>1. cli' = [cli EXCEPT ![k] = y]
      BY <1>1, <2>3 DEF Ready
    <3>2. y.pc # "off"
      BY <1>1 DEF ClientOK, ClientFields, Off
    <3> HIDE DEF y
    <3> QED
      BY <1>2, <3>1, <3>2
  <2>4. CASE Answered(k)
    <3> DEFINE y == [cli[k] EXCEPT !.pc = "up", !.sem = cli[k].sem - 1, !.ret = "ok"]
    <3>1. cli' = [cli EXCEPT ![k] = y]
      BY <1>1, <2>4 DEF Answered
    <3>2. y.pc # "off"
      BY <1>1 DEF ClientOK, ClientFields, Off
    <3> HIDE DEF y
    <3> QED
      BY <1>2, <3>1, <3>2
  <2>5. CASE WaitTimeout(k)
    <3> DEFINE y == [cli[k] EXCEPT !.pc = "timedout", !.late = TRUE]
    <3>1. cli' = [cli EXCEPT ![k] = y]
      BY <1>1, <2>5 DEF WaitTimeout
    <3>2. y.pc # "off"
      BY <1>1 DEF ClientOK, ClientFields, Off
    <3> HIDE DEF y
    <3> QED
      BY <1>2, <3>1, <3>2
  <2>6. CASE pop_sync_cmd(k)
    <3> DEFINE y == [cli[k] EXCEPT !.pc = "up", !.sync = cli[k].sync \ {cli[k].wait}, !.ret = "failed"]
    <3>1. cli' = [cli EXCEPT ![k] = y]
      BY <1>1, <2>6 DEF pop_sync_cmd
    <3>2. y.pc # "off"
      BY <1>1 DEF ClientOK, ClientFields, Off
    <3> HIDE DEF y
    <3> QED
      BY <1>2, <3>1, <3>2
  <2> QED
    BY <1>5, <2>1, <2>2, <2>3, <2>4, <2>5, <2>6
<1>6. ASSUME NEW k \in Clients,
             \/ \E cmd \in {"get", "put"} : wow_ipc_send_wait(k, cmd)
             \/ client_recv_callback(k) \/ ClientPoll(k)
      PROVE  Nothing'
  <2>1. ClientOK(cli[k])
    BY <1>1
  <2>2. CASE \E cmd \in {"get", "put"} : wow_ipc_send_wait(k, cmd)
    <3>1. PICK cmd \in {"get", "put"} : wow_ipc_send_wait(k, cmd)
      BY <2>2
    <3> DEFINE y == [cli[k] EXCEPT !.pc = "waiting", !.sync = cli[k].sync \cup {cmd}, !.wait = cmd,
                                   !.req = obs.tags + 1, !.ret = "none"]
    <3>2. cli' = [cli EXCEPT ![k] = y]
      BY <1>1, <3>1 DEF wow_ipc_send_wait
    <3>3. y.pc # "off"
      BY <2>1 DEF ClientOK, ClientFields
    <3> HIDE DEF y
    <3> QED
      BY <1>2, <3>2, <3>3
  <2>3. CASE client_recv_callback(k)
    <3> DEFINE msg == Head(conn[cli[k].conn].toC)
               y == ClientTakes(cli[k], msg)
    <3>1. cli' = [cli EXCEPT ![k] = y] /\ cli[k].pc # "off"
      BY <2>3 DEF client_recv_callback
    <3>2. y.pc = cli[k].pc
      <4> HIDE DEF msg
      <4> QED
        BY <2>1 DEF ClientOK, ClientFields, ClientTakes, ipc_process_msg, ToWaiter
    <3> QED
      BY <1>2, <3>1, <3>2
  <2>4. CASE ClientPoll(k)
    <3>1. cli' = [cli EXCEPT ![k] = cli'[k]] /\ cli'[k].pc # "off"
      BY <1>1, <2>1, <2>4 DEF ClientOK, ClientFields, ClientPoll
    <3> QED
      BY <1>2, <3>1
  <2> QED
    BY <1>6, <2>2, <2>3, <2>4
<1> QED
  BY <1>3, <1>4, <1>5, <1>6
     DEF Next, ipcVars, wow_ipc_send, Accept, server_recv_callback, ServerPoll, ipc_skt_broadcast, ServerDestroy

(* What the invariant says of the properties.                              *)
LEMMA Typed ==
  ASSUME IpcInv, Nothing
  PROVE  TypeOK
<1>1. Inv(clist, conn, cli, obs.tags, obs.dead) /\ up \in BOOLEAN /\ obs.tags \in 0 .. lim.tags /\ lim.tags \in Nat
  BY IpcBounds DEF IpcInv
<1>2. /\ Len(clist) <= MAX_IPC_NUMNER
      /\ \A j \in DOMAIN clist : EntryOK(clist[j]) /\ clist[j].conn \in DOMAIN conn
      /\ \A k \in Clients : ClientOK(cli[k]) /\ OwnedBy(conn, k, cli[k]) /\ BindOf(clist, conn, cli[k]) /\ Counted(cli[k], obs.tags)
  BY <1>1 DEF Inv, Shape
<1>3. ASSUME NEW k \in Clients
      PROVE  /\ cli[k].pc \in {"off", "binding", "bound", "up", "waiting", "timedout"}
             /\ cli[k].sem \in 0 .. lim.tags /\ cli[k].bsem \in 0 .. 2
             /\ cli[k].sync \subseteq {"get", "put"}
             /\ cli[k].pc # "off" => cli[k].conn \in DOMAIN conn
  <2> DEFINE x == cli[k]
  <2>1. ClientOK(x) /\ OwnedBy(conn, k, x) /\ BindOf(clist, conn, x) /\ Counted(x, obs.tags)
    BY <1>2
  <2>2. x.pc = "off" => x.bsem = 0
    BY DEF Nothing, Off
  <2> HIDE DEF x
  <2>3. Waits(x) \in 0 .. 2
    BY DEF Waits
  <2>4. x.sem \in 0 .. lim.tags
    BY <1>1, <2>1, <2>3 DEF Counted, ClientOK
  <2>5. x.bsem \in 0 .. 2
    BY <2>1, <2>2 DEF BindOf, ClientOK
  <2> QED
    BY <2>1, <2>4, <2>5 DEF ClientOK, OwnedBy, Cmds, x
<1> QED
  BY <1>1, <1>2, <1>3 DEF TypeOK, EntryOK

LEMMA Live ==
  ASSUME IpcInv, Nothing
  PROVE  EntriesLive
<1>1. /\ Listed(clist, conn) /\ \A j \in DOMAIN clist : clist[j].conn \in DOMAIN conn
      /\ \A i \in DOMAIN conn : LeavesWell(i, conn[i], obs.dead)
  BY DEF IpcInv, Inv, Shape
<1>2. ASSUME NEW j \in DOMAIN clist, ~conn[clist[j].conn].open, clist[j].conn \notin obs.dead
      PROVE  \E n \in DOMAIN conn[clist[j].conn].toS : conn[clist[j].conn].toS[n].flag = "UNBIND"
  <2> DEFINE i == clist[j].conn
  <2>1. conn[i].st = "accepted" /\ LeavesWell(i, conn[i], obs.dead)
    BY <1>1 DEF Listed
  <2>2. ~No(conn[i].toS, "UNBIND")
    BY <1>2, <2>1 DEF LeavesWell
  <2> QED
    BY <2>2 DEF No
<1>3. \A j, l \in DOMAIN clist : clist[j].conn = clist[l].conn => j = l
  BY <1>1 DEF Listed
<1> QED
  BY <1>2, <1>3, Typed DEF EntriesLive

LEMMA Mine ==
  ASSUME IpcInv
  PROVE  AnswerIsMine
<1> SUFFICES ASSUME NEW k \in Clients, cli[k].ret = "ok", ~cli[k].late
             PROVE  cli[k].resp = cli[k].req
  BY DEF AnswerIsMine
<1>1. ClientOK(cli[k]) /\ CallOf(cli[k], conn[cli[k].conn].toS, conn[cli[k].conn].toC)
  BY DEF IpcInv, Inv, Shape, Calls
<1> QED
  BY <1>1 DEF CallOf, ClientOK

(* The invariants hold.                                                    *)
LEMMA IpcSound == Spec => [](IpcInv /\ Nothing)
<1>1. Init => IpcInv /\ Nothing
  BY IpcStart DEF Init, Nothing
<1>2. IpcInv /\ Nothing /\ [Next]_ipcVars => (IpcInv /\ Nothing)'
  BY IpcNext, NothingStep
<1> QED
  BY <1>1, <1>2, PTL DEF Spec

-----------------------------------------------------------------------------
(* For any clients, list size and bounds: the server lists no client that  *)
(* left with UNBIND, once it has read that, and no connection twice        *)
(* (ipc_skt_server.c's accept, bind and unbind of whatever order clients   *)
(* connect, leave, die and come back in); a semaphore counts no more than  *)
(* the calls that were made.                                               *)
THEOREM EntriesStayLive == Spec => []EntriesLive
<1>1. IpcInv /\ Nothing => EntriesLive
  BY Live
<1> QED
  BY <1>1, IpcSound, PTL

(* For any clients, list size and bounds: a call of wow_ipc_send_wait that *)
(* succeeds returns the answer to its own request, until the first time a  *)
(* call of that client timed out (wow_ipc.c's semaphore and list of        *)
(* awaited identifiers are shared by all calls) or ipc_process_msg took a  *)
(* broadcast for an answer, whatever connections the client had before,    *)
(* what they left behind in the server and whatever else is broadcast.     *)
THEOREM AnswersMatch == Spec => []AnswerIsMine
<1>1. IpcInv => AnswerIsMine
  BY Mine
<1> QED
  BY <1>1, IpcSound, PTL
=============================================================================
