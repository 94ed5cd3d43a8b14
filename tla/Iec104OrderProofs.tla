------------------------- MODULE Iec104OrderProofs -------------------------
(***************************************************************************)
(* The sequence numbers of the IEC 104 master and slave on one link.  The  *)
(* two stations number and acknowledge frames in fields that nothing       *)
(* locks, over connections that come and go.  What is proved here, for any *)
(* number of calls, connections and reports: as long as no application     *)
(* thread is overtaken while it numbers a frame and no number wraps, the   *)
(* master turns no frame of its slave down, and nobody acknowledges what   *)
(* was not sent.                                                           *)
(***************************************************************************)
EXTENDS Iec104Proofs

-----------------------------------------------------------------------------
(* The invariant.                                                          *)

(* The numbers k ("ss" or "rs") of the I frames of q lie between lo and hi *)
(* and never fall.                                                         *)
Rising(q, k, lo, hi) ==
  /\ \A i \in 1 .. Len(q) : q[i].f = "I" => lo <= q[i][k] /\ q[i][k] <= hi
  /\ \A i, j \in 1 .. Len(q) :
       i < j /\ q[i].f = "I" /\ q[j].f = "I" => q[i][k] <= q[j][k]

(* No frame of q acknowledges more than hi.                                *)
Acked(q, hi) == \A i \in 1 .. Len(q) : q[i].f # "U" => q[i].rs <= hi

(* The number of the next I frame either station writes, and what that of  *)
(* the slave acknowledges: an application thread may hold an older one.    *)
NextM == IF m_app.pc = "send" THEN m_app.sn ELSE m.build_send
NextS == IF s_app.pc = "send" THEN s_app.fr.ss ELSE s.build_send
RecvS == IF s_app.pc = "send" THEN s_app.fr.rs ELSE s.build_recv

(* What is on its way to either station.                                   *)
ToMaster == m_rbuf \o net[m_client].down
ToSlave == (IF Served THEN s_rbuf ELSE <<>>) \o net[m_client].up

(* What the application threads have in hand fits the stations' counters.  *)
MasterHand ==
  /\ m_app.pc = "put" => m_app.sn = m.build_send
  /\ m_app.pc = "send" => m.build_send = m_app.sn + 1 /\ m_app.rs <= m.build_recv
SlaveHand ==
  /\ s_app.pc = "put" => s_app.sn = s.build_send
  /\ s_app.pc = "send" => s_app.fr.f = "I" /\ s.build_send = s_app.fr.ss + 1

(* Between two connections the master has forgotten the numbers it dealt   *)
(* with, and nothing is left in a buffer outside of its loop.              *)
Clean == m.deal_send = -1 /\ m.deal_recv = 0
MasterOpens ==
  /\ m.build_recv = m.deal_send + 1
  /\ m.init = "OPEN" => Clean
  /\ m_client # NoConn /\ Pending(m_client) => Clean
  /\ m_client = NoConn <=> m.init \in {"INIT", "OPEN"}
  /\ m_pc = "parse" => m_client # NoConn
  /\ m_pc # "parse" => m_rbuf = <<>>
  /\ s_pc # "parse" => s_rbuf = <<>>

(* The slave starts every connection with its numbers at zero.             *)
SlaveOpens ==
  /\ acc.pc = "install" => s.init \in {"INIT", "OPEN"}
  /\ acc.pc = "install" \/ (s_client # NoConn /\ s.init = "INIT") =>
       s.build_send = 0 /\ s.build_recv = 0 /\ s_app.pc = "idle"

(* What the slave may read acknowledges only what it sent.                 *)
Acknowledged ==
  /\ \A c \in Conns : Pending(c) => Acked(net[c].up, 0)
  /\ s_client # NoConn => Acked(net[s_client].up, s.build_send)

(* What the two may read, while the master's connection is served or not.  *)
DownSs == IF Served THEN NextS - 1 ELSE SnMod
DownRs == IF Served THEN RecvS ELSE m.build_send
DownAck == IF Served THEN s.build_recv ELSE m.build_send
UpSs == IF Served THEN s.build_recv - 1 ELSE 0
DownLane ==
  m_client # NoConn => /\ Rising(ToMaster, "ss", m.deal_send, DownSs)
                       /\ Rising(ToMaster, "rs", m.deal_recv, DownRs)
                       /\ Acked(ToMaster, DownAck)
UpLane == m_client # NoConn => Rising(ToSlave, "ss", UpSs, NextM - 1)

(* The counters of two stations that talk to each other.                   *)
Counters ==
  Served => /\ m.build_recv <= NextS
            /\ m.deal_recv <= RecvS /\ RecvS <= s.build_recv /\ s.build_recv <= NextM

Ordered ==
  /\ MasterHand /\ SlaveHand /\ MasterOpens /\ SlaveOpens
  /\ Acknowledged /\ DownLane /\ UpLane /\ Counters

OrderInv == ~race /\ ~wrapped => Ordered

-----------------------------------------------------------------------------
(* Queues of frames.                                                       *)
Kinds == {"ss", "rs"}

LEMMA FrameNumbers ==
  /\ \A fr \in Frames : fr.f = "I" => fr.ss \in Sn /\ fr.rs \in Sn
  /\ \A fr \in Frames, k \in Kinds : fr.f = "I" => fr[k] \in Int
  /\ \A fr \in Frames : fr.f # "U" => fr.rs \in Sn
<1>1. \A fr \in Frames : fr.f = "I" => fr \in IFrames
  BY DEF Frames, UFrames, SFrames
<1>2. \A fr \in Frames : fr.f # "U" /\ fr.f # "I" => fr \in SFrames
  BY DEF Frames, UFrames, IFrames
<1>3. /\ \A fr \in IFrames : fr.ss \in Sn /\ fr.rs \in Sn
      /\ \A fr \in SFrames : fr.rs \in Sn
  BY DEF IFrames, SFrames
<1>4. \A x \in Sn : x \in Int
  BY SnRange
<1>5. ASSUME NEW fr \in Frames, NEW k \in Kinds, fr.f = "I" PROVE fr[k] \in Int
  <2>1. fr.ss \in Int /\ fr.rs \in Int
    BY <1>1, <1>3, <1>4, <1>5
  <2>2. k = "ss" \/ k = "rs"
    BY DEF Kinds
  <2>3. QED
    BY <2>1, <2>2
<1>6. QED
  BY <1>1, <1>2, <1>3, <1>5

(* A part of a queue rises as the queue does.                              *)
LEMMA RisingPart ==
  ASSUME NEW q \in Seq(Frames), NEW r \in Seq(Frames), NEW n \in Nat,
         \A i \in 1 .. Len(r) : i + n \in 1 .. Len(q) /\ r[i] = q[i + n]
  PROVE  /\ \A k, lo, hi : Rising(q, k, lo, hi) => Rising(r, k, lo, hi)
         /\ \A hi : Acked(q, hi) => Acked(r, hi)
<1>1. \A i, j \in 1 .. Len(r) : i < j => i + n < j + n
  BY LenProperties
<1>2. ASSUME NEW k, NEW lo, NEW hi, Rising(q, k, lo, hi) PROVE Rising(r, k, lo, hi)
  <2>1. \A i \in 1 .. Len(r) : r[i].f = "I" => lo <= r[i][k] /\ r[i][k] <= hi
    BY <1>2 DEF Rising
  <2>2. ASSUME NEW i \in 1 .. Len(r), NEW j \in 1 .. Len(r), i < j, r[i].f = "I", r[j].f = "I"
        PROVE  r[i][k] <= r[j][k]
    <3>1. /\ i + n \in 1 .. Len(q) /\ j + n \in 1 .. Len(q) /\ i + n < j + n
          /\ r[i] = q[i + n] /\ r[j] = q[j + n]
      BY <1>1, <2>2
    <3>2. QED
      BY <1>2, <2>2, <3>1 DEF Rising
  <2>3. QED
    BY <2>1, <2>2 DEF Rising
<1>3. ASSUME NEW hi, Acked(q, hi) PROVE Acked(r, hi)
  BY <1>3 DEF Acked
<1>4. QED
  BY <1>2, <1>3

LEMMA RisingTail ==
  ASSUME NEW q \in Seq(Frames), q # <<>>
  PROVE  /\ \A k, lo, hi : Rising(q, k, lo, hi) => Rising(Tail(q), k, lo, hi)
         /\ \A hi : Acked(q, hi) => Acked(Tail(q), hi)
<1>1. Tail(q) \in Seq(Frames) /\ \A i \in 1 .. Len(Tail(q)) : i + 1 \in 1 .. Len(q) /\ Tail(q)[i] = q[i + 1]
  BY HeadTailProperties, LenProperties
<1>2. QED
  BY <1>1, RisingPart

(* Once the first frame has been dealt with its numbers bound the others.  *)
LEMMA RisingHead ==
  ASSUME NEW q \in Seq(Frames), q # <<>>, Head(q).f = "I", NEW k, NEW lo, NEW hi, Rising(q, k, lo, hi)
  PROVE  /\ lo <= Head(q)[k] /\ Head(q)[k] <= hi
         /\ Rising(Tail(q), k, Head(q)[k], hi)
<1>1. /\ Len(q) \in Nat /\ 1 \in 1 .. Len(q) /\ Head(q) = q[1] /\ Tail(q) \in Seq(Frames)
      /\ \A i \in 1 .. Len(Tail(q)) : i + 1 \in 1 .. Len(q) /\ 1 < i + 1 /\ Tail(q)[i] = q[i + 1]
  BY HeadTailProperties, LenProperties
<1>2. Rising(Tail(q), k, lo, hi)
  BY RisingTail
<1>3. \A i \in 1 .. Len(Tail(q)) : Tail(q)[i].f = "I" => Head(q)[k] <= Tail(q)[i][k]
  BY <1>1 DEF Rising
<1>4. QED
  BY <1>1, <1>2, <1>3 DEF Rising

LEMMA RisingWider ==
  ASSUME NEW q \in Seq(Frames), NEW k \in Kinds, NEW lo \in Int, NEW hi \in Int,
         NEW l \in Int, NEW h \in Int, Rising(q, k, lo, hi), l <= lo, hi <= h
  PROVE  Rising(q, k, l, h)
<1>1. \A i \in 1 .. Len(q) : q[i].f = "I" => q[i][k] \in Int
  BY FrameNumbers
<1>2. QED
  BY <1>1 DEF Rising

LEMMA AckedWider ==
  ASSUME NEW q \in Seq(Frames), NEW hi \in Int, NEW h \in Int, Acked(q, hi), hi <= h
  PROVE  Acked(q, h)
<1>1. \A i \in 1 .. Len(q) : q[i].f # "U" => q[i].rs \in Int
  BY FrameNumbers, SnRange
<1>2. QED
  BY <1>1 DEF Acked

LEMMA LastTaken ==
  ASSUME NEW q \in Seq(Frames), q # <<>>, Len(q) = 1
  PROVE  Tail(q) = <<>>
<1> DEFINE u == Tail(q)
<1>1. u \in Seq(Frames) /\ Len(u) = 0
  BY HeadTailProperties
<1> HIDE DEF u
<1>2. u # <<>> => Len(u) \in Nat \ {0}
  BY <1>1, EmptySeq
<1>3. u = <<>>
  BY <1>1, <1>2
<1>4. QED
  BY <1>3 DEF u

(* What is written behind a queue carries on where the queue ends.         *)
LEMMA RisingJoin ==
  ASSUME NEW q \in Seq(Frames), NEW r \in Seq(Frames), NEW k \in Kinds,
         NEW lo \in Int, NEW h \in Int, NEW l \in Int, NEW hi \in Int,
         Rising(q, k, lo, h), Rising(r, k, l, hi), h <= l, lo <= l, h <= hi
  PROVE  Rising(q \o r, k, lo, hi)
<1> DEFINE t == q \o r
           n == Len(q)
<1>1. /\ n \in Nat /\ Len(r) \in Nat /\ Len(t) = n + Len(r)
      /\ \A i \in 1 .. Len(t) : IF i <= n THEN i \in 1 .. n /\ t[i] = q[i]
                                ELSE i - n \in 1 .. Len(r) /\ t[i] = r[i - n]
  BY ConcatProperties, LenProperties
<1>2. /\ \A i \in 1 .. n : q[i].f = "I" => q[i][k] \in Int /\ lo <= q[i][k] /\ q[i][k] <= h
      /\ \A i \in 1 .. Len(r) : r[i].f = "I" => r[i][k] \in Int /\ l <= r[i][k] /\ r[i][k] <= hi
  BY FrameNumbers DEF Rising
<1> HIDE DEF t, n
<1>3. ASSUME NEW i \in 1 .. Len(t), t[i].f = "I" PROVE lo <= t[i][k] /\ t[i][k] <= hi
  <2>1. CASE i <= n
    <3>1. t[i][k] \in Int /\ lo <= t[i][k] /\ t[i][k] <= h
      BY <1>1, <1>2, <1>3, <2>1
    <3>2. QED
      BY <3>1
  <2>2. CASE ~(i <= n)
    <3>1. t[i][k] \in Int /\ l <= t[i][k] /\ t[i][k] <= hi
      BY <1>1, <1>2, <1>3, <2>2
    <3>2. QED
      BY <3>1
  <2>3. QED
    BY <2>1, <2>2
<1>4. ASSUME NEW i \in 1 .. Len(t), NEW j \in 1 .. Len(t), i < j, t[i].f = "I", t[j].f = "I"
      PROVE  t[i][k] <= t[j][k]
  <2>1. CASE j <= n
    <3>1. i \in 1 .. n /\ j \in 1 .. n /\ t[i] = q[i] /\ t[j] = q[j]
      BY <1>1, <1>4, <2>1
    <3>2. QED
      BY <1>4, <3>1 DEF Rising, n
  <2>2. CASE i > n
    <3>1. i - n \in 1 .. Len(r) /\ j - n \in 1 .. Len(r) /\ i - n < j - n /\ t[i] = r[i - n] /\ t[j] = r[j - n]
      BY <1>1, <1>4, <2>2
    <3>2. QED
      BY <1>4, <3>1 DEF Rising
  <2>3. CASE i <= n /\ j > n
    <3>1. i \in 1 .. n /\ t[i] = q[i]
      BY <1>1, <2>3
    <3>2. j - n \in 1 .. Len(r) /\ t[j] = r[j - n]
      BY <1>1, <2>3
    <3>3. t[i][k] \in Int /\ t[i][k] <= h
      BY <1>2, <1>4, <3>1
    <3>4. t[j][k] \in Int /\ l <= t[j][k]
      BY <1>2, <1>4, <3>2
    <3>5. QED
      BY <3>3, <3>4
  <2>4. QED
    BY <1>1, <2>1, <2>2, <2>3
<1>5. QED
  BY <1>3, <1>4 DEF Rising, t

LEMMA AckedJoin ==
  ASSUME NEW q \in Seq(Frames), NEW r \in Seq(Frames), NEW hi, Acked(q, hi), Acked(r, hi)
  PROVE  Acked(q \o r, hi)
<1>1. /\ Len(q) \in Nat /\ Len(r) \in Nat
      /\ \A i \in 1 .. Len(q \o r) : IF i <= Len(q) THEN i \in 1 .. Len(q) /\ (q \o r)[i] = q[i]
                                   ELSE i - Len(q) \in 1 .. Len(r) /\ (q \o r)[i] = r[i - Len(q)]
  BY ConcatProperties, LenProperties
<1>2. QED
  BY <1>1 DEF Acked

LEMMA Rejoined ==
  \A q, r, t \in Seq(Frames) : q \o (r \o t) = (q \o r) \o t
BY ConcatAssociative

(* A queue without frames of a kind says nothing of their numbers.         *)
LEMMA RisingNone ==
  ASSUME NEW q, \A i \in 1 .. Len(q) : q[i].f # "I"
  PROVE  \A k, lo, hi : Rising(q, k, lo, hi)
BY DEF Rising

LEMMA EmptyRises ==
  /\ \A k, lo, hi : Rising(<<>>, k, lo, hi)
  /\ \A hi : Acked(<<>>, hi)
BY DEF Rising, Acked

(* Both ends of a queue: what is behind a buffer, and what is before it.   *)
LEMMA ConcatParts ==
  ASSUME NEW q \in Seq(Frames), NEW r \in Seq(Frames)
  PROVE  /\ q \o r \in Seq(Frames)
         /\ \A k, lo, hi : Rising(q \o r, k, lo, hi) => Rising(q, k, lo, hi) /\ Rising(r, k, lo, hi)
         /\ \A hi : Acked(q \o r, hi) => Acked(q, hi) /\ Acked(r, hi)
<1>1. /\ q \o r \in Seq(Frames) /\ Len(q) \in Nat /\ Len(r) \in Nat /\ Len(q \o r) = Len(q) + Len(r)
      /\ \A i \in 1 .. Len(q) : (q \o r)[i] = q[i]
      /\ \A i \in 1 .. Len(r) : i + Len(q) \in 1 .. Len(q \o r) /\ r[i] = (q \o r)[i + Len(q)]
  BY ConcatProperties, LenProperties
<1>2. \A i \in 1 .. Len(q) : i + 0 \in 1 .. Len(q \o r) /\ q[i] = (q \o r)[i + 0]
  BY <1>1
<1>3. /\ \A k, lo, hi : Rising(q \o r, k, lo, hi) => Rising(q, k, lo, hi)
      /\ \A hi : Acked(q \o r, hi) => Acked(q, hi)
  BY <1>1, <1>2, RisingPart
<1>4. /\ \A k, lo, hi : Rising(q \o r, k, lo, hi) => Rising(r, k, lo, hi)
      /\ \A hi : Acked(q \o r, hi) => Acked(r, hi)
  BY <1>1, RisingPart
<1>5. QED
  BY <1>1, <1>3, <1>4

-----------------------------------------------------------------------------
(* What a pass of the slave's exec thread writes.                          *)

(* An answer is shorter than the period of the numbers, so that one that   *)
(* wraps is seen to wrap.                                                  *)
AnswersFit == 2 + YxFrames + YcFrames < SnMod /\ 2 + YmFrames < SnMod

(* From w to x a handler writes at most n I frames, and every frame it     *)
(* writes acknowledges build_recv.                                         *)
Acknowledges(q, rs) == \A i \in 1 .. Len(q) : q[i].f # "U" => q[i].rs = rs % SnMod
Answers(w, x, n) ==
  /\ WorkOK(x) /\ x.st.build_recv = w.st.build_recv
  /\ \E q \in Seq(Frames) :
       x.out = w.out \o q /\ Acknowledges(q, w.st.build_recv) /\ Numbered(q, Len(q)) <= n

LEMMA AnswersOn ==
  ASSUME NEW w, WorkOK(w), NEW x, NEW y, NEW a \in Nat, NEW b \in Nat, Answers(w, x, a), Answers(x, y, b)
  PROVE  Answers(w, y, a + b)
<1> DEFINE u == w.out
<1>1. PICK q \in Seq(Frames) : x.out = u \o q /\ Acknowledges(q, w.st.build_recv) /\ Numbered(q, Len(q)) <= a
  BY DEF Answers
<1>2. PICK r \in Seq(Frames) : y.out = x.out \o r /\ Acknowledges(r, x.st.build_recv) /\ Numbered(r, Len(r)) <= b
  BY DEF Answers
<1>3. u \in Seq(Frames)
  BY DEF WorkOK
<1> HIDE DEF u
<1>4. y.out = u \o (q \o r) /\ q \o r \in Seq(Frames)
  <2>1. y.out = (u \o q) \o r
    BY <1>1, <1>2
  <2>2. u \o (q \o r) = (u \o q) \o r
    BY <1>3, Rejoined
  <2>3. QED
    BY <2>1, <2>2, ConcatProperties
<1>5. Numbered(q \o r, Len(q \o r)) <= a + b
  <2>1. Len(r) \in 0 .. Len(r) /\ Len(q) \in Nat /\ Len(r) \in Nat /\ Len(q \o r) = Len(q) + Len(r)
    BY ConcatProperties, LenProperties
  <2>2. Numbered(q \o r, Len(q) + Len(r)) = Numbered(q, Len(q)) + Numbered(r, Len(r))
    BY <2>1, NumberedConcat
  <2>3. Numbered(q, Len(q)) \in Nat /\ Numbered(r, Len(r)) \in Nat
    BY <2>1, NumberedFinite
  <2>4. QED
    BY <1>1, <1>2, <2>1, <2>2, <2>3
<1>6. Acknowledges(q \o r, w.st.build_recv)
  <2>1. x.st.build_recv = w.st.build_recv
    BY DEF Answers
  <2>2. /\ Len(q) \in Nat /\ Len(r) \in Nat
        /\ \A i \in 1 .. Len(q \o r) : IF i <= Len(q) THEN i \in 1 .. Len(q) /\ (q \o r)[i] = q[i]
                                     ELSE i - Len(q) \in 1 .. Len(r) /\ (q \o r)[i] = r[i - Len(q)]
    BY ConcatProperties, LenProperties
  <2>3. QED
    BY <1>1, <1>2, <2>1, <2>2 DEF Acknowledges
<1>7. WorkOK(y) /\ y.st.build_recv = w.st.build_recv
  BY DEF Answers
<1>8. QED
  BY <1>4, <1>5, <1>6, <1>7 DEF Answers, u

LEMMA OneAnswer ==
  ASSUME NEW w, WorkOK(w), NEW fr \in Frames, fr.f # "U" => fr.rs = w.st.build_recv % SnMod,
         NEW x, WorkOK(x), x.st.build_recv = w.st.build_recv, x.out = Append(w.out, fr)
  PROVE  Answers(w, x, IF fr.f = "I" THEN 1 ELSE 0)
<1> DEFINE q == <<fr>>
           u == w.out
<1>1. u \in Seq(Frames)
  BY DEF WorkOK
<1>2. q \in Seq(Frames) /\ Len(q) = 1 /\ q[1] = fr
  OBVIOUS
<1>3. x.out = u \o q
  <2> HIDE DEF u
  <2>1. Append(u, fr) = u \o q
    BY <1>1, AppendIsConcat
  <2>2. QED
    BY <2>1 DEF u
<1> HIDE DEF q
<1>4. Numbered(q, Len(q)) = IF fr.f = "I" THEN 1 ELSE 0
  <2>1. CASE fr.f = "I"
    BY <1>2, <2>1, NumberedAll
  <2>2. CASE fr.f # "I"
    BY <1>2, <2>2, NumberedNone
  <2>3. QED
    BY <2>1, <2>2
<1>5. Acknowledges(q, w.st.build_recv)
  BY <1>2 DEF Acknowledges
<1>6. Numbered(q, Len(q)) <= IF fr.f = "I" THEN 1 ELSE 0
  BY <1>4
<1>7. QED
  BY <1>2, <1>3, <1>5, <1>6 DEF Answers

LEMMA NoAnswer ==
  ASSUME NEW w, WorkOK(w), NEW x, WorkOK(x), x.st.build_recv = w.st.build_recv, x.out = w.out
  PROVE  Answers(w, x, 0)
<1> DEFINE q == <<>>
<1>1. q \in Seq(Frames) /\ Len(q) = 0 /\ w.out \in Seq(Frames)
  BY EmptySeq DEF WorkOK
<1>2. w.out \o q = w.out
  BY <1>1, ConcatEmptySeq
<1> HIDE DEF q
<1>3. Numbered(q, Len(q)) = 0 /\ Acknowledges(q, w.st.build_recv)
  BY <1>1, NumberedNone DEF Acknowledges
<1>4. Numbered(q, Len(q)) <= 0 /\ x.out = w.out \o q
  BY <1>2, <1>3
<1>5. QED
  BY <1>1, <1>3, <1>4 DEF Answers

LEMMA BuildIAnswers ==
  ASSUME NEW w, WorkOK(w), NEW ty \in AsduTypes, NEW cot \in Reasons,
         NEW ia0 \in BOOLEAN, NEW sel \in BOOLEAN, NEW val \in {0, 1}
  PROVE  Answers(w, BuildI(w, ty, cot, ia0, sel, val), 1)
<1> DEFINE f == IFrame(ty, cot, ia0, sel, val, w.st.build_send, w.st.build_recv)
           x == BuildI(w, ty, cot, ia0, sel, val)
<1>1. w.st.build_send \in Sn /\ w.st.build_recv \in 0 .. SnMod
  BY DEF WorkOK, SlaveStation
<1>2. f \in Frames
  BY <1>1, FramesBuilt
<1>3. f.f = "I" /\ f.rs = w.st.build_recv % SnMod
  BY DEF IFrame
<1>4. x = [w EXCEPT !.out = Append(@, f), !.st.build_send = (@ + 1) % SnMod]
  BY DEF BuildI
<1>5. WorkOK(x)
  BY BuildIOK
<1> HIDE DEF f, x
<1>6. x.st.build_recv = w.st.build_recv /\ x.out = Append(w.out, f)
  BY <1>4 DEF WorkOK, SlaveStation
<1>7. Answers(w, x, IF f.f = "I" THEN 1 ELSE 0)
  BY <1>2, <1>3, <1>5, <1>6, OneAnswer
<1>8. QED
  BY <1>3, <1>7 DEF x

LEMMA NodeListAnswers ==
  ASSUME NEW w, WorkOK(w), NEW k \in Nat, NEW ty \in AsduTypes, NEW cot \in Reasons
  PROVE  Answers(w, NodeList(w, k, ty, cot), k)
<1> DEFINE x == NodeList(w, k, ty, cot)
           q == NodeFrames(w, k, ty, cot)
<1>0. WorkOK(x)
  BY NodeListOK
<1>1. \A i \in 1 .. k : q[i].f = "I" /\ q[i].rs = w.st.build_recv % SnMod
  BY DEF IFrame, NodeFrames
<1>2. q \in Seq(Frames) /\ Len(q) = k
  BY NodeFramesOK
<1>3. x = [w EXCEPT !.out = @ \o q, !.st.build_send = (@ + k) % SnMod]
  BY DEF NodeList, NodeFrames
<1> HIDE DEF q, x
<1>4. x.st.build_recv = w.st.build_recv /\ x.out = w.out \o q
  BY <1>3 DEF WorkOK, SlaveStation
<1>5. Numbered(q, Len(q)) = k
  BY <1>1, <1>2, NumberedAll
<1>6. Acknowledges(q, w.st.build_recv)
  BY <1>1, <1>2 DEF Acknowledges
<1>7. Numbered(q, Len(q)) <= k
  BY <1>5
<1>8. QED
  BY <1>0, <1>2, <1>4, <1>6, <1>7 DEF Answers, x

LEMMA CallsAnswer ==
  ASSUME NEW w, WorkOK(w), NEW fr
  PROVE  /\ \/ Answers(w, iec104_s_asdu_call_all(w, fr), 0)
            \/ Answers(w, iec104_s_asdu_call_all(w, fr), 2 + YxFrames + YcFrames)
         /\ \/ Answers(w, iec104_s_asdu_call_pulse(w, fr), 0)
            \/ Answers(w, iec104_s_asdu_call_pulse(w, fr), 2 + YmFrames)
<1>0. /\ {"C_IC", "M_SP", "M_ME", "M_IT"} \subseteq AsduTypes
      /\ {"ACTCON", "ACTTERM", "INTROGEN", "REQCOGEN"} \subseteq Reasons
      /\ YxFrames \in Nat /\ YcFrames \in Nat /\ YmFrames \in Nat
  BY SlaveAssumption DEF AsduTypes, Reasons
<1>1. ASSUME NEW x, NEW n \in Nat, Answers(w, x, n)
      PROVE  Answers(w, iec104_s_build_call_ack(x), n + 1) /\ Answers(w, iec104_s_build_call_finsh(x), n + 1)
  <2>1. WorkOK(x)
    BY <1>1 DEF Answers
  <2>2. Answers(x, iec104_s_build_call_ack(x), 1) /\ Answers(x, iec104_s_build_call_finsh(x), 1)
    BY <1>0, <2>1, BuildIAnswers DEF iec104_s_build_call_ack, iec104_s_build_call_finsh
  <2>3. QED
    BY <1>1, <2>2, AnswersOn
<1>2. ASSUME NEW x, NEW n \in Nat, Answers(w, x, n), NEW k \in Nat
      PROVE  /\ Answers(w, iec104_s_build_yx(x, k), n + k) /\ Answers(w, iec104_s_build_yc(x, k), n + k)
             /\ Answers(w, iec104_s_build_ym(x, k), n + k)
  <2>1. WorkOK(x)
    BY <1>2 DEF Answers
  <2>2. /\ Answers(x, iec104_s_build_yx(x, k), k) /\ Answers(x, iec104_s_build_yc(x, k), k)
        /\ Answers(x, iec104_s_build_ym(x, k), k)
    BY <1>0, <2>1, NodeListAnswers DEF iec104_s_build_yx, iec104_s_build_yc, iec104_s_build_ym
  <2>3. QED
    BY <1>2, <2>2, AnswersOn
<1>3. Answers(w, w, 0)
  BY NoAnswer
<1> DEFINE a == iec104_s_build_call_ack(w)
           b == iec104_s_build_yx(a, YxFrames)
           c == iec104_s_build_yc(b, YcFrames)
           d == iec104_s_build_ym(a, YmFrames)
<1>4. Answers(w, a, 0 + 1)
  BY <1>1, <1>3
<1>5. Answers(w, iec104_s_build_call_finsh(c), 2 + YxFrames + YcFrames)
  <2> HIDE DEF a
  <2>1. Answers(w, b, 1 + YxFrames)
    BY <1>0, <1>2, <1>4
  <2> HIDE DEF b
  <2>2. Answers(w, c, (1 + YxFrames) + YcFrames)
    BY <1>0, <1>2, <2>1
  <2> HIDE DEF c
  <2>3. Answers(w, iec104_s_build_call_finsh(c), ((1 + YxFrames) + YcFrames) + 1)
    BY <1>0, <1>1, <2>2
  <2>4. ((1 + YxFrames) + YcFrames) + 1 = 2 + YxFrames + YcFrames
    BY <1>0
  <2>5. QED
    BY <2>3, <2>4
<1>6. Answers(w, iec104_s_build_call_finsh(d), 2 + YmFrames)
  <2> HIDE DEF a
  <2>1. Answers(w, d, 1 + YmFrames)
    BY <1>0, <1>2, <1>4
  <2> HIDE DEF d
  <2>2. Answers(w, iec104_s_build_call_finsh(d), (1 + YmFrames) + 1)
    BY <1>0, <1>1, <2>1
  <2>3. (1 + YmFrames) + 1 = 2 + YmFrames
    BY <1>0
  <2>4. QED
    BY <2>2, <2>3
<1>7. iec104_s_asdu_call_all(w, fr) = w \/ iec104_s_asdu_call_all(w, fr) = iec104_s_build_call_finsh(c)
  BY DEF iec104_s_asdu_call_all
<1>8. iec104_s_asdu_call_pulse(w, fr) = w \/ iec104_s_asdu_call_pulse(w, fr) = iec104_s_build_call_finsh(d)
  BY DEF iec104_s_asdu_call_pulse
<1>9. QED
  BY <1>3, <1>5, <1>6, <1>7, <1>8

(* The answer to one frame.                                                *)
LEMMA ParseAnswer ==
  ASSUME AnswersFit, NEW w, WorkOK(w), w.out = <<>>, NEW fr \in Frames,
         NEW x \in iec104_s_frame_parse(w, fr)
  PROVE  /\ x.out \in Seq(Frames) /\ Acknowledges(x.out, x.st.build_recv)
         /\ Numbered(x.out, Len(x.out)) < SnMod
<1>0. /\ SnMod \in Nat /\ 1 < SnMod /\ 0 < SnMod
      /\ 2 + YxFrames + YcFrames \in Nat /\ 2 + YmFrames \in Nat
  BY FrameAssumption, SlaveAssumption
<1>1. ASSUME NEW d, WorkOK(d), d.out = <<>>, NEW n \in Nat, n < SnMod, Answers(d, x, n)
      PROVE  /\ x.out \in Seq(Frames) /\ Acknowledges(x.out, x.st.build_recv)
             /\ Numbered(x.out, Len(x.out)) < SnMod
  <2>1. PICK q \in Seq(Frames) : /\ x.out = d.out \o q
                                 /\ Acknowledges(q, d.st.build_recv) /\ Numbered(q, Len(q)) <= n
    BY <1>1 DEF Answers
  <2>2. x.out = q
    BY <1>1, <2>1, ConcatEmptySeq
  <2>3. Numbered(q, Len(q)) \in Nat
    BY <2>1, NumberedFinite, LenProperties
  <2>4. Numbered(q, Len(q)) < SnMod
    BY <1>0, <1>1, <2>1, <2>3
  <2>5. x.st.build_recv = d.st.build_recv
    BY <1>1 DEF Answers
  <2>6. QED
    BY <2>1, <2>2, <2>4, <2>5
<1>2. Answers(w, w, 0)
  BY NoAnswer
<1>3. CASE fr.f = "I"
  <2> DEFINE d == iec104_s_deal_sn(w, fr)
  <2>1. fr \in IFrames
    BY <1>3 DEF Frames, UFrames, SFrames
  <2>2. fr.ss + 1 \in 0 .. SnMod /\ fr.ia0 \in BOOLEAN /\ fr.sel \in BOOLEAN /\ fr.val \in {0, 1}
    BY <2>1, FrameAssumption DEF IFrames, Sn
  <2>3. WorkOK(d) /\ d.out = <<>>
    BY <2>2 DEF iec104_s_deal_sn, WorkOK, SlaveStation
  <2> HIDE DEF d
  <2>4. Answers(d, iec104_s_build_yk_ack(d, fr), 1) /\ Answers(d, iec104_s_build_yt_ack(d, fr), 1)
    <3>1. {"C_SE", "C_SC"} \subseteq AsduTypes /\ "ACTCON" \in Reasons
      BY DEF AsduTypes, Reasons
    <3>2. QED
      BY <2>2, <2>3, <3>1, BuildIAnswers DEF iec104_s_build_yk_ack, iec104_s_build_yt_ack
  <2>5. \A y \in iec104_s_asdu_clock(d, fr) : Answers(d, iec104_s_build_s_ack(y), 0)
    <3> SUFFICES ASSUME NEW y \in iec104_s_asdu_clock(d, fr) PROVE Answers(d, iec104_s_build_s_ack(y), 0)
      OBVIOUS
    <3>1. WorkOK(y) /\ WorkOK(iec104_s_build_s_ack(y))
      BY <2>3, ClockOK
    <3>2. y.out = d.out /\ y.st.build_recv = d.st.build_recv
      <4>1. CASE y = d
        BY <4>1
      <4>2. CASE y # d
        <5>1. PICK p \in UNION {Stepped(d.st.t_test, e) \X Stepped(d.st.t_timer, e) : e \in ClockSteps} :
                y = [d EXCEPT !.st.t_test = p[1], !.st.t_timer = p[2]]
          BY <4>2 DEF iec104_s_asdu_clock
        <5>2. \A a, b : LET z == [d EXCEPT !.st.t_test = a, !.st.t_timer = b]
                        IN  z.out = d.out /\ z.st.build_recv = d.st.build_recv
          BY <2>3 DEF WorkOK, SlaveStation
        <5>3. PICK a, b : y = [d EXCEPT !.st.t_test = a, !.st.t_timer = b]
          BY <5>1, Zenon
        <5>4. QED
          BY <5>2, <5>3, ZenonT(40)
      <4>3. QED
        BY <4>1, <4>2
    <3> DEFINE f == SFrame(y.st.build_recv)
    <3>3. f \in Frames /\ f.f = "S" /\ f.rs = y.st.build_recv % SnMod
      BY <3>1, FramesBuilt DEF WorkOK, SlaveStation, SFrame
    <3>4. /\ iec104_s_build_s_ack(y).out = Append(y.out, f)
          /\ iec104_s_build_s_ack(y).st.build_recv = y.st.build_recv
      BY <3>1 DEF iec104_s_build_s_ack, WorkOK
    <3> HIDE DEF f
    <3>5. Answers(d, iec104_s_build_s_ack(y), IF f.f = "I" THEN 1 ELSE 0)
      BY <2>3, <3>1, <3>2, <3>3, <3>4, OneAnswer
    <3>6. QED
      BY <3>3, <3>5
  <2>6. Answers(d, d, 0)
    BY <2>3, NoAnswer
  <2>7. /\ \/ Answers(d, iec104_s_asdu_call_all(d, fr), 0)
           \/ Answers(d, iec104_s_asdu_call_all(d, fr), 2 + YxFrames + YcFrames)
        /\ \/ Answers(d, iec104_s_asdu_call_pulse(d, fr), 0)
           \/ Answers(d, iec104_s_asdu_call_pulse(d, fr), 2 + YmFrames)
    BY <2>3, CallsAnswer
  <2>8. \/ x = w
        \/ x = d
        \/ x = iec104_s_asdu_call_all(d, fr) \/ x = iec104_s_asdu_call_pulse(d, fr)
        \/ x = iec104_s_build_yk_ack(d, fr) \/ x = iec104_s_build_yt_ack(d, fr)
        \/ \E y \in iec104_s_asdu_clock(d, fr) : x = iec104_s_build_s_ack(y)
    BY <1>3 DEF iec104_s_frame_parse, iec104_s_frame_i_parse, d
  <2>9. \/ Answers(w, x, 0)
        \/ \E n \in Nat : n < SnMod /\ Answers(d, x, n)
    <3>1. 0 \in Nat /\ 1 \in Nat /\ 2 + YxFrames + YcFrames < SnMod /\ 2 + YmFrames < SnMod
      BY DEF AnswersFit
    <3>2. QED
      BY <1>0, <1>2, <2>4, <2>5, <2>6, <2>7, <2>8, <3>1
  <2>10. QED
    BY <1>0, <1>1, <2>3, <2>9
<1>4. CASE fr.f = "U"
  <2>1. x = iec104_s_frame_u_parse(w, fr)
    BY <1>4 DEF iec104_s_frame_parse
  <2>2. CASE fr.fn = "TESTER"
    <3> DEFINE f == UFrame("TESTER_ACK")
    <3>1. f \in Frames /\ f.f = "U"
      BY FramesBuilt DEF UFuncs, UFrame
    <3>2. x = [w EXCEPT !.out = Append(@, f)]
      BY <2>1, <2>2 DEF iec104_s_frame_u_parse, iec104_s_build_u_ack
    <3>3. WorkOK(x)
      BY ParseOK
    <3> HIDE DEF f
    <3>4. x.out = Append(w.out, f) /\ x.st.build_recv = w.st.build_recv
      BY <3>2 DEF WorkOK
    <3>5. Answers(w, x, IF f.f = "I" THEN 1 ELSE 0)
      BY <3>1, <3>3, <3>4, OneAnswer
    <3>6. Answers(w, x, 0)
      BY <3>1, <3>5
    <3>7. QED
      BY <1>0, <1>1, <3>6
  <2>3. CASE fr.fn # "TESTER"
    <3>1. x.out = w.out /\ x.st.build_recv = w.st.build_recv
      BY <2>1, <2>3 DEF iec104_s_frame_u_parse, WorkOK, SlaveStation
    <3>2. WorkOK(x)
      BY ParseOK
    <3>3. Answers(w, x, 0)
      BY <3>1, <3>2, NoAnswer
    <3>4. QED
      BY <1>0, <1>1, <3>3
  <2>4. QED
    BY <2>2, <2>3
<1>5. CASE fr.f = "S"
  <2>1. x = w
    BY <1>5 DEF iec104_s_frame_parse
  <2>2. QED
    BY <1>0, <1>1, <1>2, <2>1
<1>6. QED
  BY <1>3, <1>4, <1>5 DEF Frames, UFrames, SFrames, IFrames

LEMMA TesterStepOK ==
  ASSUME NEW w, WorkOK(w)
  PROVE  WorkOK(TesterStep(w))
<1>1. 0 \in Ages /\ Epoch \in Ages
  BY FrameAssumption DEF Ages, Epoch, MaxAge
<1>2. UFrame("TESTER") \in Frames
  BY FramesBuilt DEF UFuncs
<1>3. WorkOK(iec104_s_build_u(w, "TESTER"))
  BY <1>2 DEF iec104_s_build_u, WorkOK, UFuncs
<1>4. w.st.test \in TesterStates
  BY DEF WorkOK, SlaveStation
<1>5. QED
  BY <1>1, <1>3, <1>4 DEF TesterStep, WorkOK, SlaveStation, TesterStates, LinkStates

(* What the state machine writes once the slave has been reset.            *)
LEMMA MachineAnswer ==
  ASSUME NEW w, WorkOK(w), w.out = <<>>, w.st.init # "INIT", NEW x, x = iec104_s_state_machine(w)
  PROVE  /\ x.out \in Seq(Frames) /\ Acknowledges(x.out, w.st.build_recv)
         /\ Numbered(x.out, Len(x.out)) < SnMod
<1>0. SnMod \in Nat /\ 1 < SnMod
  BY FrameAssumption
<1> DEFINE l == LinkStep(w)
<1>1. Answers(w, l, 1)
  <2>0. WorkOK(l)
    BY LinkStepOK
  <2>1. CASE w.st.init = "CONNECT_OK"
    <3> DEFINE f == UFrame("STARTDT_ACK")
               u == iec104_s_build_u_ack(w, "STARTDT")
               i == iec104_s_build_init_finsh(u)
    <3>1. f \in Frames /\ f.f = "U"
      BY FramesBuilt DEF UFuncs, UFrame
    <3>2. u = [w EXCEPT !.out = Append(@, f)]
      BY DEF iec104_s_build_u_ack
    <3>3. l = [i EXCEPT !.st.init = "IDLE", !.st.t_timer = 0, !.serv = "CONNECTED"]
      BY <2>1 DEF LinkStep
    <3> HIDE DEF f, l
    <3>4. WorkOK(u) /\ u.out = Append(w.out, f) /\ u.st.build_recv = w.st.build_recv
      <4>1. \A q \in Seq(Frames) : Append(q, f) \in Seq(Frames)
        BY <3>1
      <4>2. QED
        BY <3>2, <4>1 DEF WorkOK
    <3> HIDE DEF u
    <3>5. Answers(w, u, IF f.f = "I" THEN 1 ELSE 0)
      BY <3>1, <3>4, OneAnswer
    <3>6. Answers(w, u, 0)
      BY <3>1, <3>5
    <3>7. Answers(u, i, 1)
      BY <3>4, BuildIAnswers DEF iec104_s_build_init_finsh, AsduTypes, Reasons
    <3> HIDE DEF i
    <3>8. Answers(w, i, 0 + 1)
      BY <3>6, <3>7, AnswersOn
    <3>9. l.out = i.out /\ l.st.build_recv = i.st.build_recv
      <4>1. DOMAIN i = {"st", "out", "close", "serv"} /\ i.st \in SlaveStation
        BY <3>8 DEF Answers, WorkOK
      <4>2. l.out = i.out /\ l.st = [i.st EXCEPT !.init = "IDLE", !.t_timer = 0]
        BY <3>3, <4>1
      <4>3. QED
        BY <4>1, <4>2 DEF SlaveStation
    <3>10. Answers(w, i, 1)
      BY <3>8
    <3>11. QED
      BY <2>0, <3>9, <3>10 DEF Answers, l
  <2>2. CASE w.st.init # "CONNECT_OK"
    <3>1. l.out = w.out /\ l.st.build_recv = w.st.build_recv
      BY <2>2 DEF LinkStep, WorkOK, SlaveStation
    <3>2. Answers(w, l, 0)
      BY <2>0, <3>1, NoAnswer
    <3>3. \A n \in Nat : n <= 0 => n <= 1
      OBVIOUS
    <3>4. \A q \in Seq(Frames) : Numbered(q, Len(q)) \in Nat
      BY NumberedFinite, LenProperties
    <3>5. QED
      BY <3>2, <3>3, <3>4 DEF Answers
  <2>3. QED
    BY <2>1, <2>2
<1> HIDE DEF l
<1>2. WorkOK(l)
  BY <1>1 DEF Answers
<1>3. Answers(l, TesterStep(l), 0) \/ l.st.init # "IDLE"
  <2> SUFFICES ASSUME l.st.init = "IDLE" PROVE Answers(l, TesterStep(l), 0)
    OBVIOUS
  <2> DEFINE f == UFrame("TESTER")
             y == TesterStep(l)
  <2>1. f \in Frames /\ f.f = "U"
    BY FramesBuilt DEF UFuncs, UFrame
  <2>2. l.st.test \in TesterStates
    BY <1>2 DEF WorkOK, SlaveStation
  <2>3. /\ y.st.build_recv = l.st.build_recv
        /\ \/ y.out = l.out
           \/ y.out = Append(l.out, f)
    BY <1>2, <2>2 DEF TesterStep, iec104_s_build_u, TesterStates, WorkOK, SlaveStation
  <2>4. WorkOK(y)
    BY <1>2, TesterStepOK
  <2> HIDE DEF f, y
  <2>5. CASE y.out = l.out
    BY <1>2, <2>3, <2>4, <2>5, NoAnswer DEF y
  <2>6. CASE y.out = Append(l.out, f)
    <3>1. Answers(l, y, IF f.f = "I" THEN 1 ELSE 0)
      BY <1>2, <2>1, <2>3, <2>4, <2>6, OneAnswer
    <3>2. QED
      BY <2>1, <3>1 DEF y
  <2>7. QED
    BY <2>3, <2>5, <2>6
<1>4. Answers(w, x, 1)
  <2>1. x = l \/ (l.st.init = "IDLE" /\ x = TesterStep(l))
    BY DEF iec104_s_state_machine, l
  <2>2. Answers(l, TesterStep(l), 0) => Answers(w, TesterStep(l), 1 + 0)
    BY <1>1, AnswersOn
  <2>3. QED
    BY <1>1, <1>3, <2>1, <2>2
<1>5. PICK q \in Seq(Frames) : /\ x.out = w.out \o q
                               /\ Acknowledges(q, w.st.build_recv) /\ Numbered(q, Len(q)) <= 1
  BY <1>4 DEF Answers
<1>6. x.out = q
  BY <1>5, ConcatEmptySeq
<1>7. Numbered(q, Len(q)) \in Nat
  BY <1>5, NumberedFinite, LenProperties
<1>8. QED
  BY <1>0, <1>5, <1>6, <1>7

-----------------------------------------------------------------------------
(* Numbers that do not wrap.                                               *)
LEMMA NumberedGrows ==
  ASSUME NEW q, NEW i \in Nat, NEW j \in Nat, i <= j
  PROVE  Numbered(q, i) <= Numbered(q, j)
<1>1. Marked(q, i) \subseteq Marked(q, j)
  BY DEF Marked
<1>2. /\ IsFiniteSet(Marked(q, j))
      /\ Numbered(q, i) = Cardinality(Marked(q, i)) /\ Numbered(q, j) = Cardinality(Marked(q, j))
  BY NumberedFinite
<1>3. QED
  BY <1>1, <1>2, FS_Subset

LEMMA NumberedNext ==
  ASSUME NEW q, NEW i \in Nat, i > 0, q[i].f = "I"
  PROVE  Numbered(q, i) = Numbered(q, i - 1) + 1
<1>1. Marked(q, i) = Marked(q, i - 1) \cup {i} /\ i \notin Marked(q, i - 1)
  BY DEF Marked
<1>2. /\ IsFiniteSet(Marked(q, i - 1))
      /\ Numbered(q, i) = Cardinality(Marked(q, i))
      /\ Numbered(q, i - 1) = Cardinality(Marked(q, i - 1))
  <2>1. i \in Int /\ i - 1 \in Int
    OBVIOUS
  <2>2. QED
    BY <2>1, NumberedFinite
<1>3. QED
  BY <1>1, <1>2, FS_AddElement

(* Fewer frames than the period, and a next number that is not smaller:    *)
(* the numbers of the frames are the ones in between.                      *)
LEMMA Unwrapped ==
  ASSUME NEW q \in Seq(Frames), NEW b \in Sn, NEW e, Consecutive(q, b, e),
         Numbered(q, Len(q)) < SnMod, b <= e
  PROVE  /\ e \in Sn /\ Rising(q, "ss", b, e - 1)
         /\ e = b => \A i \in 1 .. Len(q) : q[i].f # "I"
<1> DEFINE n == Numbered(q, Len(q))
<1>0. /\ SnMod \in Nat /\ SnMod > 1 /\ b \in Nat /\ b < SnMod /\ n \in Nat /\ n < SnMod
      /\ Len(q) \in Nat /\ Sn = 0 .. SnMod - 1
  BY FrameAssumption, NumberedFinite, LenProperties DEF Sn
<1>1. \A k \in Nat : b + k < SnMod => (b + k) % SnMod = b + k
  <2>1. \A k \in Nat : b + k < SnMod => b + k \in Sn
    BY <1>0
  <2>2. QED
    BY <2>1, SmallMod
<1>2. b + n < SnMod
  <2> SUFFICES ASSUME b + n >= SnMod PROVE FALSE
    BY <1>0
  <2>1. (b + n) % SnMod = ((b + n - SnMod) + SnMod) % SnMod
    BY <1>0
  <2>2. b + n - SnMod \in Sn /\ b + n - SnMod < b
    BY <1>0
  <2>3. (b + n) % SnMod = b + n - SnMod
    <3>1. b + n = SnMod * 1 + (b + n - SnMod) /\ b + n \in Int
      BY <1>0
    <3>2. /\ b + n = SnMod * ((b + n) \div SnMod) + ((b + n) % SnMod)
          /\ (b + n) % SnMod \in Sn /\ (b + n) \div SnMod \in Int
      BY <1>0, <3>1, Division
    <3>3. QED
      BY <2>2, <3>1, <3>2, Remainder
  <2>4. e = (b + n) % SnMod
    BY DEF Consecutive
  <2>5. QED
    BY <1>0, <2>2, <2>3, <2>4
<1>3. e = b + n
  BY <1>0, <1>1, <1>2 DEF Consecutive
<1>4. ASSUME NEW i \in 1 .. Len(q), q[i].f = "I"
      PROVE  /\ Numbered(q, i - 1) \in Nat /\ Numbered(q, i - 1) + 1 <= n
             /\ q[i].ss = b + Numbered(q, i - 1)
  <2>1. /\ i \in Nat /\ i > 0 /\ i - 1 \in Nat /\ i <= Len(q)
        /\ Numbered(q, i - 1) \in Nat /\ Numbered(q, i) \in Nat
    BY <1>0, NumberedFinite
  <2>2. Numbered(q, i) = Numbered(q, i - 1) + 1 /\ Numbered(q, i) <= n
    BY <1>0, <1>4, <2>1, NumberedNext, NumberedGrows
  <2>3. q[i].ss = (b + Numbered(q, i - 1)) % SnMod
    BY <1>4 DEF Consecutive, InOrder
  <2> HIDE DEF n
  <2>4. b + Numbered(q, i - 1) < SnMod
    BY <1>0, <1>2, <2>1, <2>2
  <2>5. QED
    BY <1>1, <2>1, <2>2, <2>3, <2>4
<1>5. ASSUME NEW i \in 1 .. Len(q), NEW j \in 1 .. Len(q), i < j, q[i].f = "I", q[j].f = "I"
      PROVE  q[i].ss <= q[j].ss
  <2>1. i - 1 \in Nat /\ j - 1 \in Nat /\ i - 1 <= j - 1
    BY <1>0, <1>5
  <2>2. Numbered(q, i - 1) <= Numbered(q, j - 1)
    BY <2>1, NumberedGrows
  <2>3. /\ Numbered(q, i - 1) \in Nat /\ q[i].ss = b + Numbered(q, i - 1)
        /\ Numbered(q, j - 1) \in Nat /\ q[j].ss = b + Numbered(q, j - 1)
    BY <1>4, <1>5
  <2>4. QED
    BY <1>0, <2>2, <2>3
<1> HIDE DEF n
<1>6. \A i \in 1 .. Len(q) : q[i].f = "I" => b <= q[i].ss /\ q[i].ss <= e - 1
  <2> SUFFICES ASSUME NEW i \in 1 .. Len(q), q[i].f = "I" PROVE b <= q[i].ss /\ q[i].ss <= e - 1
    OBVIOUS
  <2>1. \A k \in Nat : k + 1 <= n => b <= b + k /\ b + k <= e - 1
    BY <1>0, <1>3
  <2>2. QED
    BY <1>4, <2>1
<1>7. e = b => \A i \in 1 .. Len(q) : q[i].f # "I"
  BY <1>0, <1>3, <1>4
<1>8. e \in Sn
  BY <1>0, <1>2, <1>3
<1>9. Rising(q, "ss", b, e - 1)
  BY <1>5, <1>6, Zenon DEF Rising
<1>10. QED
  BY <1>7, <1>8, <1>9

-----------------------------------------------------------------------------
(* What a pass of the master's exec thread writes: at most one frame, with *)
(* the next number, that acknowledges build_recv.                          *)
WritesOne(d, x) ==
  /\ x.close = d.close /\ x.st.init = d.st.init
  /\ x.st.build_recv = d.st.build_recv
  /\ x.st.deal_send = d.st.deal_send /\ x.st.deal_recv = d.st.deal_recv
  /\ \/ x.out = d.out /\ x.st.build_send = d.st.build_send
     \/ \E f \in Frames :
          /\ x.out = Append(d.out, f) /\ (f.f # "U" => f.rs = d.st.build_recv % SnMod)
          /\ f.f = "I" => f.ss = d.st.build_send
          /\ x.st.build_send = IF f.f = "I" THEN (d.st.build_send + 1) % SnMod
                               ELSE d.st.build_send

LEMMA AcksWriteOne ==
  ASSUME NEW w, MWorkOK(w), NEW e \in MasterEvents
  PROVE  /\ WritesOne(w, [w EXCEPT !.serv = e]) /\ WritesOne(w, iec104_m_build_s_ack(w))
         /\ WritesOne(w, iec104_m_build_s_ack([w EXCEPT !.serv = e]))
<1> DEFINE f == SFrame(w.st.build_recv)
<1>1. f \in Frames /\ f.f = "S" /\ f.rs = w.st.build_recv % SnMod
  BY FramesBuilt DEF MWorkOK, MasterStation, SFrame
<1>2. /\ iec104_m_build_s_ack(w) = [w EXCEPT !.out = Append(@, f)]
      /\ iec104_m_build_s_ack([w EXCEPT !.serv = e]) = [w EXCEPT !.serv = e, !.out = Append(@, f)]
  BY DEF iec104_m_build_s_ack, MWorkOK
<1> HIDE DEF f
<1>3. WritesOne(w, [w EXCEPT !.serv = e])
  BY DEF WritesOne, MWorkOK
<1>4. ASSUME NEW x, x.st = w.st, x.close = w.close, x.out = Append(w.out, f)
      PROVE  WritesOne(w, x)
  BY <1>1, <1>4 DEF WritesOne
<1>5. QED
  BY <1>2, <1>3, <1>4 DEF MWorkOK

LEMMA ExecuteWritesOne ==
  ASSUME NEW w, MWorkOK(w), NEW fr \in IFrames
  PROVE  WritesOne(w, Execute(w, fr))
<1> DEFINE f == IFrame(fr.ty, "ACT", fr.ia0, FALSE, fr.val, w.st.build_send, w.st.build_recv)
           x == Execute(w, fr)
<1>1. f \in Frames
  <2>1. w.st.build_send \in Sn /\ w.st.build_recv \in 0 .. SnMod
    BY DEF MWorkOK, MasterStation
  <2>2. fr.ty \in AsduTypes /\ fr.ia0 \in BOOLEAN /\ fr.val \in {0, 1} /\ "ACT" \in Reasons
    BY DEF IFrames, Reasons
  <2>3. QED
    BY <2>1, <2>2, FramesBuilt
<1>2. f.f = "I" /\ f.ss = w.st.build_send /\ f.rs = w.st.build_recv % SnMod
  BY DEF IFrame
<1>3. x = [w EXCEPT !.out = Append(@, f), !.st.build_send = (@ + 1) % SnMod]
  BY DEF Execute
<1> HIDE DEF f, x
<1>4. /\ x.out = Append(w.out, f) /\ x.close = w.close
      /\ x.st = [w.st EXCEPT !.build_send = (@ + 1) % SnMod]
  BY <1>3 DEF MWorkOK
<1>5. /\ x.st.build_send = (w.st.build_send + 1) % SnMod
      /\ x.st.init = w.st.init /\ x.st.build_recv = w.st.build_recv
      /\ x.st.deal_send = w.st.deal_send /\ x.st.deal_recv = w.st.deal_recv
  BY <1>4 DEF MWorkOK, MasterStation
<1>6. WritesOne(w, x)
  BY <1>1, <1>2, <1>4, <1>5 DEF WritesOne
<1>7. QED
  BY <1>6 DEF x

LEMMA OneWritten ==
  ASSUME NEW d, MWorkOK(d), d.out = <<>>, NEW x, WritesOne(d, x)
  PROVE  /\ x.out \in Seq(Frames) /\ Acknowledges(x.out, d.st.build_recv)
         /\ Consecutive(x.out, d.st.build_send, x.st.build_send)
         /\ Numbered(x.out, Len(x.out)) < SnMod
<1>0. d.st.build_send \in Sn /\ SnMod \in Nat /\ 1 < SnMod /\ 0 < SnMod
  BY FrameAssumption DEF MWorkOK, MasterStation
<1>1. CASE x.out = d.out /\ x.st.build_send = d.st.build_send
  <2>1. x.out \in Seq(Frames) /\ Len(x.out) = 0
    BY <1>1, EmptySeq
  <2>2. Consecutive(x.out, d.st.build_send, x.st.build_send)
    BY <1>0, <1>1, <2>1, ConsecutiveEmpty
  <2>3. Numbered(x.out, Len(x.out)) = 0 /\ Acknowledges(x.out, d.st.build_recv)
    BY <2>1, NumberedNone DEF Acknowledges
  <2>4. QED
    BY <1>0, <2>1, <2>2, <2>3
<1>2. ASSUME NEW f \in Frames, x.out = Append(d.out, f), f.f # "U" => f.rs = d.st.build_recv % SnMod,
             f.f = "I" => f.ss = d.st.build_send,
             x.st.build_send = IF f.f = "I" THEN (d.st.build_send + 1) % SnMod ELSE d.st.build_send
      PROVE  /\ x.out \in Seq(Frames) /\ Acknowledges(x.out, d.st.build_recv)
             /\ Consecutive(x.out, d.st.build_send, x.st.build_send)
             /\ Numbered(x.out, Len(x.out)) < SnMod
  <2> DEFINE q == x.out
  <2>1. q \in Seq(Frames) /\ Len(q) = 1 /\ q[1] = f
    BY <1>2
  <2> HIDE DEF q
  <2>2. Acknowledges(q, d.st.build_recv)
    BY <1>2, <2>1 DEF Acknowledges
  <2>3. CASE f.f = "I"
    <3>1. Numbered(q, Len(q)) = 1
      BY <2>1, <2>3, NumberedAll
    <3>2. (d.st.build_send + 1 - 1) % SnMod = d.st.build_send
      BY <1>0, SmallMod, SnRange
    <3>3. \A i \in 1 .. Len(q) : q[i].f = "I" /\ q[i].ss = (d.st.build_send + i - 1) % SnMod
      BY <1>2, <2>1, <2>3, <3>2
    <3>4. Consecutive(q, d.st.build_send, (d.st.build_send + Len(q)) % SnMod)
      BY <1>0, <2>1, <3>3, ConsecutiveList
    <3>5. QED
      BY <1>0, <1>2, <2>1, <2>2, <2>3, <3>1, <3>4 DEF q
  <2>4. CASE f.f # "I"
    <3>1. Numbered(q, Len(q)) = 0
      BY <2>1, <2>4, NumberedNone
    <3>2. Consecutive(q, d.st.build_send, d.st.build_send)
      BY <1>0, <2>1, <2>4, ConsecutiveNone
    <3>3. QED
      BY <1>0, <1>2, <2>1, <2>2, <2>4, <3>1, <3>2 DEF q
  <2>5. QED
    BY <2>3, <2>4
<1>3. QED
  BY <1>1, <1>2 DEF WritesOne

(* The numbers of the frame fr have been dealt with from w to d, or not.   *)
Deals(w, fr, d) ==
  /\ d.close = w.close /\ d.out = w.out /\ d.st.build_send = w.st.build_send
  /\ IF fr.f = "I" /\ fr.own /\ SnAccepted(w.st, fr)
     THEN d.st.deal_send = fr.ss /\ d.st.deal_recv = fr.rs /\ d.st.build_recv = fr.ss + 1
     ELSE /\ d.st.deal_send = w.st.deal_send /\ d.st.deal_recv = w.st.deal_recv
          /\ d.st.build_recv = w.st.build_recv

LEMMA MasterParseNumbers ==
  ASSUME NEW w, MWorkOK(w), w.out = <<>>, w.close = FALSE, NEW fr \in Frames,
         NEW x, x = iec104_m_frame_parse(w, fr)
  PROVE  /\ x.close = FALSE /\ x.st.init \in {w.st.init, "CONNECT_OK", "DISCONNECT"}
         /\ IF fr.f = "I" /\ fr.own /\ SnAccepted(w.st, fr)
            THEN x.st.deal_send = fr.ss /\ x.st.deal_recv = fr.rs /\ x.st.build_recv = fr.ss + 1
            ELSE /\ x.st.deal_send = w.st.deal_send /\ x.st.deal_recv = w.st.deal_recv
                 /\ x.st.build_recv = w.st.build_recv
         /\ x.out \in Seq(Frames) /\ Acknowledges(x.out, x.st.build_recv)
         /\ Consecutive(x.out, w.st.build_send, x.st.build_send)
         /\ Numbered(x.out, Len(x.out)) < SnMod
<1>1. ASSUME NEW d, MWorkOK(d), Deals(w, fr, d), d.st.init \in {w.st.init, "CONNECT_OK", "DISCONNECT"},
             NEW y, MWorkOK(y), WritesOne(d, y), x = [y EXCEPT !.st.t_timer = 0]
      PROVE  /\ x.close = FALSE /\ x.st.init \in {w.st.init, "CONNECT_OK", "DISCONNECT"}
             /\ IF fr.f = "I" /\ fr.own /\ SnAccepted(w.st, fr)
                THEN x.st.deal_send = fr.ss /\ x.st.deal_recv = fr.rs /\ x.st.build_recv = fr.ss + 1
                ELSE /\ x.st.deal_send = w.st.deal_send /\ x.st.deal_recv = w.st.deal_recv
                     /\ x.st.build_recv = w.st.build_recv
             /\ x.out \in Seq(Frames) /\ Acknowledges(x.out, x.st.build_recv)
             /\ Consecutive(x.out, w.st.build_send, x.st.build_send)
             /\ Numbered(x.out, Len(x.out)) < SnMod
  <2>1. /\ x.out = y.out /\ x.close = y.close /\ x.st.init = y.st.init
        /\ x.st.deal_send = y.st.deal_send /\ x.st.deal_recv = y.st.deal_recv
        /\ x.st.build_recv = y.st.build_recv /\ x.st.build_send = y.st.build_send
    BY <1>1 DEF MWorkOK, MasterStation
  <2>2. /\ y.out \in Seq(Frames) /\ Acknowledges(y.out, d.st.build_recv)
        /\ Consecutive(y.out, d.st.build_send, y.st.build_send)
        /\ Numbered(y.out, Len(y.out)) < SnMod
    BY <1>1, OneWritten DEF Deals
  <2>3. /\ y.close = d.close /\ y.st.init = d.st.init /\ y.st.build_recv = d.st.build_recv
        /\ y.st.deal_send = d.st.deal_send /\ y.st.deal_recv = d.st.deal_recv
    BY <1>1 DEF WritesOne
  <2>4. QED
    BY <1>1, <2>1, <2>2, <2>3, Zenon DEF Deals
<1>2. \A y : MWorkOK(y) => WritesOne(y, y)
  BY DEF WritesOne
<1>3. CASE fr.f = "U"
  <2> DEFINE y == iec104_m_frame_u_parse(w, fr)
  <2>1. x = [y EXCEPT !.st.t_timer = 0]
    BY <1>3 DEF iec104_m_frame_parse
  <2>2. MWorkOK(y)
    BY MasterUParseOK
  <2>3. CASE fr.fn = "TESTER"
    <3> DEFINE f == UFrame("TESTER_ACK")
    <3>1. f \in Frames /\ f.f = "U"
      BY FramesBuilt DEF UFuncs, UFrame
    <3>2. y = [w EXCEPT !.out = Append(@, f)]
      BY <2>3 DEF iec104_m_frame_u_parse, iec104_m_build_u_ack
    <3> HIDE DEF f, y
    <3>3. WritesOne(w, y)
      BY <3>1, <3>2 DEF WritesOne, MWorkOK
    <3>4. Deals(w, fr, w)
      BY <1>3 DEF Deals
    <3>5. QED
      BY <1>1, <2>1, <2>2, <3>3, <3>4
  <2>4. CASE fr.fn # "TESTER"
    <3>1. Deals(w, fr, y) /\ y.st.init \in {w.st.init, "CONNECT_OK", "DISCONNECT"}
      BY <1>3, <2>4 DEF Deals, iec104_m_frame_u_parse, MWorkOK, MasterStation
    <3> HIDE DEF y
    <3>2. QED
      BY <1>1, <1>2, <2>1, <2>2, <3>1
  <2>5. QED
    BY <2>3, <2>4
<1>4. CASE fr.f = "S"
  <2>1. x = [w EXCEPT !.st.t_timer = 0] /\ Deals(w, fr, w)
    BY <1>4 DEF iec104_m_frame_parse, Deals
  <2>2. QED
    BY <1>1, <1>2, <2>1
<1>5. CASE fr.f = "I"
  <2> DEFINE y == iec104_m_frame_i_parse(w, fr)
             d == iec104_m_deal_sn(w, fr)
  <2>1. x = [y EXCEPT !.st.t_timer = 0] /\ fr \in IFrames
    BY <1>5 DEF iec104_m_frame_parse, Frames, UFrames, SFrames
  <2>2. MWorkOK(y)
    BY <2>1, MasterAsduOK
  <2>3. CASE ~fr.own \/ ~SnAccepted(w.st, fr)
    <3>1. y = w /\ Deals(w, fr, w)
      BY <2>3 DEF iec104_m_frame_i_parse, Deals
    <3>2. QED
      BY <1>1, <1>2, <2>1, <3>1
  <2>4. CASE fr.own /\ SnAccepted(w.st, fr)
    <3>1. fr.ss + 1 \in 0 .. SnMod /\ fr.ss \in Sn \cup {-1} /\ fr.rs \in Sn
      BY <2>1, FrameAssumption DEF IFrames, Sn
    <3>2. MWorkOK(d) /\ Deals(w, fr, d) /\ d.st.init = w.st.init
      BY <1>5, <2>4, <3>1 DEF iec104_m_deal_sn, MWorkOK, MasterStation, Deals
    <3> HIDE DEF d
    <3>3. \A e \in MasterEvents :
            /\ WritesOne(d, [d EXCEPT !.serv = e]) /\ WritesOne(d, iec104_m_build_s_ack(d))
            /\ WritesOne(d, iec104_m_build_s_ack([d EXCEPT !.serv = e]))
      BY <3>2, AcksWriteOne
    <3>4. WritesOne(d, Execute(d, fr)) /\ WritesOne(d, d)
      BY <1>2, <2>1, <3>2, ExecuteWritesOne
    <3>5. WritesOne(d, iec104_m_asdu_call_all(d, fr)) /\ WritesOne(d, iec104_m_asdu_call_pulse(d, fr))
      BY <3>3, <3>4 DEF iec104_m_asdu_call_all, iec104_m_asdu_call_pulse, MasterEvents
    <3>6. WritesOne(d, iec104_m_asdu_clock(d, fr))
      BY <3>3, <3>4 DEF iec104_m_asdu_clock, MasterEvents
    <3>7. WritesOne(d, iec104_m_asdu_yk(d, fr)) /\ WritesOne(d, iec104_m_asdu_yt(d, fr))
      BY <3>3, <3>4
         DEF iec104_m_asdu_yk, iec104_m_asdu_yt, iec104_m_build_yk_ack, iec104_m_build_yt_ack, MasterEvents
    <3>8. y \in {d, iec104_m_build_s_ack(d), iec104_m_asdu_call_all(d, fr), iec104_m_asdu_call_pulse(d, fr),
                 iec104_m_asdu_clock(d, fr), iec104_m_asdu_yk(d, fr), iec104_m_asdu_yt(d, fr)}
      BY <2>4 DEF iec104_m_frame_i_parse, d
    <3>9. "CLOCK_SYNC" \in MasterEvents
      BY DEF MasterEvents
    <3>10. WritesOne(d, y)
      BY <3>3, <3>4, <3>5, <3>6, <3>7, <3>8, <3>9
    <3> HIDE DEF y
    <3>11. QED
      BY <1>1, <2>1, <2>2, <3>2, <3>10
  <2>5. QED
    BY <2>3, <2>4
<1>6. QED
  BY <1>3, <1>4, <1>5 DEF Frames, UFrames, SFrames, IFrames

LEMMA MasterMachineNumbers ==
  ASSUME NEW w, MWorkOK(w), w.out = <<>>, w.close = FALSE, NEW x, x = iec104_m_state_machine(w)
  PROVE  /\ w.st.init = "INIT" =>
              /\ ~x.close /\ x.st.init = "OPEN" /\ x.out = <<>>
              /\ x.st.build_send = 0 /\ x.st.build_recv = 0
              /\ x.st.deal_send = -1 /\ x.st.deal_recv = 0
         /\ w.st.init # "INIT" =>
              /\ x.close <=> x.st.init = "INIT"
              /\ x.st.init = "OPEN" => w.st.init = "OPEN"
              /\ x.st.build_send = w.st.build_send /\ x.st.build_recv = w.st.build_recv
              /\ x.st.deal_send = w.st.deal_send /\ x.st.deal_recv = w.st.deal_recv
         /\ x.out \in Seq(Frames) /\ \A i \in 1 .. Len(x.out) : x.out[i].f = "U"
<1> DEFINE l == MLinkStep(w)
           f == UFrame("TESTER")
<1>1. MWorkOK(l) /\ l.out = <<>>
  <2>1. l.out = w.out
    BY DEF MLinkStep, MWorkOK
  <2>2. QED
    BY <2>1, MLinkStepOK
<1>2. w.st.init = "INIT" =>
        /\ ~l.close /\ l.st.init = "OPEN"
        /\ l.st.build_send = 0 /\ l.st.build_recv = 0 /\ l.st.deal_send = -1 /\ l.st.deal_recv = 0
  <2> SUFFICES ASSUME w.st.init = "INIT"
               PROVE  /\ ~l.close /\ l.st.init = "OPEN"
                      /\ l.st.build_send = 0 /\ l.st.build_recv = 0
                      /\ l.st.deal_send = -1 /\ l.st.deal_recv = 0
    OBVIOUS
  <2>1. l = [w EXCEPT !.st = [iec104_m_reset_param(w.st) EXCEPT !.init = "OPEN"]]
    BY DEF MLinkStep
  <2> HIDE DEF l
  <2>2. l.close = w.close /\ l.st = [iec104_m_reset_param(w.st) EXCEPT !.init = "OPEN"]
    BY <2>1 DEF MWorkOK
  <2>3. QED
    BY <2>2 DEF MWorkOK, MasterStation, iec104_m_reset_param
<1>3. w.st.init # "INIT" =>
        /\ l.close <=> l.st.init = "INIT"
        /\ l.st.init = "OPEN" => w.st.init = "OPEN"
        /\ l.st.build_send = w.st.build_send /\ l.st.build_recv = w.st.build_recv
        /\ l.st.deal_send = w.st.deal_send /\ l.st.deal_recv = w.st.deal_recv
  BY DEF MLinkStep, MWorkOK, MasterStation
<1> HIDE DEF l
<1>4. \/ x = l
      \/ x = MTesterStep(l) /\ l.st.init = "IDLE"
  BY DEF iec104_m_state_machine, l
<1>5. CASE x = l
  <2>1. x.out \in Seq(Frames) /\ \A i \in 1 .. Len(x.out) : x.out[i].f = "U"
    <3>1. x.out \in Seq(Frames) /\ Len(x.out) = 0
      BY <1>1, <1>5, EmptySeq
    <3>2. QED
      BY <3>1
  <2>2. QED
    BY <1>1, <1>2, <1>3, <1>5, <2>1
<1>6. CASE x = MTesterStep(l) /\ l.st.init = "IDLE"
  <2>0. f \in Frames /\ f.f = "U"
    BY FramesBuilt DEF UFuncs, UFrame
  <2>1. l.st.test \in TesterStates /\ w.st.init # "INIT" /\ l.close = FALSE
    BY <1>1, <1>2, <1>3, <1>6 DEF MWorkOK, MasterStation
  <2> HIDE DEF f
  <2>2. /\ x.st.build_send = l.st.build_send /\ x.st.build_recv = l.st.build_recv
        /\ x.st.deal_send = l.st.deal_send /\ x.st.deal_recv = l.st.deal_recv
        /\ x.close <=> x.st.init = "INIT"
        /\ x.st.init # "OPEN"
    BY <1>1, <1>6, <2>1 DEF MTesterStep, iec104_m_build_u, TesterStates, MWorkOK, MasterStation
  <2>3. x.out = <<>> \/ x.out = <<f>>
    <3>1. x.out = l.out \/ x.out = Append(l.out, f)
      BY <1>1, <1>6, <2>1 DEF MTesterStep, iec104_m_build_u, TesterStates, MWorkOK, MasterStation, f
    <3>2. QED
      BY <1>1, <3>1
  <2>4. x.out \in Seq(Frames) /\ \A i \in 1 .. Len(x.out) : x.out[i].f = "U"
    <3>1. CASE x.out = <<>>
      <4>1. x.out \in Seq(Frames) /\ Len(x.out) = 0
        BY <3>1, EmptySeq
      <4>2. QED
        BY <4>1
    <3>2. CASE x.out = <<f>>
      BY <2>0, <3>2
    <3>3. QED
      BY <2>3, <3>1, <3>2
  <2>5. QED
    BY <1>3, <2>1, <2>2, <2>4
<1>7. QED
  BY <1>4, <1>5, <1>6

-----------------------------------------------------------------------------
(* The ranges of the counters and of the lanes' bounds.                    *)
InRange ==
  /\ m.build_send \in Sn /\ m.build_recv \in 0 .. SnMod /\ m.deal_send \in Sn \cup {-1}
  /\ m.deal_recv \in Sn /\ s.build_send \in Sn /\ s.build_recv \in 0 .. SnMod
  /\ NextM \in Sn /\ NextM <= m.build_send
  /\ NextS \in Sn /\ NextS <= s.build_send /\ RecvS \in 0 .. SnMod
  /\ DownSs \in Int /\ DownRs \in Int /\ DownAck \in Int /\ UpSs \in Int

LEMMA RangeHolds == TypeInv /\ MasterHand /\ SlaveHand => InRange
<1> SUFFICES ASSUME TypeInv, MasterHand, SlaveHand PROVE InRange
  OBVIOUS
<1>0. SnMod \in Nat /\ 1 < SnMod /\ Sn = 0 .. SnMod - 1
  BY FrameAssumption DEF Sn
<1>1. /\ m.build_send \in Sn /\ m.build_recv \in 0 .. SnMod /\ m.deal_send \in Sn \cup {-1}
      /\ m.deal_recv \in Sn
  BY DEF TypeInv, MasterTypes, MasterTypeOK, MasterStation
<1>2. s.build_send \in Sn /\ s.build_recv \in 0 .. SnMod /\ s_app.fr \in Frames
  BY DEF TypeInv, SlaveTypes, SlaveTypeOK, SlaveStation
<1>3. m_app.sn \in Sn
  BY DEF TypeInv, MasterTypes, MasterTypeOK
<1>4. s_app.pc = "send" => s_app.fr.ss \in Sn /\ s_app.fr.rs \in Sn /\ s.build_send = s_app.fr.ss + 1
  BY <1>2, FrameNumbers DEF SlaveHand
<1>5. NextM \in Sn /\ NextM <= m.build_send
  BY <1>0, <1>1, <1>3 DEF MasterHand, NextM
<1>6. NextS \in Sn /\ NextS <= s.build_send
  BY <1>0, <1>2, <1>4 DEF NextS
<1>7. RecvS \in 0 .. SnMod
  BY <1>0, <1>2, <1>4 DEF RecvS
<1>8. DownSs \in Int /\ DownRs \in Int /\ DownAck \in Int /\ UpSs \in Int
  BY <1>0, <1>1, <1>2, <1>6, <1>7 DEF DownSs, DownRs, DownAck, UpSs
<1>9. QED
  BY <1>1, <1>2, <1>5, <1>6, <1>7, <1>8 DEF InRange

LEMMA RangeHoldsNext ==
  ASSUME TypeInv', MasterHand', SlaveHand'
  PROVE  InRange'
BY RangeHolds, PTL

QueuesOK ==
  /\ m_rbuf \in Seq(Frames) /\ s_rbuf \in Seq(Frames)
  /\ \A c \in Conns : net[c].up \in Seq(Frames) /\ net[c].down \in Seq(Frames)
  /\ m_client # NoConn => m_client \in Conns /\ ToMaster \in Seq(Frames) /\ ToSlave \in Seq(Frames)

LEMMA QueuesTyped == TypeInv => QueuesOK
<1> SUFFICES ASSUME TypeInv PROVE QueuesOK
  OBVIOUS
<1>1. /\ m_rbuf \in Seq(Frames) /\ s_rbuf \in Seq(Frames) /\ m_client \in Conns \cup {NoConn}
      /\ \A c \in Conns : net[c].up \in Seq(Frames) /\ net[c].down \in Seq(Frames)
  BY DEF TypeInv, MasterTypes, MasterTypeOK, SlaveTypes, SlaveTypeOK, LinkTypes, NetOK, ConnRecord, Ends
<1>2. <<>> \in Seq(Frames) /\ \A a, b \in Seq(Frames) : a \o b \in Seq(Frames)
  BY ConcatProperties, EmptySeq
<1>3. QED
  BY <1>1, <1>2, Zenon DEF QueuesOK, ToMaster, ToSlave

LEMMA QueuesTypedNext ==
  ASSUME TypeInv'
  PROVE  QueuesOK'
BY QueuesTyped, PTL

(* A lane stays in order while its bounds do not tighten.                  *)
LEMMA DownKept ==
  ASSUME TypeInv, TypeInv', InRange, InRange', DownLane, m_client # NoConn, m_client' = m_client,
         \A k, lo, hi : Rising(ToMaster, k, lo, hi) => Rising(ToMaster', k, lo, hi),
         \A hi : Acked(ToMaster, hi) => Acked(ToMaster', hi),
         m'.deal_send <= m.deal_send, m'.deal_recv <= m.deal_recv,
         DownSs <= DownSs', DownRs <= DownRs', DownAck <= DownAck'
  PROVE  DownLane'
<1>0. ToMaster \in Seq(Frames) /\ ToMaster' \in Seq(Frames) /\ "ss" \in Kinds /\ "rs" \in Kinds
  BY QueuesTyped, QueuesTypedNext DEF QueuesOK, Kinds
<1>1. /\ m.deal_send \in Int /\ m.deal_recv \in Int /\ m'.deal_send \in Int /\ m'.deal_recv \in Int
      /\ DownSs \in Int /\ DownRs \in Int /\ DownAck \in Int
      /\ DownSs' \in Int /\ DownRs' \in Int /\ DownAck' \in Int
  BY SnRange DEF InRange
<1> DEFINE r == ToMaster'
<1>2. /\ Rising(r, "ss", m.deal_send, DownSs) /\ Rising(r, "rs", m.deal_recv, DownRs)
      /\ Acked(r, DownAck) /\ r \in Seq(Frames)
  BY <1>0 DEF DownLane
<1> HIDE DEF r
<1>3. Rising(r, "ss", m'.deal_send, DownSs')
  BY <1>0, <1>1, <1>2, RisingWider
<1>4. Rising(r, "rs", m'.deal_recv, DownRs')
  BY <1>0, <1>1, <1>2, RisingWider
<1>5. Acked(r, DownAck')
  BY <1>0, <1>1, <1>2, AckedWider
<1>6. QED
  BY <1>3, <1>4, <1>5 DEF DownLane, r

LEMMA UpKept ==
  ASSUME TypeInv, TypeInv', InRange, InRange', UpLane, m_client # NoConn, m_client' = m_client,
         \A k, lo, hi : Rising(ToSlave, k, lo, hi) => Rising(ToSlave', k, lo, hi),
         UpSs' <= UpSs, NextM <= NextM'
  PROVE  UpLane'
<1>0. ToSlave \in Seq(Frames) /\ ToSlave' \in Seq(Frames) /\ "ss" \in Kinds
  BY QueuesTyped, QueuesTypedNext DEF QueuesOK, Kinds
<1>1. UpSs \in Int /\ UpSs' \in Int /\ NextM \in Int /\ NextM' \in Int
  BY SnRange DEF InRange
<1>2. NextM - 1 <= NextM' - 1 /\ NextM - 1 \in Int /\ NextM' - 1 \in Int
  <2>1. \A a, b \in Int : a <= b => a - 1 <= b - 1 /\ a - 1 \in Int /\ b - 1 \in Int
    OBVIOUS
  <2>2. QED
    BY <1>1, <2>1
<1> DEFINE r == ToSlave'
<1>3. Rising(r, "ss", UpSs, NextM - 1) /\ r \in Seq(Frames)
  BY <1>0 DEF UpLane
<1> HIDE DEF r
<1>4. Rising(r, "ss", UpSs', NextM' - 1)
  BY <1>0, <1>1, <1>2, <1>3, RisingWider
<1>5. QED
  BY <1>4 DEF UpLane, r

(* What a station writes carries the lane on.                              *)
LEMMA DownWrites ==
  ASSUME TypeInv, TypeInv', InRange, InRange', DownLane, Counters, Served, m_client' = m_client,
         NEW q \in Seq(Frames), ToMaster' = ToMaster \/ ToMaster' = ToMaster \o q,
         Rising(q, "ss", NextS, NextS' - 1), Rising(q, "rs", RecvS, RecvS'), Acked(q, s'.build_recv),
         NextS <= NextS', RecvS <= RecvS', RecvS' <= s'.build_recv,
         s.build_recv <= s'.build_recv, s'.build_recv <= NextM, NextM' = NextM,
         m'.build_send = m.build_send, m'.build_recv = m.build_recv,
         m'.deal_send = m.deal_send, m'.deal_recv = m.deal_recv,
         m.build_recv = m.deal_send + 1
  PROVE  DownLane' /\ Counters'
<1>0. /\ m_client # NoConn /\ ToMaster \in Seq(Frames) /\ ToMaster' \in Seq(Frames)
      /\ "ss" \in Kinds /\ "rs" \in Kinds
  BY QueuesTyped, QueuesTypedNext DEF QueuesOK, Kinds, Served
<1> DEFINE r == ToMaster
           t == ToMaster'
           a == NextS - 1
           b == NextS' - 1
<1>1. /\ m.deal_send \in Int /\ m.deal_recv \in Int /\ a \in Int /\ b \in Int /\ NextS \in Int
      /\ RecvS \in Int /\ RecvS' \in Int /\ s.build_recv \in Int /\ s'.build_recv \in Int
      /\ DownSs' \in Int /\ DownRs' \in Int /\ DownAck' \in Int
      /\ m.build_send \in Int /\ NextM \in Int /\ NextM <= m.build_send
      /\ NextS \in Sn /\ NextS' \in Sn /\ m.build_recv \in Int /\ NextS' \in Int
  <2>1. NextS \in Int /\ NextS' \in Int
    BY SnRange DEF InRange
  <2>2. a \in Int /\ b \in Int
    BY <2>1
  <2>3. /\ m.deal_send \in Int /\ m.deal_recv \in Int /\ m.build_send \in Int /\ m.build_recv \in Int
        /\ NextM \in Int /\ NextM <= m.build_send /\ NextS \in Sn /\ NextS' \in Sn
    <3>1. /\ m.deal_send \in Sn \cup {-1} /\ m.deal_recv \in Sn /\ m.build_send \in Sn
          /\ m.build_recv \in 0 .. SnMod /\ NextM \in Sn /\ NextM <= m.build_send
          /\ NextS \in Sn /\ NextS' \in Sn
      BY DEF InRange
    <3>2. \A x \in Sn \cup {-1} : x \in Int
      BY SnRange
    <3>3. \A x \in 0 .. SnMod : x \in Int
      OBVIOUS
    <3>4. QED
      BY <3>1, <3>2, <3>3
  <2>4. /\ RecvS \in Int /\ RecvS' \in Int /\ s.build_recv \in Int /\ s'.build_recv \in Int
        /\ DownSs' \in Int /\ DownRs' \in Int /\ DownAck' \in Int
    <3>1. \A x \in 0 .. SnMod : x \in Int
      OBVIOUS
    <3>2. QED
      BY <3>1 DEF InRange
  <2>5. QED
    BY <2>1, <2>2, <2>3, <2>4
<1>2. /\ a <= NextS /\ a <= b /\ m.deal_send <= NextS
  <2>1. m.build_recv <= NextS
    BY DEF Counters
  <2>2. \A x, y \in Int : x <= y => x - 1 <= y - 1 /\ x - 1 <= x
    OBVIOUS
  <2>3. m.deal_send <= NextS
    BY <1>1, <2>1
  <2>4. QED
    BY <1>1, <2>2, <2>3
<1>3. m.deal_recv <= RecvS
  BY DEF Counters
<1>4. /\ Rising(r, "ss", m.deal_send, a) /\ Rising(r, "rs", m.deal_recv, RecvS) /\ Acked(r, s.build_recv)
  BY <1>0 DEF DownLane, DownSs, DownRs, DownAck
<1>5. t = r \/ t = r \o q
  OBVIOUS
<1>6. b <= DownSs' /\ RecvS' <= DownRs' /\ s'.build_recv <= DownAck'
  <2>1. CASE Served'
    <3>1. DownSs' = b /\ DownRs' = RecvS' /\ DownAck' = s'.build_recv
      BY <2>1 DEF DownSs, DownRs, DownAck
    <3> HIDE DEF b
    <3>2. QED
      BY <1>1, <3>1
  <2>2. CASE ~Served'
    <3>1. DownSs' = SnMod /\ DownRs' = m.build_send /\ DownAck' = m.build_send
      BY <2>2 DEF DownSs, DownRs, DownAck
    <3>2. b < SnMod /\ SnMod \in Int
      <4>1. \A x \in Sn : x - 1 < SnMod /\ SnMod \in Int
        BY FrameAssumption DEF Sn
      <4>2. QED
        BY <1>1, <4>1
    <3> HIDE DEF b
    <3>3. \A x, y, z, u \in Int : x <= y /\ y <= z /\ z <= u => x <= u /\ y <= u
      OBVIOUS
    <3>4. RecvS' <= m.build_send /\ s'.build_recv <= m.build_send
      BY <1>1, <3>3, SMTT(30)
    <3>5. QED
      BY <1>1, <3>1, <3>2, <3>4
  <2>3. QED
    BY <2>1, <2>2
<1> HIDE DEF r, t
<1>7. Rising(t, "ss", m.deal_send, b)
  <2>1. Rising(r, "ss", m.deal_send, b)
    <3>1. m.deal_send <= m.deal_send
      BY <1>1
    <3>2. QED
      BY <1>0, <1>1, <1>2, <1>4, <3>1, RisingWider, SMTT(30) DEF r
  <2>2. Rising(q, "ss", NextS, b)
    OBVIOUS
  <2> HIDE DEF a, b
  <2>3. Rising(r \o q, "ss", m.deal_send, b)
    BY <1>0, <1>1, <1>2, <1>4, <2>2, RisingJoin DEF r
  <2>4. QED
    BY <1>5, <2>1, <2>3
<1>8. Rising(t, "rs", m.deal_recv, RecvS')
  <2>1. Rising(r, "rs", m.deal_recv, RecvS')
    <3>1. m.deal_recv <= m.deal_recv
      BY SnRange DEF InRange
    <3>2. QED
      BY <1>0, <1>1, <1>4, <3>1, RisingWider, SMTT(30) DEF r
  <2>2. Rising(r \o q, "rs", m.deal_recv, RecvS')
    <3>1. RecvS <= RecvS
      BY <1>1
    <3>2. QED
      BY <1>0, <1>1, <1>3, <1>4, <3>1, RisingJoin DEF r
  <2>3. QED
    BY <1>5, <2>1, <2>2
<1>9. Acked(t, s'.build_recv)
  <2>1. Acked(r, s'.build_recv)
    BY <1>0, <1>1, <1>4, AckedWider DEF r
  <2>2. Acked(r \o q, s'.build_recv)
    BY <1>0, <2>1, AckedJoin DEF r
  <2>3. QED
    BY <1>5, <2>1, <2>2
<1>10. DownLane'
  <2>1. m.deal_send <= m.deal_send /\ m.deal_recv <= m.deal_recv
    <3>1. m.deal_recv <= m.deal_recv
      BY SnRange DEF InRange
    <3>2. QED
      BY <1>1, <3>1
  <2>2. t \in Seq(Frames)
    BY <1>0 DEF t
  <2> HIDE DEF b
  <2>3. Rising(t, "ss", m.deal_send, DownSs')
    BY <1>0, <1>1, <1>6, <1>7, <2>1, <2>2, RisingWider
  <2>4. Rising(t, "rs", m.deal_recv, DownRs')
    BY <1>0, <1>1, <1>6, <1>8, <2>1, <2>2, RisingWider
  <2>5. Acked(t, DownAck')
    BY <1>1, <1>6, <1>9, <2>2, AckedWider
  <2>6. QED
    BY <2>3, <2>4, <2>5 DEF DownLane, t
<1>11. Counters'
  <2>1. m'.build_recv <= NextS' /\ m'.deal_recv <= RecvS' /\ s'.build_recv <= NextM'
    <3>1. m.build_recv <= NextS /\ m.deal_recv <= RecvS
      BY DEF Counters
    <3>2. m.deal_recv \in Int
      BY SnRange DEF InRange
    <3>3. \A x, y, z \in Int : x <= y /\ y <= z => x <= z
      OBVIOUS
    <3>4. QED
      BY <1>1, <3>1, <3>2, <3>3
  <2>2. QED
    BY <2>1 DEF Counters
<1>12. QED
  BY <1>10, <1>11

LEMMA UpWrites ==
  ASSUME TypeInv, TypeInv', InRange, InRange', UpLane, Counters, m_client # NoConn, m_client' = m_client,
         NEW q \in Seq(Frames), ToSlave' = ToSlave \/ ToSlave' = ToSlave \o q,
         Rising(q, "ss", NextM, NextM' - 1), NextM <= NextM', UpSs' = UpSs
  PROVE  UpLane'
<1>0. ToSlave \in Seq(Frames) /\ ToSlave' \in Seq(Frames) /\ "ss" \in Kinds
  BY QueuesTyped, QueuesTypedNext DEF QueuesOK, Kinds
<1> DEFINE r == ToSlave
           t == ToSlave'
           a == NextM - 1
           b == NextM' - 1
<1>1. /\ UpSs \in Int /\ a \in Int /\ b \in Int /\ NextM \in Int /\ NextM' \in Int
      /\ s.build_recv \in Int /\ NextM >= 0
  <2>1. NextM \in Int /\ NextM' \in Int /\ NextM >= 0
    BY SnRange DEF InRange, Sn
  <2>2. a \in Int /\ b \in Int
    BY <2>1
  <2> HIDE DEF a, b
  <2>3. QED
    BY <2>1, <2>2, SnRange, SMTT(30) DEF InRange
<1>2. a <= NextM /\ a <= b /\ UpSs <= NextM
  <2>1. \A x, y \in Int : x <= y => x - 1 <= y - 1 /\ x - 1 <= x
    OBVIOUS
  <2>2. UpSs <= NextM
    <3>1. CASE Served
      <4>1. s.build_recv <= NextM /\ UpSs = s.build_recv - 1
        BY <3>1 DEF Counters, UpSs
      <4>2. QED
        BY <1>1, <4>1
    <3>2. CASE ~Served
      BY <1>1, <3>2 DEF UpSs
    <3>3. QED
      BY <3>1, <3>2
  <2>3. QED
    BY <1>1, <2>1, <2>2
<1>3. Rising(r, "ss", UpSs, a) /\ Rising(q, "ss", NextM, b) /\ (t = r \/ t = r \o q)
  BY <1>0 DEF UpLane
<1> HIDE DEF r, t, a, b
<1>4. Rising(r, "ss", UpSs, b)
  <2>1. UpSs <= UpSs
    BY <1>1
  <2>2. QED
    BY <1>0, <1>1, <1>2, <1>3, <2>1, RisingWider, SMTT(30) DEF r
<1>5. Rising(r \o q, "ss", UpSs, b)
  BY <1>0, <1>1, <1>2, <1>3, RisingJoin DEF r
<1>6. Rising(t, "ss", UpSs, b)
  BY <1>3, <1>4, <1>5
<1>7. QED
  BY <1>6 DEF UpLane, t, b

-----------------------------------------------------------------------------
(* Steps in which nobody is overtaken and no number wraps.                 *)
Orderly ==
  /\ m_app.pc # "idle" /\ m_app'.pc = m_app.pc => m'.build_send = m.build_send
  /\ MasterResets \/ m.build_send <= m'.build_send
  /\ s_app.pc # "idle" /\ s_app' = s_app => s'.build_send = s.build_send /\ ~SlaveResets
  /\ SlaveResets \/ s.build_send <= s'.build_send

LEMMA OrderlySteps ==
  ASSUME TypeInv, TypeInv', Record, ~race', ~wrapped'
  PROVE  ~race /\ ~wrapped /\ Orderly
<1>1. /\ m.build_send \in Int /\ m'.build_send \in Int /\ s.build_send \in Int /\ s'.build_send \in Int
  BY SnRange DEF TypeInv, MasterTypes, MasterTypeOK, MasterStation, SlaveTypes, SlaveTypeOK, SlaveStation
<1>2. /\ ~race /\ ~SponOvertaken
      /\ ~(m_app.pc # "idle" /\ m_app'.pc = m_app.pc /\ m'.build_send # m.build_send)
      /\ ~wrapped /\ ~(m'.build_send < m.build_send /\ ~MasterResets)
      /\ ~(s'.build_send < s.build_send /\ ~SlaveResets)
  BY DEF Record
<1>3. s_app.pc # "idle" /\ s_app' = s_app => s'.build_send = s.build_send /\ ~SlaveResets
  BY <1>2 DEF SponOvertaken
<1>4. QED
  BY <1>1, <1>2, <1>3 DEF Orderly

Ready == TypeInv /\ LinkInv /\ MasterLinked /\ CmdInv /\ Ordered

(* What a step of the master does to the lanes.                            *)
LEMMA MasterAcked ==
  ASSUME TypeInv, LinkInv, Acknowledged, NEW q \in Seq(Frames), MasterWrote(q),
         Served => Acked(q, s.build_send),
         m_client # NoConn /\ Pending(m_client) => Acked(q, 0),
         UNCHANGED <<backlog, s_client, acc>>, s'.build_send = s.build_send
  PROVE  Acknowledged'
<1>0. LinkTypes /\ \A c \in Conns : net[c].up \in Seq(Frames)
  BY QueuesTyped DEF TypeInv, QueuesOK
<1>1. ASSUME NEW c \in Conns, NEW hi, net[c].slv # "closed", Acked(net[c].up, hi),
             c = m_client => Acked(q, hi)
      PROVE  Acked(net'[c].up, hi)
  <2>1. net'[c].up = net[c].up \/ (c = m_client /\ net'[c].up = net[c].up \o q)
    BY <1>0, <1>1, MasterWroteEffect
  <2>2. c = m_client => Acked(net[c].up \o q, hi)
    BY <1>0, <1>1, AckedJoin
  <2>3. QED
    BY <1>1, <2>1, <2>2
<1>2. ASSUME NEW c \in Conns, Pending(c)' PROVE Acked(net'[c].up, 0)
  <2>1. Pending(c) /\ net[c].slv # "closed"
    BY <1>2, Installed DEF Pending
  <2>2. Acked(net[c].up, 0) /\ (c = m_client => Acked(q, 0))
    BY <2>1, LinkAssumption DEF Acknowledged
  <2>3. QED
    BY <1>1, <2>1, <2>2
<1>3. ASSUME s_client' # NoConn PROVE Acked(net'[s_client'].up, s'.build_send)
  <2>1. s_client \in Conns /\ net[s_client].slv # "closed"
    BY <1>3, Installed
  <2>2. Acked(net[s_client].up, s.build_send) /\ (s_client = m_client => Acked(q, s.build_send))
    BY <1>3 DEF Acknowledged, Served
  <2>3. QED
    BY <1>1, <2>1, <2>2
<1>4. QED
  BY <1>2, <1>3 DEF Acknowledged

LEMMA MasterLanes ==
  ASSUME TypeInv, NEW q \in Seq(Frames), m_client # NoConn, m_client' = m_client,
         net' = MasterSent(net, m_client, q), UNCHANGED <<s_client, s_rbuf>>
  PROVE  /\ net'[m_client].down = net[m_client].down
         /\ ToSlave' = ToSlave \/ ToSlave' = ToSlave \o q
<1>1. /\ m_client \in Conns /\ DOMAIN net = Conns /\ DOMAIN net[m_client] = Fields
      /\ s_rbuf \in Seq(Frames) /\ net[m_client].up \in Seq(Frames)
  BY DEF TypeInv, LinkTypes, NetOK, ConnRecord, Ends, Fields, SlaveTypes, SlaveTypeOK
<1>2. /\ net'[m_client].down = net[m_client].down
      /\ \/ net'[m_client].up = net[m_client].up
         \/ net'[m_client].up = net[m_client].up \o q
  BY <1>1 DEF MasterSent, Fields
<1> DEFINE a == IF Served THEN s_rbuf ELSE <<>>
           u == net[m_client].up
<1>3. a \in Seq(Frames) /\ u \in Seq(Frames)
  BY <1>1, EmptySeq
<1>4. ToSlave = a \o u /\ (ToSlave' = a \o u \/ ToSlave' = a \o (u \o q))
  BY <1>2 DEF ToSlave, Served
<1> HIDE DEF a, u
<1>5. a \o (u \o q) = (a \o u) \o q
  BY <1>3, Rejoined
<1>6. QED
  BY <1>2, <1>4, <1>5

(* The slave's side of the invariant, in a step of the master.             *)
LEMMA SlaveRests ==
  ASSUME Ordered, UNCHANGED <<s, s_pc, s_rbuf, s_app, s_client, acc>>
  PROVE  /\ SlaveHand' /\ SlaveOpens'
         /\ NextS' = NextS /\ RecvS' = RecvS
BY DEF Ordered, SlaveHand, SlaveOpens, NextS, RecvS

-----------------------------------------------------------------------------
(* The steps of the master.                                                *)
LEMMA MasterReady == TypeInv => MWorkOK(MWork) /\ MWork.st = m /\ MWork.out = <<>> /\ MWork.close = FALSE
BY MasterWorkTyped DEF TypeInv, MWork

LEMMA MasterMachineStep ==
  ASSUME Ready, TypeInv', Orderly, MasterStateMachine, UNCHANGED <<s, s_pc, s_rbuf, s_app>>
  PROVE  Ordered'
<1> DEFINE w == iec104_m_state_machine(MWork)
           q == w.out
<1>0. TypeInv /\ LinkInv /\ Ordered /\ InRange
  BY RangeHolds DEF Ready, Ordered
<1>1. /\ MWorkOK(MWork) /\ MWork.st = m /\ MWork.out = <<>> /\ MWork.close = FALSE
  BY <1>0, MasterReady
<1>2. /\ m.init = "INIT" =>
           /\ ~w.close /\ w.st.init = "OPEN" /\ q = <<>>
           /\ w.st.build_send = 0 /\ w.st.build_recv = 0 /\ w.st.deal_send = -1 /\ w.st.deal_recv = 0
      /\ m.init # "INIT" =>
           /\ w.close <=> w.st.init = "INIT"
           /\ w.st.init = "OPEN" => m.init = "OPEN"
           /\ w.st.build_send = m.build_send /\ w.st.build_recv = m.build_recv
           /\ w.st.deal_send = m.deal_send /\ w.st.deal_recv = m.deal_recv
      /\ q \in Seq(Frames) /\ \A i \in 1 .. Len(q) : q[i].f = "U"
  BY <1>1, MasterMachineNumbers
<1>3. /\ m' = w.st
      /\ net' = IF w.close THEN MasterClosed(MasterSent(net, m_client, q), m_client)
                ELSE MasterSent(net, m_client, q)
      /\ m_client' = IF w.close THEN NoConn ELSE m_client
      /\ m_pc = "state_machine" /\ m_pc' = "recv" /\ m.init # "OPEN"
      /\ UNCHANGED <<backlog, s_client, acc, m_rbuf, m_app>>
  BY DEF MasterStateMachine, MasterInstall
<1> HIDE DEF w
<1>4. MasterWrote(q)
  BY <1>3 DEF MasterWrote
<1>5. \A i \in 1 .. Len(q) : q[i].f # "I"
  BY <1>2
<1>6. (\A hi : Acked(q, hi)) /\ (\A k, lo, hi : Rising(q, k, lo, hi))
  BY <1>2, <1>5, RisingNone DEF Acked
<1>7. \A c : Pending(c)' <=> Pending(c)
  BY <1>3 DEF Pending
<1>8. SlaveHand' /\ SlaveOpens' /\ NextS' = NextS /\ RecvS' = RecvS
  BY <1>0, <1>3, SlaveRests
<1>9. Acknowledged'
  BY <1>0, <1>2, <1>3, <1>4, <1>6, MasterAcked DEF Ordered
<1>10. CASE m.init = "INIT"
  <2>1. m_client = NoConn /\ m_client' = NoConn /\ ~Served'
    BY <1>0, <1>2, <1>3, <1>10 DEF Ordered, MasterOpens, Served
  <2>2. MasterHand'
    <3>1. m.build_send \in Sn /\ m_app.sn \in Sn /\ SnMod \in Nat
      BY <1>0, SnRange DEF TypeInv, MasterTypes, MasterTypeOK, MasterStation
    <3>2. m_app.pc \in {"idle", "put", "send"}
      BY <1>0 DEF TypeInv, MasterTypes, MasterTypeOK
    <3>3. m_app.pc # "idle" => m.build_send = 0
      BY <1>2, <1>3, <1>10 DEF Orderly
    <3>4. m_app.pc # "send"
      BY <1>0, <3>1, <3>3 DEF Ordered, MasterHand, Sn
    <3>5. QED
      BY <1>0, <1>2, <1>3, <1>10, <3>2, <3>3, <3>4 DEF Ordered, MasterHand
  <2>3. MasterOpens'
    <3>1. m'.build_recv = m'.deal_send + 1
      BY <1>2, <1>3, <1>10
    <3>2. QED
      BY <1>0, <1>2, <1>3, <1>10, <2>1, <3>1 DEF Ordered, MasterOpens, Clean
  <2>4. DownLane' /\ UpLane' /\ Counters'
    BY <2>1 DEF DownLane, UpLane, Counters
  <2>5. QED
    BY <1>8, <1>9, <2>2, <2>3, <2>4 DEF Ordered
<1>11. CASE m.init # "INIT"
  <2>1. /\ m'.build_send = m.build_send /\ m'.build_recv = m.build_recv
        /\ m'.deal_send = m.deal_send /\ m'.deal_recv = m.deal_recv
    BY <1>2, <1>3, <1>11
  <2>2. MasterHand' /\ NextM' = NextM
    BY <1>0, <1>3, <2>1 DEF Ordered, MasterHand, NextM
  <2>3. MasterOpens'
    <3>1. m_client # NoConn
      BY <1>0, <1>3, <1>11 DEF Ordered, MasterOpens
    <3>2. m_client' = NoConn <=> m'.init \in {"INIT", "OPEN"}
      BY <1>2, <1>3, <1>11, <3>1
    <3>3. m'.init # "OPEN" /\ m_rbuf' = <<>> /\ m_pc' # "parse"
      BY <1>0, <1>2, <1>3, <1>11 DEF Ordered, MasterOpens
    <3>4. m_client' # NoConn /\ Pending(m_client)' => Clean'
      BY <1>0, <1>3, <1>7, <2>1 DEF Ordered, MasterOpens, Clean
    <3>5. QED
      BY <1>0, <2>1, <3>2, <3>3, <3>4 DEF Ordered, MasterOpens
  <2>4. InRange'
    BY <1>8, <2>2, RangeHoldsNext
  <2>5. CASE w.close
    <3>1. DownLane' /\ UpLane' /\ Counters'
      BY <1>3, <2>5 DEF DownLane, UpLane, Counters, Served
    <3>2. QED
      BY <1>8, <1>9, <2>2, <2>3, <3>1 DEF Ordered
  <2>6. CASE ~w.close
    <3>1. m_client # NoConn /\ m_client' = m_client /\ net' = MasterSent(net, m_client, q)
      BY <1>0, <1>3, <1>11, <2>6 DEF Ordered, MasterOpens
    <3>2. /\ net'[m_client].down = net[m_client].down
          /\ ToSlave' = ToSlave \/ ToSlave' = ToSlave \o q
      BY <1>0, <1>2, <1>3, <3>1, MasterLanes
    <3>3. ToMaster' = ToMaster
      BY <1>3, <3>1, <3>2 DEF ToMaster
    <3>4. Served' = Served
      BY <1>3, <3>1 DEF Served
    <3>5. /\ DownSs' = DownSs /\ DownRs' = DownRs /\ DownAck' = DownAck /\ UpSs' = UpSs
      BY <1>8, <2>1, <3>4 DEF DownSs, DownRs, DownAck, UpSs
    <3>6. UpLane'
      <4>1. NextM <= NextM'
        BY <1>0, <2>2, SnRange DEF InRange
      <4>2. QED
        BY <1>0, <1>2, <1>6, <2>4, <3>1, <3>2, <3>5, <4>1, UpWrites DEF Ordered
    <3>7. DownLane'
      BY <1>0, <2>1, <3>1, <3>3, <3>5 DEF Ordered, DownLane
    <3>8. Counters'
      BY <1>0, <1>8, <2>1, <2>2, <3>4 DEF Ordered, Counters
    <3>9. QED
      BY <1>8, <1>9, <2>2, <2>3, <3>6, <3>7, <3>8 DEF Ordered
  <2>7. QED
    BY <2>5, <2>6
<1>12. QED
  BY <1>10, <1>11

(* A step that touches neither a number nor a queue.                       *)
LEMMA StillStep ==
  ASSUME Ready, UNCHANGED <<net, backlog, m_client, s_client, m_rbuf, s_rbuf, m_app, s_app>>,
         acc'.tcp = acc.tcp, acc'.pc = "install" => acc.pc = "install",
         m_pc' = "parse" <=> m_pc = "parse", s_pc' = "parse" <=> s_pc = "parse",
         m'.init = m.init, m'.build_send = m.build_send, m'.build_recv = m.build_recv,
         m'.deal_send = m.deal_send, m'.deal_recv = m.deal_recv,
         s'.init = s.init, s'.build_send = s.build_send, s'.build_recv = s.build_recv
  PROVE  Ordered'
<1>0. Ordered
  BY DEF Ready
<1>1. \A c : Pending(c)' <=> Pending(c)
  BY DEF Pending
<1>2. /\ NextM' = NextM /\ NextS' = NextS /\ RecvS' = RecvS /\ Served' = Served
      /\ ToMaster' = ToMaster /\ ToSlave' = ToSlave
  BY DEF NextM, NextS, RecvS, Served, ToMaster, ToSlave
<1>3. DownSs' = DownSs /\ DownRs' = DownRs /\ DownAck' = DownAck /\ UpSs' = UpSs
  BY <1>2 DEF DownSs, DownRs, DownAck, UpSs
<1>4. MasterHand' /\ SlaveHand' /\ SlaveOpens'
  BY <1>0 DEF Ordered, MasterHand, SlaveHand, SlaveOpens
<1>5. MasterOpens'
  BY <1>0, <1>1 DEF Ordered, MasterOpens, Clean
<1>6. Acknowledged'
  BY <1>0, <1>1 DEF Ordered, Acknowledged
<1>7. DownLane' /\ UpLane' /\ Counters'
  BY <1>0, <1>2, <1>3 DEF Ordered, DownLane, UpLane, Counters
<1>8. QED
  BY <1>4, <1>5, <1>6, <1>7 DEF Ordered

LEMMA MasterOpenStep ==
  ASSUME Ready, TypeInv', NEW c \in Conns, MasterOpen(c), UNCHANGED <<s, s_pc, s_rbuf, s_app>>
  PROVE  Ordered'
<1>0. TypeInv /\ LinkInv /\ Ordered
  BY DEF Ready
<1>1. /\ m_pc = "state_machine" /\ m.init = "OPEN" /\ net[c] = Fresh
      /\ net' = [net EXCEPT ![c].mst = "open", ![c].up = <<UFrame("STARTDT")>>]
      /\ backlog' = Append(backlog, c) /\ m_client' = c
      /\ m' = [m EXCEPT !.init = "CONNECT", !.t_timer = 0]
      /\ m_pc' = "recv" /\ UNCHANGED <<s_client, acc, m_rbuf, m_app>>
  BY DEF MasterOpen
<1>2. /\ net'[c].up = <<UFrame("STARTDT")>> /\ net'[c].down = <<>>
      /\ \A d \in Conns : d # c => net'[d] = net[d]
  <2>1. DOMAIN net = Conns /\ DOMAIN net[c] = Fields /\ net[c].down = <<>>
    BY <1>0, <1>1 DEF LinkInv, Shaped, Fresh
  <2>2. QED
    BY <1>1, <2>1 DEF Fields
<1>3. /\ m'.init = "CONNECT" /\ m'.build_send = m.build_send /\ m'.build_recv = m.build_recv
      /\ m'.deal_send = m.deal_send /\ m'.deal_recv = m.deal_recv
  BY <1>0, <1>1 DEF TypeInv, MasterTypes, MasterTypeOK, MasterStation
<1>4. c # s_client /\ c # NoConn
  <2>1. net[c].slv = "none"
    BY <1>1 DEF Fresh
  <2>2. QED
    BY <1>0, <2>1, Pointers, LinkAssumption
<1>5. ~Served' /\ m_client' # NoConn
  BY <1>1, <1>4 DEF Served
<1>6. \A d \in Conns : Pending(d)' => d = c \/ Pending(d)
  <2>1. Len(backlog) \in Nat /\ backlog \in Seq(Conns)
    BY <1>0 DEF LinkInv
  <2>2. QED
    BY <1>1, <2>1 DEF Pending
<1>7. /\ \A hi : Acked(net'[c].up, hi)
      /\ \A k, lo, hi : Rising(net'[c].up, k, lo, hi)
  <2>1. Len(net'[c].up) = 1 /\ net'[c].up[1].f = "U"
    BY <1>2 DEF UFrame
  <2>2. QED
    BY <2>1 DEF Acked, Rising
<1>8. SlaveHand' /\ SlaveOpens' /\ NextS' = NextS /\ RecvS' = RecvS
  BY <1>0, <1>1, SlaveRests
<1>9. MasterHand'
  BY <1>0, <1>1, <1>3 DEF Ordered, MasterHand
<1>10. MasterOpens'
  BY <1>0, <1>1, <1>3, <1>5 DEF Ordered, MasterOpens, Clean
<1>11. Acknowledged'
  <2>1. \A d \in Conns : Pending(d)' => Acked(net'[d].up, 0)
    BY <1>0, <1>2, <1>6, <1>7 DEF Ordered, Acknowledged
  <2>2. s_client' # NoConn => Acked(net'[s_client'].up, s'.build_send)
    <3>1. s_client # NoConn => s_client \in Conns
      BY <1>0, Installed
    <3>2. QED
      BY <1>0, <1>1, <1>2, <1>4, <3>1 DEF Ordered, Acknowledged
  <2>3. QED
    BY <2>1, <2>2 DEF Acknowledged
<1>12. DownLane'
  <2>1. m_rbuf = <<>> /\ <<>> \o <<>> = <<>> /\ <<>> \in Seq(Frames)
    BY <1>0, <1>1, EmptySeq, ConcatEmptySeq DEF Ordered, MasterOpens
  <2>2. ToMaster' = <<>>
    BY <1>1, <1>2, <2>1 DEF ToMaster
  <2>3. QED
    BY <2>2, EmptyRises DEF DownLane
<1>13. UpLane'
  <2>1. net'[c].up \in Seq(Frames)
    BY QueuesTypedNext DEF QueuesOK
  <2>2. <<>> \o net'[c].up = net'[c].up
    BY <2>1, ConcatEmptySeq
  <2>3. ToSlave' = net'[c].up
    BY <1>1, <1>5, <2>2 DEF ToSlave
  <2>4. QED
    BY <1>7, <2>3 DEF UpLane
<1>14. Counters'
  BY <1>5 DEF Counters
<1>15. QED
  BY <1>8, <1>9, <1>10, <1>11, <1>12, <1>13, <1>14 DEF Ordered

LEMMA MasterRecvStep ==
  ASSUME Ready, MasterRecv, UNCHANGED <<s, s_pc, s_rbuf, s_app>>
  PROVE  Ordered'
<1>0. TypeInv /\ LinkInv /\ Ordered
  BY DEF Ready
<1>1. m_pc = "recv" /\ UNCHANGED <<backlog, m_client, s_client, acc, m, m_app>>
  BY DEF MasterRecv
<1>2. CASE UNCHANGED <<net, m_rbuf>> /\ m_pc' = "state_machine"
  BY <1>1, <1>2, StillStep
<1>3. ASSUME NEW k \in 1 .. Len(MasterInbox), m_pc' = "parse",
             m_rbuf' = SubSeq(MasterInbox, 1, k),
             net' = [net EXCEPT ![m_client].down = SubSeq(@, k + 1, Len(@))]
      PROVE  Ordered'
  <2>1. m_client # NoConn /\ m_client \in Conns /\ DOMAIN net = Conns /\ DOMAIN net[m_client] = Fields
    <3>1. m_client # NoConn
      BY <1>3 DEF MasterInbox
    <3>2. QED
      BY <1>0, <3>1 DEF LinkInv, Shaped, TypeInv, LinkTypes, Ends
  <2>2. MasterInbox = net[m_client].down /\ net[m_client].down \in Seq(Frames)
    BY <1>0, <2>1, QueuesTyped DEF MasterInbox, QueuesOK
  <2> DEFINE d == net[m_client].down
  <2>3. /\ net'[m_client].down = SubSeq(d, k + 1, Len(d)) /\ net'[m_client].up = net[m_client].up
        /\ \A c \in Conns : c # m_client => net'[c] = net[c]
    BY <1>3, <2>1 DEF Fields
  <2>4. ToMaster' = ToMaster
    <3>1. ToMaster' = SubSeq(d, 1, k) \o SubSeq(d, k + 1, Len(d))
      BY <1>1, <1>3, <2>2, <2>3 DEF ToMaster
    <3>2. m_rbuf = <<>>
      BY <1>0, <1>1 DEF Ordered, MasterOpens
    <3>3. ToMaster = d
      BY <2>2, <3>2, ConcatEmptySeq DEF ToMaster
    <3> HIDE DEF d
    <3>4. d \in Seq(Frames) /\ k \in 1 .. Len(d)
      BY <1>3, <2>2 DEF d
    <3>5. QED
      BY <3>1, <3>3, <3>4, ReadKeeps
  <2>5. /\ NextM' = NextM /\ NextS' = NextS /\ RecvS' = RecvS /\ Served' = Served
        /\ ToSlave' = ToSlave
    BY <1>1, <2>3 DEF NextM, NextS, RecvS, Served, ToSlave
  <2>6. DownSs' = DownSs /\ DownRs' = DownRs /\ DownAck' = DownAck /\ UpSs' = UpSs
    BY <1>1, <2>5 DEF DownSs, DownRs, DownAck, UpSs
  <2>7. \A c : Pending(c)' <=> Pending(c)
    BY <1>1 DEF Pending
  <2>8. MasterHand' /\ SlaveHand' /\ SlaveOpens'
    BY <1>0, <1>1 DEF Ordered, MasterHand, SlaveHand, SlaveOpens
  <2>9. MasterOpens'
    BY <1>0, <1>1, <1>3, <2>1, <2>7 DEF Ordered, MasterOpens, Clean
  <2>10. Acknowledged'
    <3>1. \A c \in Conns : net'[c].up = net[c].up
      BY <2>3
    <3>2. s_client # NoConn => s_client \in Conns
      BY <1>0, Installed
    <3>3. QED
      BY <1>0, <1>1, <2>7, <3>1, <3>2 DEF Ordered, Acknowledged
  <2>11. DownLane' /\ UpLane' /\ Counters'
    BY <1>0, <1>1, <2>4, <2>5, <2>6 DEF Ordered, DownLane, UpLane, Counters
  <2>12. QED
    BY <2>8, <2>9, <2>10, <2>11 DEF Ordered
<1>4. QED
  BY <1>2, <1>3 DEF MasterRecv

(* The first frame of the buffer is the first of the lane.                 *)
LEMMA HeadOfLane ==
  ASSUME NEW q \in Seq(Frames), NEW r \in Seq(Frames), q # <<>>
  PROVE  /\ q \o r \in Seq(Frames) /\ q \o r # <<>>
         /\ Head(q \o r) = Head(q) /\ Head(q) \in Frames
         /\ Tail(q) \in Seq(Frames) /\ Tail(q \o r) = Tail(q) \o r
<1> DEFINE t == q \o r
<1>1. /\ t \in Seq(Frames) /\ Len(t) = Len(q) + Len(r) /\ Len(q) \in Nat /\ Len(r) \in Nat /\ Len(q) > 0
      /\ \A i \in 1 .. Len(t) : t[i] = IF i <= Len(q) THEN q[i] ELSE r[i - Len(q)]
  BY ConcatProperties, LenProperties, EmptySeq
<1>2. /\ Tail(q) \in Seq(Frames) /\ Len(Tail(q)) = Len(q) - 1 /\ Head(q) = q[1] /\ q[1] \in Frames
      /\ \A i \in 1 .. Len(Tail(q)) : Tail(q)[i] = q[i + 1]
  BY <1>1, HeadTailProperties, LenProperties
<1> HIDE DEF t
<1>3. t # <<>>
  BY <1>1, EmptySeq
<1>4. /\ Tail(t) \in Seq(Frames) /\ Len(Tail(t)) = Len(t) - 1 /\ Head(t) = t[1]
      /\ \A i \in 1 .. Len(Tail(t)) : Tail(t)[i] = t[i + 1]
  BY <1>1, <1>3, HeadTailProperties, LenProperties
<1> DEFINE a == Tail(q)
           u == a \o r
<1>5. /\ u \in Seq(Frames) /\ Len(u) = Len(a) + Len(r)
      /\ \A i \in 1 .. Len(u) : u[i] = IF i <= Len(a) THEN a[i] ELSE r[i - Len(a)]
  BY <1>2, ConcatProperties, LenProperties
<1> HIDE DEF u
<1>6. \A i \in 1 .. Len(u) : Tail(t)[i] = u[i]
  <2> SUFFICES ASSUME NEW i \in 1 .. Len(u) PROVE Tail(t)[i] = u[i]
    OBVIOUS
  <2>1. /\ i \in 1 .. Len(Tail(t)) /\ i + 1 \in 1 .. Len(t)
        /\ i <= Len(a) <=> i + 1 <= Len(q)
        /\ i <= Len(a) => i \in 1 .. Len(a)
        /\ i - Len(a) = i + 1 - Len(q)
    BY <1>1, <1>2, <1>4, <1>5
  <2>2. Tail(t)[i] = IF i + 1 <= Len(q) THEN q[i + 1] ELSE r[i + 1 - Len(q)]
    BY <1>1, <1>4, <2>1
  <2>3. u[i] = IF i <= Len(a) THEN q[i + 1] ELSE r[i - Len(a)]
    BY <1>2, <1>5, <2>1
  <2>4. QED
    BY <2>1, <2>2, <2>3
<1>7. Len(Tail(t)) = Len(u)
  BY <1>1, <1>2, <1>4, <1>5
<1>8. Tail(t) = u
  BY <1>4, <1>5, <1>6, <1>7, SeqEqual
<1>9. Head(t) = Head(q)
  BY <1>1, <1>2, <1>4
<1>10. QED
  BY <1>1, <1>2, <1>3, <1>8, <1>9 DEF t, u

LEMMA AcknowledgesAtMost ==
  ASSUME NEW q, NEW rs \in Nat, NEW hi \in Int, Acknowledges(q, rs), rs <= hi, rs < SnMod
  PROVE  Acked(q, hi)
<1>1. rs \in Sn
  BY FrameAssumption DEF Sn
<1>2. rs % SnMod = rs
  BY <1>1, SmallMod
<1>3. QED
  BY <1>2 DEF Acknowledges, Acked

LEMMA AcknowledgesJust ==
  ASSUME NEW q, NEW rs \in Nat, Acknowledges(q, rs), rs < SnMod, NEW l \in Int, l <= rs
  PROVE  Rising(q, "rs", l, rs)
<1>1. rs \in Sn
  BY FrameAssumption DEF Sn
<1>2. rs % SnMod = rs
  BY <1>1, SmallMod
<1>3. \A i \in 1 .. Len(q) : q[i].f = "I" => q[i].rs = rs
  BY <1>2 DEF Acknowledges
<1>4. QED
  BY <1>3 DEF Rising

LEMMA MasterParseStep ==
  ASSUME Ready, TypeInv', Orderly, MasterParse, UNCHANGED <<s, s_pc, s_rbuf, s_app>>
  PROVE  Ordered'
<1> DEFINE fr == Head(m_rbuf)
           w == iec104_m_frame_parse(MWork, fr)
           q == w.out
           dealt == fr.f = "I" /\ fr.own
<1>0. TypeInv /\ LinkInv /\ CmdInv /\ Ordered /\ InRange
  BY RangeHolds DEF Ready, Ordered
<1>1. /\ m_pc = "parse" /\ m_rbuf' = Tail(m_rbuf)
      /\ m_pc' = (IF Len(m_rbuf) = 1 THEN "state_machine" ELSE "parse")
      /\ MasterInstall(w) /\ UNCHANGED <<backlog, s_client, acc, m_app>>
  BY DEF MasterParse
<1>2. /\ m_client # NoConn /\ m_client \in Conns /\ ~Pending(m_client)
      /\ m_rbuf \in Seq(Frames) /\ m_rbuf # <<>> /\ net[m_client].down \in Seq(Frames)
      /\ m.init \notin {"INIT", "OPEN"}
  <2>1. m_client # NoConn /\ m.init \notin {"INIT", "OPEN"}
    BY <1>0, <1>1 DEF Ordered, MasterOpens
  <2>2. m_client \in Conns /\ m_rbuf \in Seq(Frames) /\ net[m_client].down \in Seq(Frames)
    BY <1>0, <2>1, QueuesTyped DEF QueuesOK
  <2>3. ~Pending(m_client)
    BY <1>0, <1>1, <2>2 DEF CmdInv, Queued
  <2>4. m_rbuf # <<>>
    BY <1>0, <1>1 DEF TypeInv, MasterTypes
  <2>5. QED
    BY <2>1, <2>2, <2>3, <2>4
<1>3. /\ ToMaster \in Seq(Frames) /\ ToMaster # <<>> /\ Head(ToMaster) = fr /\ fr \in Frames
      /\ Tail(m_rbuf) \o net[m_client].down = Tail(ToMaster)
  BY <1>2, HeadOfLane DEF ToMaster
<1> DEFINE r == ToMaster
<1>4. Rising(r, "ss", m.deal_send, DownSs) /\ Rising(r, "rs", m.deal_recv, DownRs) /\ Acked(r, DownAck)
  BY <1>0, <1>2 DEF Ordered, DownLane
<1>5. fr.f = "I" => /\ m.deal_send <= fr.ss /\ fr.ss <= DownSs /\ Rising(Tail(r), "ss", fr.ss, DownSs)
                    /\ m.deal_recv <= fr.rs /\ fr.rs <= DownRs /\ Rising(Tail(r), "rs", fr.rs, DownRs)
  BY <1>3, <1>4, RisingHead
<1>6. /\ Rising(Tail(r), "ss", m.deal_send, DownSs) /\ Rising(Tail(r), "rs", m.deal_recv, DownRs)
      /\ Acked(Tail(r), DownAck)
  BY <1>3, <1>4, RisingTail
<1>7. /\ w.close = FALSE /\ w.st.init \in {m.init, "CONNECT_OK", "DISCONNECT"}
      /\ IF fr.f = "I" /\ fr.own /\ SnAccepted(m, fr)
         THEN w.st.deal_send = fr.ss /\ w.st.deal_recv = fr.rs /\ w.st.build_recv = fr.ss + 1
         ELSE /\ w.st.deal_send = m.deal_send /\ w.st.deal_recv = m.deal_recv
              /\ w.st.build_recv = m.build_recv
      /\ q \in Seq(Frames) /\ Acknowledges(q, w.st.build_recv)
      /\ Consecutive(q, m.build_send, w.st.build_send)
      /\ Numbered(q, Len(q)) < SnMod
  <2>1. MWorkOK(MWork) /\ MWork.st = m /\ MWork.out = <<>> /\ MWork.close = FALSE
    BY <1>0, MasterReady
  <2>2. QED
    BY <1>3, <2>1, MasterParseNumbers, ZenonT(60)
<1>8. /\ m' = w.st /\ m_client' = m_client /\ net' = MasterSent(net, m_client, q)
  BY <1>1, <1>7 DEF MasterInstall
<1>9. /\ fr.f = "I" => fr.ss \in Sn /\ fr.rs \in Sn
      /\ \A x \in Sn : x \in Int /\ x >= 0 /\ x < SnMod
      /\ SnMod \in Nat
  BY <1>3, FrameNumbers, FrameAssumption DEF Sn
<1>10. /\ m.deal_send \in Int /\ m.deal_recv \in Int /\ m.build_recv \in Int /\ m.build_send \in Sn
       /\ DownSs \in Int /\ DownRs \in Int /\ DownAck \in Int /\ NextM \in Sn /\ NextS \in Sn
       /\ s.build_send \in Sn /\ NextS <= s.build_send
  BY <1>0, SnRange DEF InRange
<1> HIDE DEF w, fr, r
<1>11. /\ m'.deal_send = (IF dealt THEN fr.ss ELSE m.deal_send)
       /\ m'.deal_recv = (IF dealt THEN fr.rs ELSE m.deal_recv)
       /\ m'.build_recv = (IF dealt THEN fr.ss + 1 ELSE m.build_recv)
  <2>1. fr.f = "I" => fr.ss >= m.deal_send /\ fr.rs >= m.deal_recv
    BY <1>5, <1>9, <1>10
  <2>2. dealt <=> fr.f = "I" /\ fr.own /\ SnAccepted(m, fr)
    BY <2>1 DEF SnAccepted
  <2>3. QED
    BY <1>7, <1>8, <2>2
<1>12. /\ m'.build_recv = m'.deal_send + 1 /\ m.build_recv <= m'.build_recv
       /\ m'.deal_send \in Int /\ m'.deal_recv \in Int /\ m'.build_recv \in Int
       /\ m'.deal_send <= DownSs \/ m'.deal_send = m.deal_send
  <2>1. m.build_recv = m.deal_send + 1
    BY <1>0 DEF Ordered, MasterOpens
  <2>2. CASE dealt
    <3>1. fr.ss \in Int /\ fr.rs \in Int /\ m.deal_send <= fr.ss /\ fr.ss <= DownSs
      BY <1>5, <1>9, <2>2
    <3>2. m'.deal_send = fr.ss /\ m'.deal_recv = fr.rs /\ m'.build_recv = fr.ss + 1
      BY <1>11, <2>2
    <3> HIDE DEF dealt
    <3>3. QED
      BY <1>10, <2>1, <3>1, <3>2
  <2>3. CASE ~dealt
    BY <1>10, <1>11, <2>1, <2>3
  <2>4. QED
    BY <2>2, <2>3
<1>13. /\ Rising(q, "ss", m.build_send, m'.build_send - 1)
       /\ m'.build_send = m.build_send => \A i \in 1 .. Len(q) : q[i].f # "I"
       /\ m.build_send <= m'.build_send /\ m'.build_send \in Sn
  <2>1. m.build_send <= m'.build_send
    BY <1>2 DEF Orderly, MasterResets
  <2>2. Consecutive(q, m.build_send, m'.build_send)
    BY <1>7, <1>8
  <2>3. QED
    BY <1>7, <1>10, <2>1, <2>2, Unwrapped
<1>14. MasterHand'
  <2>1. m_app.pc \in {"idle", "put", "send"} /\ m_app.rs \in Int
    BY <1>0 DEF TypeInv, MasterTypes, MasterTypeOK
  <2>2. m_app.pc # "idle" => m'.build_send = m.build_send
    BY <1>1 DEF Orderly
  <2>3. m_app.pc = "send" => m_app.rs <= m'.build_recv
    BY <1>0, <1>10, <1>12, <2>1 DEF Ordered, MasterHand
  <2>4. QED
    BY <1>0, <1>1, <2>1, <2>2, <2>3 DEF Ordered, MasterHand
<1>15. Rising(q, "ss", NextM, NextM' - 1) /\ NextM <= NextM'
  <2>1. CASE m_app.pc = "send"
    <3>1. m'.build_send = m.build_send
      BY <1>1, <2>1 DEF Orderly
    <3>2. NextM' = NextM
      BY <1>1, <2>1 DEF NextM
    <3>3. \A x \in Sn : x <= x
      BY <1>9
    <3>4. Rising(q, "ss", NextM, NextM' - 1)
      BY <1>13, <3>1, RisingNone
    <3>5. QED
      BY <1>10, <3>2, <3>3, <3>4
  <2>2. CASE m_app.pc # "send"
    <3>1. NextM = m.build_send /\ NextM' = m'.build_send
      BY <1>1, <2>2 DEF NextM
    <3>2. QED
      BY <1>13, <3>1
  <2>3. QED
    BY <2>1, <2>2
<1>16. SlaveHand' /\ SlaveOpens' /\ NextS' = NextS /\ RecvS' = RecvS
  BY <1>0, <1>1, SlaveRests
<1>17. InRange'
  BY <1>14, <1>16, RangeHoldsNext
<1>18. /\ net'[m_client].down = net[m_client].down
       /\ ToSlave' = ToSlave \/ ToSlave' = ToSlave \o q
  BY <1>0, <1>1, <1>2, <1>7, <1>8, MasterLanes
<1>19. ToMaster' = Tail(r) /\ Served' = Served
  BY <1>1, <1>3, <1>8, <1>18 DEF ToMaster, Served, r
<1>20. Served => m'.build_recv <= NextS /\ m'.deal_recv <= RecvS
  <2> SUFFICES ASSUME Served PROVE m'.build_recv <= NextS /\ m'.deal_recv <= RecvS
    OBVIOUS
  <2>1. DownSs = NextS - 1 /\ DownRs = RecvS /\ NextS \in Int
    BY <1>9, <1>10 DEF DownSs, DownRs
  <2>2. m.build_recv <= NextS /\ m.deal_recv <= RecvS
    BY <1>0 DEF Ordered, Counters
  <2>3. CASE dealt
    <3>1. /\ fr.ss <= DownSs /\ fr.rs <= RecvS /\ fr.ss \in Int
          /\ m'.build_recv = fr.ss + 1 /\ m'.deal_recv = fr.rs
      BY <1>5, <1>9, <1>11, <2>1, <2>3
    <3> HIDE DEF dealt
    <3>2. QED
      BY <2>1, <3>1
  <2>4. CASE ~dealt
    BY <1>11, <2>2, <2>4
  <2>5. QED
    BY <2>3, <2>4
<1>21. Acknowledged'
  <2>1. MasterWrote(q)
    BY <1>8 DEF MasterWrote
  <2>2. Served => Acked(q, s.build_send)
    <3> SUFFICES ASSUME Served PROVE Acked(q, s.build_send)
      OBVIOUS
    <3>1. m'.build_recv \in 0 .. SnMod /\ s.build_send \in Int /\ s.build_send < SnMod /\ NextS \in Int
      BY <1>9, <1>10, <1>17 DEF InRange
    <3>2. m'.build_recv \in Nat /\ m'.build_recv <= s.build_send /\ m'.build_recv < SnMod
      BY <1>9, <1>10, <1>20, <3>1
    <3>3. Acknowledges(q, m'.build_recv)
      BY <1>7, <1>8
    <3>4. QED
      BY <3>1, <3>2, <3>3, AcknowledgesAtMost
  <2>3. QED
    BY <1>0, <1>1, <1>2, <1>7, <2>1, <2>2, MasterAcked DEF Ordered
<1>22. DownSs' = DownSs /\ DownRs <= DownRs' /\ DownAck <= DownAck' /\ UpSs' = UpSs
  <2>1. DownSs' = DownSs /\ UpSs' = UpSs
    BY <1>16, <1>19 DEF DownSs, UpSs
  <2>2. \A x \in Int : x <= x
    OBVIOUS
  <2>3. CASE Served
    <3>1. DownRs' = DownRs /\ DownAck' = DownAck
      BY <1>16, <1>19, <2>3 DEF DownRs, DownAck
    <3>2. QED
      BY <1>10, <2>1, <2>2, <3>1
  <2>4. CASE ~Served
    <3>1. DownRs = m.build_send /\ DownRs' = m'.build_send /\ DownAck = m.build_send /\ DownAck' = m'.build_send
      BY <1>19, <2>4 DEF DownRs, DownAck
    <3>2. QED
      BY <1>13, <2>1, <3>1
  <2>5. QED
    BY <2>3, <2>4
<1>23. DownLane'
  <2> DEFINE u == Tail(r)
  <2>1. u \in Seq(Frames) /\ "ss" \in Kinds /\ "rs" \in Kinds
    BY <1>3, HeadTailProperties DEF Kinds, r
  <2>2. /\ Rising(u, "ss", m'.deal_send, DownSs) /\ Rising(u, "rs", m'.deal_recv, DownRs)
        /\ Acked(u, DownAck)
    BY <1>5, <1>6, <1>11
  <2>3. DownRs' \in Int /\ DownAck' \in Int
    BY <1>17 DEF InRange
  <2> HIDE DEF u
  <2>4. Rising(u, "rs", m'.deal_recv, DownRs')
    <3>1. m'.deal_recv <= m'.deal_recv
      BY <1>12
    <3>2. QED
      BY <1>10, <1>12, <1>22, <2>1, <2>2, <2>3, <3>1, RisingWider
  <2>5. Acked(u, DownAck')
    BY <1>10, <1>22, <2>1, <2>2, <2>3, AckedWider
  <2>6. QED
    BY <1>19, <1>22, <2>2, <2>4, <2>5 DEF DownLane, u
<1>24. UpLane'
  BY <1>0, <1>2, <1>7, <1>8, <1>15, <1>17, <1>18, <1>22, UpWrites DEF Ordered
<1>25. Counters'
  <2> SUFFICES ASSUME Served
               PROVE  /\ m'.build_recv <= NextS' /\ m'.deal_recv <= RecvS'
                      /\ RecvS' <= s'.build_recv /\ s'.build_recv <= NextM'
    BY <1>19 DEF Counters
  <2>1. RecvS <= s.build_recv /\ s.build_recv <= NextM
    BY <1>0 DEF Ordered, Counters
  <2>2. s.build_recv \in Int /\ NextM \in Int /\ NextM' \in Int
    BY <1>0, <1>17, SnRange DEF InRange
  <2>3. s.build_recv <= NextM'
    BY <1>15, <2>1, <2>2
  <2>4. QED
    BY <1>16, <1>20, <2>1, <2>3
<1>26. MasterOpens'
  <2>1. m'.init \notin {"INIT", "OPEN"}
    BY <1>2, <1>7, <1>8
  <2>2. ~Pending(m_client)'
    BY <1>1, <1>2, <1>8 DEF Pending
  <2>3. m_pc' # "parse" => m_rbuf' = <<>>
    <3>1. Len(m_rbuf) = 1 => Tail(m_rbuf) = <<>>
      BY <1>2, LastTaken
    <3>2. QED
      BY <1>1, <3>1
  <2>4. s_pc' # "parse" => s_rbuf' = <<>>
    BY <1>0 DEF Ordered, MasterOpens
  <2>5. QED
    BY <1>2, <1>8, <1>12, <2>1, <2>2, <2>3, <2>4 DEF MasterOpens
<1>27. QED
  BY <1>14, <1>16, <1>21, <1>23, <1>24, <1>25, <1>26 DEF Ordered

(* A number that is not smaller than the one it follows has not wrapped.   *)
LEMMA NextNumber ==
  ASSUME NEW b \in Sn, NEW e \in Sn, e = (b + 1) % SnMod, b <= e
  PROVE  e = b + 1
<1>1. SnMod \in Nat /\ SnMod > 1 /\ b \in Nat /\ b < SnMod /\ Sn = 0 .. SnMod - 1
  BY FrameAssumption DEF Sn
<1>2. CASE b + 1 < SnMod
  <2>1. b + 1 \in Sn
    BY <1>1, <1>2
  <2>2. QED
    BY <2>1, SmallMod
<1>3. CASE b + 1 = SnMod
  <2>1. (b + 1) \div SnMod \in Int /\ e \in Sn /\ 0 \in Sn
    BY <1>1, Division
  <2>2. b + 1 = SnMod * ((b + 1) \div SnMod) + e
    BY <1>1, Division
  <2>3. SnMod * ((b + 1) \div SnMod) + e = SnMod * 1 + 0
    BY <1>1, <1>3, <2>2
  <2>4. e = 0
    BY <2>1, <2>3, Remainder
  <2>5. QED
    BY <1>1, <1>3, <2>4
<1>4. QED
  BY <1>1, <1>2, <1>3

(* A step that writes nothing: an application thread takes its next        *)
(* number, or the slave starts anew while it serves nobody.                *)
LEMMA NumbersTaken ==
  ASSUME Ready, TypeInv',
         UNCHANGED <<net, backlog, m_client, s_client, m_pc, m_rbuf, s_rbuf>>,
         acc'.tcp = acc.tcp, s_pc' = "parse" <=> s_pc = "parse",
         m'.init = m.init, m'.build_recv = m.build_recv,
         m'.deal_send = m.deal_send, m'.deal_recv = m.deal_recv, m.build_send <= m'.build_send,
         s_client # NoConn => s'.build_recv = s.build_recv /\ s.build_send <= s'.build_send,
         MasterHand', SlaveHand', SlaveOpens', NextM' = NextM,
         Served => NextS' = NextS /\ RecvS' = RecvS
  PROVE  Ordered'
<1>0. TypeInv /\ LinkInv /\ Ordered /\ InRange /\ InRange'
  BY RangeHolds, RangeHoldsNext DEF Ready, Ordered
<1>1. \A c : Pending(c)' <=> Pending(c)
  BY DEF Pending
<1>2. Served' = Served /\ ToMaster' = ToMaster /\ ToSlave' = ToSlave
  BY DEF Served, ToMaster, ToSlave
<1>3. /\ DownSs' = DownSs /\ UpSs' = UpSs
      /\ DownRs' = DownRs \/ (DownRs = m.build_send /\ DownRs' = m'.build_send)
      /\ DownAck' = DownAck \/ (DownAck = m.build_send /\ DownAck' = m'.build_send)
  BY <1>2 DEF DownSs, UpSs, DownRs, DownAck, Served
<1>4. /\ m.deal_send \in Int /\ m.deal_recv \in Int /\ s.build_send \in Int /\ s'.build_send \in Int
      /\ DownSs \in Int /\ DownRs \in Int /\ DownAck \in Int
  BY <1>0, SnRange DEF InRange
<1>5. \A x \in Int : x <= x
  OBVIOUS
<1>6. MasterOpens'
  BY <1>0, <1>1 DEF Ordered, MasterOpens, Clean
<1>7. Acknowledged'
  <2>1. s_client # NoConn => Acked(net[s_client].up, s'.build_send)
    <3> SUFFICES ASSUME s_client # NoConn PROVE Acked(net[s_client].up, s'.build_send)
      OBVIOUS
    <3>1. net[s_client].up \in Seq(Frames)
      BY <1>0, Installed, QueuesTyped DEF QueuesOK
    <3>2. Acked(net[s_client].up, s.build_send)
      BY <1>0 DEF Ordered, Acknowledged
    <3>3. QED
      BY <1>4, <3>1, <3>2, AckedWider
  <2>2. QED
    BY <1>0, <1>1, <2>1 DEF Ordered, Acknowledged
<1>8. DownLane'
  <2>1. CASE m_client = NoConn
    BY <2>1 DEF DownLane
  <2>2. CASE m_client # NoConn
    <3>1. DownSs <= DownSs' /\ DownRs <= DownRs' /\ DownAck <= DownAck'
      BY <1>3, <1>4, <1>5
    <3>2. m'.deal_send <= m.deal_send /\ m'.deal_recv <= m.deal_recv
      BY <1>4, <1>5
    <3>3. QED
      BY <1>0, <1>2, <2>2, <3>1, <3>2, DownKept DEF Ordered
  <2>3. QED
    BY <2>1, <2>2
<1>9. UpLane' /\ Counters'
  BY <1>0, <1>2, <1>3 DEF Ordered, UpLane, Counters, Served
<1>10. QED
  BY <1>0, <1>6, <1>7, <1>8, <1>9 DEF Ordered

LEMMA CmdBeginStep ==
  ASSUME Ready, TypeInv', NEW op \in MasterOps, CmdBegin(op), UNCHANGED <<s, s_pc, s_rbuf, s_app>>
  PROVE  Ordered'
<1>0. Ordered /\ m.build_send \in Int /\ s.build_send \in Int
  BY SnRange DEF Ready, TypeInv, MasterTypes, MasterTypeOK, MasterStation, SlaveTypes, SlaveTypeOK, SlaveStation
<1>1. /\ m_app.pc = "idle" /\ m_app'.pc = "put" /\ m_app'.sn = m.build_send
      /\ UNCHANGED <<net, backlog, m_client, s_client, acc, m, m_pc, m_rbuf>>
  BY DEF CmdBegin, linkVars
<1>2. SlaveHand' /\ SlaveOpens' /\ NextS' = NextS /\ RecvS' = RecvS
  BY <1>0, <1>1, SlaveRests
<1>3. MasterHand' /\ NextM' = NextM
  BY <1>1 DEF MasterHand, NextM
<1>4. m.build_send <= m'.build_send /\ s.build_send <= s'.build_send
  BY <1>0, <1>1
<1>5. QED
  BY <1>1, <1>2, <1>3, <1>4, NumbersTaken

LEMMA CmdPutStep ==
  ASSUME Ready, TypeInv', Orderly, CmdPut, UNCHANGED <<s, s_pc, s_rbuf, s_app>>
  PROVE  Ordered'
<1>0. /\ Ordered /\ TypeInv /\ m.build_send \in Sn /\ s.build_send \in Int
      /\ m'.build_send \in Sn /\ m.build_recv \in 0 .. SnMod
  BY SnRange DEF Ready, TypeInv, MasterTypes, MasterTypeOK, MasterStation, SlaveTypes, SlaveTypeOK, SlaveStation
<1>1. /\ m_app.pc = "put" /\ UNCHANGED <<net, backlog, m_client, s_client, acc, m_pc, m_rbuf>>
      /\ m' = [m EXCEPT !.build_send = (m_app.sn + 1) % SnMod]
      /\ m_app' = [m_app EXCEPT !.pc = "send", !.rs = m.build_recv]
  BY DEF CmdPut, linkVars
<1>2. /\ m'.build_send = (m_app.sn + 1) % SnMod /\ m'.build_recv = m.build_recv /\ m'.init = m.init
      /\ m'.deal_send = m.deal_send /\ m'.deal_recv = m.deal_recv
  BY <1>0, <1>1 DEF TypeInv, MasterTypes, MasterTypeOK, MasterStation
<1>3. m_app'.pc = "send" /\ m_app'.sn = m_app.sn /\ m_app'.rs = m.build_recv
  BY <1>0, <1>1 DEF TypeInv, MasterTypes, MasterTypeOK
<1>4. m_app.sn = m.build_send
  BY <1>0, <1>1 DEF Ordered, MasterHand
<1>5. m.build_send <= m'.build_send
  BY <1>2 DEF Orderly, MasterResets
<1>6. m'.build_send = m.build_send + 1
  BY <1>0, <1>2, <1>4, <1>5, NextNumber
<1>7. MasterHand' /\ NextM' = NextM
  <2>1. m_app'.rs <= m'.build_recv
    BY <1>0, <1>2, <1>3
  <2>2. QED
    BY <1>1, <1>3, <1>4, <1>6, <2>1 DEF MasterHand, NextM
<1>8. SlaveHand' /\ SlaveOpens' /\ NextS' = NextS /\ RecvS' = RecvS
  BY <1>0, <1>1, SlaveRests
<1>9. s.build_send <= s'.build_send
  BY <1>0
<1>10. QED
  BY <1>1, <1>2, <1>5, <1>7, <1>8, <1>9, NumbersTaken

LEMMA CmdSendStep ==
  ASSUME Ready, TypeInv', CmdSend, UNCHANGED <<s, s_pc, s_rbuf, s_app>>
  PROVE  Ordered'
<1> DEFINE f == CmdFrame(m_app.op, m_app.sn, m_app.rs)
           q == <<f>>
<1>0. TypeInv /\ LinkInv /\ Ordered /\ InRange
  BY RangeHolds DEF Ready, Ordered
<1>1. /\ m_app.pc = "send" /\ m_app'.pc = "idle" /\ net' = MasterSent(net, m_client, q)
      /\ UNCHANGED <<backlog, m_client, s_client, acc, m, m_pc, m_rbuf>>
  BY DEF CmdSend, CmdIdle
<1>2. m_app.op \in MasterOps /\ m_app.sn \in Sn /\ m_app.rs \in 0 .. SnMod
  BY <1>0, <1>1 DEF TypeInv, MasterTypes, MasterTypeOK
<1>3. f \in Frames /\ f.f = "I" /\ f.ss = m_app.sn /\ f.rs = m_app.rs % SnMod
  <2>1. f \in Frames
    BY <1>2, CmdFrameOK
  <2>2. m_app.op \in {"call_all", "call_pulse", "yk0", "yk1", "yt"}
    BY <1>2, MasterAssumption
  <2>3. QED
    BY <2>1, <2>2 DEF CmdFrame, IFrame
<1>4. m.build_send = m_app.sn + 1 /\ m_app.rs <= m.build_recv
  BY <1>0, <1>1 DEF Ordered, MasterHand
<1> HIDE DEF f
<1>5. /\ q \in Seq(Frames) /\ Len(q) = 1 /\ q[1] = f
  BY <1>3
<1> HIDE DEF q
<1>6. /\ m_app.rs \in Nat /\ m.build_recv \in Nat /\ NextS \in Int /\ s.build_send \in Int
      /\ s.build_send < SnMod /\ SnMod \in Nat /\ SnMod > 1 /\ NextS <= s.build_send
      /\ m_app.sn \in Int /\ s.build_recv \in Int
  BY <1>0, <1>2, FrameAssumption DEF InRange, Sn
<1>7. ASSUME NEW hi \in Int, m.build_recv <= hi, hi < SnMod PROVE Acked(q, hi)
  <2>1. m_app.rs <= hi /\ m_app.rs < SnMod
    BY <1>4, <1>6, <1>7
  <2>2. Acknowledges(q, m_app.rs)
    BY <1>3, <1>5 DEF Acknowledges
  <2>3. QED
    BY <1>6, <2>1, <2>2, AcknowledgesAtMost
<1>8. MasterWrote(q)
  BY <1>1 DEF MasterWrote
<1>9. Served => Acked(q, s.build_send)
  <2> SUFFICES ASSUME Served PROVE Acked(q, s.build_send)
    OBVIOUS
  <2>1. m.build_recv <= NextS
    BY <1>0 DEF Ordered, Counters
  <2>2. m.build_recv <= s.build_send
    BY <1>6, <2>1
  <2>3. QED
    BY <1>6, <1>7, <2>2
<1>10. m_client # NoConn /\ Pending(m_client) => Acked(q, 0)
  <2> SUFFICES ASSUME m_client # NoConn, Pending(m_client) PROVE Acked(q, 0)
    OBVIOUS
  <2>1. m.build_recv = -1 + 1
    BY <1>0 DEF Ordered, MasterOpens, Clean
  <2>2. m.build_recv <= 0 /\ 0 < SnMod
    BY <1>6, <2>1
  <2>3. QED
    BY <1>7, <2>2
<1>11. Acknowledged'
  BY <1>0, <1>1, <1>5, <1>8, <1>9, <1>10, MasterAcked DEF Ordered
<1>12. SlaveHand' /\ SlaveOpens' /\ NextS' = NextS /\ RecvS' = RecvS
  BY <1>0, <1>1, SlaveRests
<1>13. MasterHand' /\ NextM = m_app.sn /\ NextM' = m_app.sn + 1
  BY <1>1, <1>4 DEF MasterHand, NextM
<1>14. InRange'
  BY <1>12, <1>13, RangeHoldsNext
<1>15. MasterOpens'
  <2>1. \A c : Pending(c)' <=> Pending(c)
    BY <1>1 DEF Pending
  <2>2. QED
    BY <1>0, <1>1, <2>1 DEF Ordered, MasterOpens, Clean
<1>16. CASE m_client = NoConn
  <2>1. DownLane' /\ UpLane' /\ Counters'
    BY <1>1, <1>16 DEF DownLane, UpLane, Counters, Served
  <2>2. QED
    BY <1>11, <1>12, <1>13, <1>15, <2>1 DEF Ordered
<1>17. CASE m_client # NoConn
  <2>1. /\ net'[m_client].down = net[m_client].down
        /\ ToSlave' = ToSlave \/ ToSlave' = ToSlave \o q
    BY <1>0, <1>1, <1>5, <1>17, MasterLanes
  <2>2. ToMaster' = ToMaster /\ Served' = Served
    BY <1>1, <2>1 DEF ToMaster, Served
  <2>3. DownSs' = DownSs /\ DownRs' = DownRs /\ DownAck' = DownAck /\ UpSs' = UpSs
    BY <1>1, <1>12, <2>2 DEF DownSs, DownRs, DownAck, UpSs
  <2>4. DownLane'
    BY <1>0, <1>1, <2>2, <2>3 DEF Ordered, DownLane
  <2>5. NextM <= NextM' /\ NextM' - 1 = NextM /\ NextM <= NextM
    BY <1>6, <1>13
  <2>6. Rising(q, "ss", NextM, NextM' - 1)
    BY <1>3, <1>5, <1>13, <2>5 DEF Rising
  <2>7. UpLane'
    BY <1>0, <1>1, <1>5, <1>14, <1>17, <2>1, <2>3, <2>5, <2>6, UpWrites DEF Ordered
  <2>8. Counters'
    <3>1. Served => s.build_recv <= NextM'
      <4>1. Served => s.build_recv <= m_app.sn
        BY <1>0, <1>13 DEF Ordered, Counters
      <4>2. QED
        BY <1>6, <1>13, <4>1
    <3>2. QED
      BY <1>0, <1>1, <1>12, <2>2, <3>1 DEF Ordered, Counters
  <2>9. QED
    BY <1>11, <1>12, <1>13, <1>15, <2>4, <2>7, <2>8 DEF Ordered
<1>18. QED
  BY <1>16, <1>17

LEMMA MasterOrder ==
  ASSUME Ready, TypeInv', Orderly, MasterStep
  PROVE  Ordered'
<1>1. UNCHANGED <<s, s_pc, s_rbuf, s_app>>
  BY DEF MasterStep, slaveVars
<1>2. MasterExec \/ MasterApp
  BY DEF MasterStep
<1>3. CASE MasterStateMachine
  BY <1>1, <1>3, MasterMachineStep
<1>4. CASE MasterOpenFails
  <2>1. /\ m_pc = "state_machine" /\ m_pc' = "recv"
        /\ UNCHANGED <<net, backlog, m_client, s_client, acc, m, m_rbuf, m_app>>
    BY <1>4 DEF MasterOpenFails, linkVars
  <2>2. QED
    BY <1>1, <2>1, StillStep
<1>5. CASE MasterRecv
  BY <1>1, <1>5, MasterRecvStep
<1>6. CASE MasterParse
  BY <1>1, <1>6, MasterParseStep
<1>7. CASE \E c \in Conns : MasterOpen(c)
  BY <1>1, <1>7, MasterOpenStep
<1>8. CASE CmdPut
  BY <1>1, <1>8, CmdPutStep
<1>9. CASE CmdSend
  BY <1>1, <1>9, CmdSendStep
<1>10. CASE \E op \in MasterOps : CmdBegin(op)
  BY <1>1, <1>10, CmdBeginStep
<1>11. QED
  BY <1>2, <1>3, <1>4, <1>5, <1>6, <1>7, <1>8, <1>9, <1>10 DEF MasterExec, MasterApp

-----------------------------------------------------------------------------
(* The steps of the slave.                                                 *)

(* The master's side of the invariant, in a step of the slave.             *)
LEMMA MasterRests ==
  ASSUME Ordered, UNCHANGED <<m, m_pc, m_rbuf, m_app, m_client>>
  PROVE  /\ MasterHand' /\ NextM' = NextM
         /\ (m_client # NoConn /\ Pending(m_client)' => Pending(m_client))
              /\ (s_pc' # "parse" => s_rbuf' = <<>>) => MasterOpens'
BY DEF Ordered, MasterHand, NextM, MasterOpens, Clean

(* The connection the slave serves is no other's.                          *)
LEMMA SlaveAcked ==
  ASSUME TypeInv, LinkInv, MasterLinked, Acknowledged, NEW q \in Seq(Frames), SlaveWrote(q),
         UNCHANGED <<backlog, acc>>, s_client # NoConn => s.build_send <= s'.build_send, InRange, InRange'
  PROVE  Acknowledged'
<1>1. \A c \in Conns : Pending(c)' => Acked(net'[c].up, 0)
  <2> SUFFICES ASSUME NEW c \in Conns, Pending(c)' PROVE Acked(net'[c].up, 0)
    OBVIOUS
  <2>1. Pending(c) /\ c # s_client
    BY Installed DEF Pending
  <2>2. net'[c] = net[c]
    BY <2>1, SlaveWroteEffect
  <2>3. QED
    BY <2>1, <2>2 DEF Acknowledged
<1>2. ASSUME s_client' # NoConn PROVE Acked(net'[s_client'].up, s'.build_send)
  <2>1. s_client' = s_client /\ s_client \in Conns /\ net'[s_client].up = net[s_client].up
    BY <1>2, Installed, SlaveWroteEffect
  <2>2. net[s_client].up \in Seq(Frames) /\ Acked(net[s_client].up, s.build_send)
    BY <1>2, <2>1, QueuesTyped DEF Acknowledged, QueuesOK
  <2>3. s.build_send \in Int /\ s'.build_send \in Int
    BY SnRange DEF InRange
  <2>4. QED
    BY <1>2, <2>1, <2>2, <2>3, AckedWider
<1>3. QED
  BY <1>1, <1>2 DEF Acknowledged

(* A step of the slave that writes what carries the lane on.               *)
LEMMA SlaveWrites ==
  ASSUME Ready, TypeInv', NEW q \in Seq(Frames), SlaveWrote(q),
         UNCHANGED <<backlog, m_client, acc, m, m_pc, m_rbuf, m_app>>,
         s_pc' # "parse" => s_rbuf' = <<>>,
         SlaveHand', SlaveOpens', UpLane', s.build_send <= s'.build_send,
         Served => /\ Rising(q, "ss", NextS, NextS' - 1) /\ Rising(q, "rs", RecvS, RecvS')
                   /\ Acked(q, s'.build_recv)
                   /\ NextS <= NextS' /\ RecvS <= RecvS' /\ RecvS' <= s'.build_recv
                   /\ s.build_recv <= s'.build_recv /\ s'.build_recv <= NextM
  PROVE  Ordered'
<1>0. TypeInv /\ LinkInv /\ MasterLinked /\ Ordered /\ InRange
  BY RangeHolds DEF Ready, Ordered
<1>1. Pending(m_client)' <=> Pending(m_client)
  BY DEF Pending
<1>2. MasterHand' /\ NextM' = NextM /\ MasterOpens'
  BY <1>0, <1>1, MasterRests
<1>3. InRange'
  BY <1>2, RangeHoldsNext
<1>4. Acknowledged'
  BY <1>0, <1>3, SlaveAcked DEF Ordered
<1>5. DownLane' /\ Counters'
  <2>1. CASE Served
    <3>1. ToMaster' = ToMaster \/ ToMaster' = ToMaster \o q
      <4>1. /\ m_client # NoConn /\ s_client = m_client /\ m_rbuf \in Seq(Frames)
            /\ net[m_client].down \in Seq(Frames)
        BY <1>0, <2>1, QueuesTyped DEF Served, QueuesOK
      <4>2. \/ net'[m_client].down = net[m_client].down
            \/ net'[m_client].down = net[m_client].down \o q
        BY <1>0, <4>1, SlaveWroteEffect
      <4> DEFINE a == m_rbuf
                 d == net[m_client].down
      <4>3. a \in Seq(Frames) /\ d \in Seq(Frames) /\ q \in Seq(Frames)
        BY <4>1
      <4> HIDE DEF a, d
      <4>4. a \o (d \o q) = (a \o d) \o q
        BY <4>3, Rejoined
      <4>5. QED
        BY <4>2, <4>4 DEF ToMaster, a, d
    <3>2. m.build_recv = m.deal_send + 1
      BY <1>0 DEF Ordered, MasterOpens
    <3>3. QED
      BY <1>0, <1>2, <1>3, <2>1, <3>1, <3>2, DownWrites DEF Ordered
  <2>2. CASE ~Served
    <3>1. ~Served'
      BY <1>0, <2>2, SlaveWroteEffect DEF Served
    <3>2. CASE m_client = NoConn
      BY <3>1, <3>2 DEF DownLane, Counters
    <3>3. CASE m_client # NoConn
      <4>1. m_client \in Conns /\ m_client # s_client
        BY <1>0, <2>2, <3>3, QueuesTyped DEF QueuesOK, Served
      <4>2. ToMaster' = ToMaster
        BY <1>0, <4>1, SlaveWroteEffect DEF ToMaster
      <4>3. DownSs' = DownSs /\ DownRs' = DownRs /\ DownAck' = DownAck
        BY <2>2, <3>1 DEF DownSs, DownRs, DownAck
      <4>4. QED
        BY <1>0, <3>1, <4>2, <4>3 DEF Ordered, DownLane, Counters
    <3>4. QED
      BY <3>2, <3>3
  <2>3. QED
    BY <2>1, <2>2
<1>6. QED
  BY <1>2, <1>4, <1>5 DEF Ordered

(* The exec thread numbers what it writes as the application thread does.  *)
LEMMA SlaveNumbers ==
  ASSUME InRange, NEW q \in Seq(Frames), UNCHANGED s_app,
         s_app.pc # "idle" => s'.build_send = s.build_send,
         SlaveHand, s_app.pc \in {"idle", "put", "send"},
         Acknowledges(q, s'.build_recv), Consecutive(q, s.build_send, s'.build_send),
         Numbered(q, Len(q)) < SnMod, s.build_send <= s'.build_send
  PROVE  /\ SlaveHand'
         /\ Rising(q, "ss", NextS, NextS' - 1) /\ NextS <= NextS'
         /\ RecvS <= s.build_recv /\ s.build_recv <= s'.build_recv
              /\ s'.build_recv \in Nat /\ s'.build_recv < SnMod =>
                /\ Rising(q, "rs", RecvS, RecvS') /\ Acked(q, s'.build_recv)
                /\ RecvS <= RecvS' /\ RecvS' <= s'.build_recv
<1>0. s.build_send \in Sn /\ NextS \in Int /\ RecvS \in Int /\ s.build_recv \in Int
  BY SnRange DEF InRange
<1>1. /\ Rising(q, "ss", s.build_send, s'.build_send - 1)
      /\ s'.build_send = s.build_send => \A i \in 1 .. Len(q) : q[i].f # "I"
  BY <1>0, Unwrapped
<1>2. SlaveHand'
  BY DEF SlaveHand
<1>3. CASE s_app.pc = "send"
  <2>1. NextS' = NextS /\ RecvS' = RecvS /\ s'.build_send = s.build_send
    BY <1>3 DEF NextS, RecvS
  <2>2. \A k, lo, hi : Rising(q, k, lo, hi)
    BY <1>1, <2>1, RisingNone
  <2>3. NextS <= NextS' /\ RecvS <= RecvS'
    BY <1>0, <2>1
  <2>4. ASSUME RecvS <= s.build_recv, s.build_recv <= s'.build_recv,
               s'.build_recv \in Nat, s'.build_recv < SnMod
        PROVE  Acked(q, s'.build_recv) /\ RecvS' <= s'.build_recv
    <3>1. RecvS' <= s'.build_recv /\ s'.build_recv <= s'.build_recv /\ s'.build_recv \in Int
      BY <1>0, <2>1, <2>4
    <3>2. QED
      BY <2>4, <3>1, AcknowledgesAtMost
  <2>5. QED
    BY <1>2, <2>2, <2>3, <2>4
<1>4. CASE s_app.pc # "send"
  <2>1. NextS = s.build_send /\ NextS' = s'.build_send /\ RecvS = s.build_recv /\ RecvS' = s'.build_recv
    BY <1>4 DEF NextS, RecvS
  <2>2. ASSUME RecvS <= s.build_recv, s.build_recv <= s'.build_recv,
               s'.build_recv \in Nat, s'.build_recv < SnMod
        PROVE  /\ Rising(q, "rs", RecvS, RecvS') /\ Acked(q, s'.build_recv)
               /\ RecvS <= RecvS' /\ RecvS' <= s'.build_recv
    <3>1. s'.build_recv <= s'.build_recv /\ s'.build_recv \in Int
      BY <2>2
    <3>2. Acked(q, s'.build_recv)
      BY <2>2, <3>1, AcknowledgesAtMost
    <3>3. Rising(q, "rs", s.build_recv, s'.build_recv)
      BY <1>0, <2>2, AcknowledgesJust
    <3>4. QED
      BY <2>1, <2>2, <3>1, <3>2, <3>3
  <2>3. QED
    BY <1>1, <1>2, <2>1, <2>2
<1>5. QED
  BY <1>3, <1>4

LEMMA NothingSent ==
  ASSUME TypeInv, s_client = NoConn \/ s_client \in Conns
  PROVE  SlaveSent(net, s_client, <<>>) = net
<1>1. CASE s_client = NoConn
  BY <1>1 DEF SlaveSent
<1>2. CASE s_client \in Conns
  <2> DEFINE r == net[s_client]
  <2>1. net \in [Conns -> ConnRecord] /\ r \in ConnRecord /\ r.down \in Seq(Frames)
    BY <1>2 DEF TypeInv, LinkTypes, NetOK, ConnRecord
  <2>2. r.down \o <<>> = r.down
    BY <2>1, ConcatEmptySeq
  <2>3. [r EXCEPT !.down = r.down] = r
    BY <2>1, Zenon DEF ConnRecord
  <2>4. [net EXCEPT ![s_client] = r] = net
    BY <1>2, <2>1
  <2>5. [net EXCEPT ![s_client].down = @ \o <<>>] = net
    BY <2>2, <2>3, <2>4
  <2>6. QED
    BY <2>5 DEF SlaveSent
<1>3. QED
  BY <1>1, <1>2

(* The slave reads no more of the master's lane than it did.               *)
LEMMA SlaveLeaves ==
  ASSUME TypeInv, LinkInv, MasterLinked, UpLane, NEW q \in Seq(Frames), SlaveWrote(q),
         UNCHANGED <<m_client, s_rbuf>>, s_rbuf = <<>>, NextM' = NextM,
         Served => s'.build_recv = s.build_recv
  PROVE  UpLane'
<1> SUFFICES ASSUME m_client # NoConn PROVE UpLane'
  BY DEF UpLane
<1>1. m_client \in Conns /\ net[m_client].up \in Seq(Frames) /\ <<>> \o <<>> = <<>>
  BY QueuesTyped, EmptySeq, ConcatEmptySeq DEF QueuesOK
<1>2. <<>> \o net[m_client].up = net[m_client].up
  BY <1>1, ConcatEmptySeq
<1>3. ToSlave = net[m_client].up /\ ToSlave' = <<>> \o net'[m_client].up
  BY <1>2 DEF ToSlave
<1>4. CASE net'[m_client].up = <<>>
  BY <1>1, <1>3, <1>4, EmptyRises DEF UpLane
<1>5. CASE net'[m_client].up = net[m_client].up /\ (Served' <=> Served)
  <2>1. ToSlave' = ToSlave /\ UpSs' = UpSs
    BY <1>2, <1>3, <1>5 DEF UpSs
  <2>2. QED
    BY <2>1 DEF UpLane
<1>6. CASE Served
  BY <1>1, <1>4, <1>5, <1>6, SlaveWroteEffect DEF Served
<1>7. CASE ~Served
  BY <1>1, <1>5, <1>7, SlaveWroteEffect DEF Served
<1>8. QED
  BY <1>6, <1>7

LEMMA SlaveMachineStep ==
  ASSUME Ready, TypeInv', Orderly, SlaveStateMachine, UNCHANGED <<m, m_pc, m_rbuf, m_app>>
  PROVE  Ordered'
<1> DEFINE x == iec104_s_state_machine(Work)
           q == x.out
<1>0. TypeInv /\ LinkInv /\ MasterLinked /\ CmdInv /\ Ordered /\ InRange
  BY RangeHolds DEF Ready, Ordered
<1>1. /\ s_pc = "state_machine" /\ s_pc' = "recv" /\ SlaveInstall(x)
      /\ UNCHANGED <<backlog, m_client, acc, s_rbuf, s_app>>
  BY DEF SlaveStateMachine
<1>2. WorkOK(Work) /\ Work.st = s /\ Work.out = <<>> /\ ~Work.close /\ s.init # "DISCONNECT"
  BY <1>0, WorkReady DEF CmdInv, Steady
<1>3. /\ s.init = "INIT" => /\ ~x.close /\ q = <<>> /\ x.st.init = "OPEN"
                            /\ x.st.build_send = 0 /\ x.st.build_recv = 0
      /\ s.init = "OPEN" => x.st.init = "OPEN" /\ x.st.build_send = s.build_send
      /\ s.init # "INIT" =>
           /\ x.st.build_recv = s.build_recv /\ Consecutive(q, s.build_send, x.st.build_send)
           /\ q \in Seq(Frames) /\ Acknowledges(q, s.build_recv) /\ Numbered(q, Len(q)) < SnMod
      /\ ~x.close => x.st.init # "INIT"
  BY <1>2, StateMachineEffect, MachineAnswer
<1>4. /\ s' = x.st /\ SlaveWrote(q)
      /\ s_client' = IF x.close THEN NoConn ELSE s_client
      /\ ~x.close => net' = SlaveSent(net, s_client, q)
  BY <1>1 DEF SlaveInstall, SlaveWrote
<1> HIDE DEF x
<1>5. SlaveOpens'
  <2>1. acc.pc = "install" => s'.init = "OPEN"
    BY <1>0, <1>3, <1>4 DEF Ordered, SlaveOpens
  <2>2. ~(s_client' # NoConn /\ s'.init = "INIT")
    BY <1>3, <1>4
  <2>3. acc.pc = "install" => s'.build_send = 0 /\ s'.build_recv = 0 /\ s_app.pc = "idle"
    BY <1>0, <1>3, <1>4 DEF Ordered, SlaveOpens
  <2>4. QED
    BY <1>1, <2>1, <2>2, <2>3 DEF SlaveOpens
<1>6. s_rbuf = <<>> /\ s_rbuf' = <<>> /\ s_pc # "parse" /\ s_pc' # "parse"
  BY <1>0, <1>1 DEF Ordered, MasterOpens
<1>7. s_app.pc \in {"idle", "put", "send"}
  BY <1>0 DEF TypeInv, SlaveTypes, SlaveTypeOK
<1>8. CASE s.init = "INIT"
  <2>1. s'.init = "OPEN" /\ s'.build_send = 0 /\ s'.build_recv = 0 /\ s_client' = s_client
    BY <1>3, <1>4, <1>8
  <2>2. net' = net
    <3>1. net' = SlaveSent(net, s_client, <<>>)
      BY <1>3, <1>4, <1>8
    <3>2. s_client = NoConn \/ s_client \in Conns
      BY <1>0, Pointers
    <3>3. QED
      BY <1>0, <3>1, <3>2, NothingSent
  <2>3. s_app.pc = "idle"
    BY <1>1, <1>8, <2>1 DEF Orderly, SlaveResets
  <2>4. SlaveHand'
    BY <1>1, <2>3 DEF SlaveHand
  <2>5. s_client # NoConn => /\ s'.build_recv = s.build_recv /\ s'.build_send = s.build_send
                             /\ s.build_send <= s'.build_send
    BY <1>0, <1>8, <2>1 DEF Ordered, SlaveOpens
  <2>6. Served => NextS' = NextS /\ RecvS' = RecvS
    BY <1>1, <2>3, <2>5 DEF Served, NextS, RecvS
  <2>7. MasterHand' /\ NextM' = NextM
    BY <1>0, <1>1, MasterRests
  <2>8. m.build_send <= m'.build_send
    BY <1>0, SnRange DEF InRange
  <2>9. QED
    BY <1>1, <1>5, <1>6, <2>1, <2>2, <2>4, <2>5, <2>6, <2>7, <2>8, NumbersTaken
<1>9. CASE s.init # "INIT"
  <2>1. /\ q \in Seq(Frames) /\ s'.build_recv = s.build_recv
        /\ Acknowledges(q, s'.build_recv) /\ Consecutive(q, s.build_send, s'.build_send)
        /\ Numbered(q, Len(q)) < SnMod
    BY <1>3, <1>4, <1>9
  <2>2. ~SlaveResets
    BY <1>1, <1>9 DEF SlaveResets
  <2>3. s.build_send <= s'.build_send /\ (s_app.pc # "idle" => s'.build_send = s.build_send)
    BY <1>1, <2>2 DEF Orderly
  <2>4. /\ SlaveHand'
        /\ Rising(q, "ss", NextS, NextS' - 1) /\ NextS <= NextS'
        /\ RecvS <= s.build_recv /\ s.build_recv <= s'.build_recv
             /\ s'.build_recv \in Nat /\ s'.build_recv < SnMod =>
               /\ Rising(q, "rs", RecvS, RecvS') /\ Acked(q, s'.build_recv)
               /\ RecvS <= RecvS' /\ RecvS' <= s'.build_recv
    BY <1>0, <1>1, <1>7, <2>1, <2>3, SlaveNumbers DEF Ordered
  <2>5. Served => /\ RecvS <= s.build_recv /\ s.build_recv <= s'.build_recv
                  /\ s'.build_recv \in Nat /\ s'.build_recv < SnMod /\ s'.build_recv <= NextM
    <3>1. s.build_recv \in Nat /\ NextM \in Int /\ NextM < SnMod /\ SnMod \in Int
      BY <1>0, FrameAssumption DEF InRange, Sn
    <3>2. Served => RecvS <= s.build_recv /\ s.build_recv <= NextM
      BY <1>0 DEF Ordered, Counters
    <3>3. QED
      BY <2>1, <3>1, <3>2
  <2>6. UpLane'
    <3>1. UpLane /\ NextM' = NextM
      BY <1>0, <1>1, MasterRests DEF Ordered
    <3>2. q \in Seq(Frames) /\ SlaveWrote(q) /\ UNCHANGED <<m_client, s_rbuf>>
      BY <1>1, <1>4, <2>1
    <3> HIDE DEF q
    <3>3. QED
      BY <1>0, <1>6, <2>1, <3>1, <3>2, SlaveLeaves
  <2>7. QED
    BY <1>1, <1>4, <1>5, <1>6, <2>1, <2>3, <2>4, <2>5, <2>6, SlaveWrites
<1>10. QED
  BY <1>8, <1>9

(* STARTDT changes no number.                                              *)
LEMMA StartKeepsNumbers ==
  ASSUME NEW w, WorkOK(w), NEW x \in iec104_s_frame_parse(w, STARTDT)
  PROVE  x.st.build_send = w.st.build_send
BY DEF STARTDT, UFrame, iec104_s_frame_parse, iec104_s_frame_u_parse, WorkOK, SlaveStation

LEMMA SlaveParseStep ==
  ASSUME AnswersFit, Ready, TypeInv', Orderly, SlaveParse, UNCHANGED <<m, m_pc, m_rbuf, m_app>>
  PROVE  Ordered'
<1> DEFINE fr == Head(s_rbuf)
           dealt == fr.f = "I" /\ fr.own
<1>0. TypeInv /\ LinkInv /\ MasterLinked /\ CmdInv /\ Ordered /\ InRange
  BY RangeHolds DEF Ready, Ordered
<1>1. PICK x \in iec104_s_frame_parse(Work, fr) : SlaveInstall(x)
  BY DEF SlaveParse
<1>2. /\ s_pc = "parse" /\ s_rbuf' = Tail(s_rbuf)
      /\ s_pc' = (IF Len(s_rbuf) = 1 THEN "state_machine" ELSE "parse")
      /\ UNCHANGED <<backlog, m_client, acc, s_app>>
  BY DEF SlaveParse
<1>3. s_rbuf \in Seq(Frames) /\ s_rbuf # <<>> /\ fr \in Frames /\ fr = s_rbuf[1]
  <2>1. s_rbuf \in Seq(Frames) /\ s_rbuf # <<>>
    BY <1>0, <1>2 DEF TypeInv, SlaveTypes, SlaveTypeOK
  <2>2. QED
    BY <2>1, HeadTailProperties
<1>4. fr # STOPDT
  <2>1. s_rbuf \in Seq(Asked(chosen))
    BY <1>0, <1>2 DEF CmdInv, Parsing
  <2>2. fr \in Asked(chosen)
    BY <1>3, <2>1, HeadTailProperties
  <2>3. QED
    BY <2>2 DEF Asked
<1> DEFINE q == x.out
<1> HIDE DEF fr
<1>5. /\ ~x.close /\ s' = x.st /\ q \in Seq(Frames)
      /\ fr = STARTDT => s'.init = "CONNECT_OK" /\ s'.build_send = s.build_send
      /\ fr # STARTDT => s'.init = s.init
      /\ s'.build_recv = IF dealt THEN fr.ss + 1 ELSE s.build_recv
      /\ Consecutive(q, s.build_send, s'.build_send)
      /\ Acknowledges(q, s'.build_recv) /\ Numbered(q, Len(q)) < SnMod
  <2>1. WorkOK(Work) /\ Work.st = s /\ Work.out = <<>> /\ ~Work.close
    BY <1>0, WorkReady
  <2>2. s' = x.st
    BY <1>1 DEF SlaveInstall
  <2>3. q \in Seq(Frames) /\ Acknowledges(q, s'.build_recv) /\ Numbered(q, Len(q)) < SnMod
    BY <1>1, <1>3, <2>1, <2>2, ParseAnswer
  <2>4. fr = STARTDT => s'.build_send = s.build_send
    BY <1>1, <2>1, <2>2, StartKeepsNumbers
  <2>5. QED
    BY <1>1, <1>3, <1>4, <2>1, <2>2, <2>3, <2>4, ParseEffect
<1>6. SlaveWrote(q) /\ s_client' = s_client
  BY <1>1, <1>5 DEF SlaveInstall, SlaveWrote
<1>7. s.init = "INIT" => fr = STARTDT \/ s_client = NoConn
  BY <1>0, <1>2, <1>3 DEF CmdInv, Unstarted
<1>8. SlaveOpens'
  <2>1. acc.pc # "install"
    BY <1>0, <1>2, Pointers DEF CmdInv, Orphaned
  <2>2. ~(s_client' # NoConn /\ s'.init = "INIT")
    BY <1>5, <1>6, <1>7
  <2>3. QED
    BY <1>2, <2>1, <2>2 DEF SlaveOpens
<1>9. s_pc' # "parse" => s_rbuf' = <<>>
  BY <1>2, <1>3, LastTaken
<1>10. s_app.pc \in {"idle", "put", "send"}
  BY <1>0 DEF TypeInv, SlaveTypes, SlaveTypeOK
<1>11. s.build_send <= s'.build_send /\ (s_app.pc # "idle" => s'.build_send = s.build_send)
  <2>1. SlaveResets => s'.build_send = s.build_send
    BY <1>2, <1>5 DEF SlaveResets
  <2>2. s.build_send <= s.build_send
    BY <1>0, SnRange DEF InRange
  <2>3. QED
    BY <1>2, <2>1, <2>2 DEF Orderly
<1>12. MasterHand' /\ NextM' = NextM
  BY <1>0, <1>2, MasterRests
<1>13. /\ s.build_recv \in Nat /\ NextM \in Int /\ NextM < SnMod /\ SnMod \in Int
       /\ fr.f = "I" => fr.ss \in Nat
       /\ UpSs \in Int
  BY <1>0, <1>3, FrameNumbers, FrameAssumption DEF InRange, Sn
<1>14. /\ SlaveHand'
       /\ Rising(q, "ss", NextS, NextS' - 1) /\ NextS <= NextS'
       /\ RecvS <= s.build_recv /\ s.build_recv <= s'.build_recv
            /\ s'.build_recv \in Nat /\ s'.build_recv < SnMod =>
              /\ Rising(q, "rs", RecvS, RecvS') /\ Acked(q, s'.build_recv)
              /\ RecvS <= RecvS' /\ RecvS' <= s'.build_recv
  BY <1>0, <1>2, <1>5, <1>10, <1>11, SlaveNumbers DEF Ordered
<1>15. InRange'
  BY <1>12, <1>14, RangeHoldsNext
<1>16. CASE ~Served
  <2>1. ~Served'
    BY <1>2, <1>6, <1>16 DEF Served
  <2>2. UpLane'
    <3> SUFFICES ASSUME m_client # NoConn PROVE UpLane'
      BY <1>2 DEF UpLane
    <3>1. m_client \in Conns /\ m_client # s_client
      BY <1>0, <1>16, QueuesTyped DEF QueuesOK, Served
    <3>2. ToSlave' = ToSlave /\ UpSs' = UpSs
      BY <1>0, <1>2, <1>5, <1>6, <1>16, <2>1, <3>1, SlaveWroteEffect DEF ToSlave, UpSs
    <3>3. QED
      BY <1>0, <1>12, <3>2 DEF Ordered, UpLane
  <2>3. QED
    BY <1>2, <1>5, <1>6, <1>8, <1>9, <1>11, <1>14, <1>16, <2>2, SlaveWrites
<1>17. CASE Served
  <2> DEFINE r == ToSlave
  <2>1. /\ m_client # NoConn /\ m_client \in Conns /\ s_client = m_client /\ Served'
        /\ net[m_client].up \in Seq(Frames)
    BY <1>0, <1>2, <1>6, <1>17, QueuesTyped DEF QueuesOK, Served
  <2>2. /\ r \in Seq(Frames) /\ r # <<>> /\ Head(r) = fr
        /\ Tail(s_rbuf) \o net[m_client].up = Tail(r)
    BY <1>3, <1>17, <2>1, HeadOfLane DEF ToSlave, fr
  <2>3. ToSlave' = Tail(r)
    <3>1. net'[m_client].up = net[m_client].up
      BY <1>0, <1>5, <1>6, <2>1, SlaveWroteEffect
    <3>2. QED
      BY <1>2, <2>1, <2>2, <3>1 DEF ToSlave
  <2>4. Rising(r, "ss", s.build_recv - 1, NextM - 1)
    BY <1>0, <1>17, <2>1 DEF Ordered, UpLane, UpSs
  <2>5. fr.f = "I" => /\ s.build_recv - 1 <= fr.ss /\ fr.ss <= NextM - 1
                      /\ Rising(Tail(r), "ss", fr.ss, NextM - 1)
    BY <2>2, <2>4, RisingHead
  <2>6. Rising(Tail(r), "ss", s.build_recv - 1, NextM - 1)
    BY <2>2, <2>4, RisingTail
  <2>7. s.build_recv <= NextM /\ RecvS <= s.build_recv
    BY <1>0, <1>17 DEF Ordered, Counters
  <2> HIDE DEF r
  <2>8. /\ s.build_recv <= s'.build_recv /\ s'.build_recv \in Nat
        /\ s'.build_recv <= NextM /\ s'.build_recv < SnMod
        /\ Rising(Tail(r), "ss", s'.build_recv - 1, NextM - 1)
    <3>1. CASE dealt
      <4>1. /\ fr.ss \in Nat /\ s'.build_recv = fr.ss + 1
            /\ s.build_recv - 1 <= fr.ss /\ fr.ss <= NextM - 1
            /\ Rising(Tail(r), "ss", fr.ss, NextM - 1)
        BY <1>5, <1>13, <2>5, <3>1
      <4> HIDE DEF dealt
      <4>2. s'.build_recv - 1 = fr.ss
        BY <4>1
      <4>3. QED
        BY <1>13, <4>1, <4>2
    <3>2. CASE ~dealt
      BY <1>5, <1>13, <2>6, <2>7, <3>2
    <3>3. QED
      BY <3>1, <3>2
  <2>9. UpLane'
    <3>1. UpSs' = s'.build_recv - 1
      BY <2>1 DEF UpSs
    <3>2. QED
      BY <1>12, <2>3, <2>8, <3>1 DEF UpLane
  <2>10. QED
    BY <1>2, <1>5, <1>6, <1>8, <1>9, <1>11, <1>14, <2>7, <2>8, <2>9, SlaveWrites
<1>18. QED
  BY <1>16, <1>17

LEMMA SlaveRecvStep ==
  ASSUME Ready, TypeInv', SlaveRecv, UNCHANGED <<m, m_pc, m_rbuf, m_app>>
  PROVE  Ordered'
<1>0. TypeInv /\ LinkInv /\ Ordered
  BY DEF Ready
<1>1. s_pc = "recv" /\ UNCHANGED <<backlog, m_client, s_client, acc, s, s_app>>
  BY DEF SlaveRecv
<1>2. CASE UNCHANGED <<net, s_rbuf>> /\ s_pc' = "state_machine"
  BY <1>1, <1>2, StillStep
<1>3. ASSUME NEW k \in 1 .. Len(SlaveInbox), s_pc' = "parse",
             s_rbuf' = SubSeq(SlaveInbox, 1, k),
             net' = [net EXCEPT ![s_client].up = SubSeq(@, k + 1, Len(@))]
      PROVE  Ordered'
  <2>1. s_client # NoConn /\ s_client \in Conns /\ DOMAIN net = Conns /\ DOMAIN net[s_client] = Fields
    <3>1. s_client # NoConn
      BY <1>3 DEF SlaveInbox
    <3>2. QED
      BY <1>0, <3>1 DEF LinkInv, Shaped, TypeInv, LinkTypes, Ends
  <2>2. SlaveInbox = net[s_client].up /\ net[s_client].up \in Seq(Frames)
    BY <1>0, <2>1, QueuesTyped DEF SlaveInbox, QueuesOK
  <2> DEFINE d == net[s_client].up
             v == SubSeq(d, k + 1, Len(d))
  <2>3. /\ net'[s_client].up = v /\ net'[s_client].down = net[s_client].down
        /\ \A c \in Conns : c # s_client => net'[c] = net[c]
    BY <1>3, <2>1 DEF Fields
  <2>4. SubSeq(d, 1, k) \o v = d
    <3> HIDE DEF d
    <3>1. d \in Seq(Frames) /\ k \in 1 .. Len(d)
      BY <1>3, <2>2 DEF d
    <3>2. QED
      BY <3>1, ReadKeeps
  <2>5. SubSeq(d, 1, k) \in Seq(Frames) /\ v \in Seq(Frames)
    <3>1. net'[s_client].up \in Seq(Frames) /\ s_rbuf' \in Seq(Frames)
      BY <2>1, QueuesTypedNext DEF QueuesOK
    <3>2. QED
      BY <1>3, <2>2, <2>3, <3>1
  <2> HIDE DEF v
  <2>6. /\ NextM' = NextM /\ NextS' = NextS /\ RecvS' = RecvS /\ Served' = Served
        /\ m_client # NoConn => m_client \in Conns /\ ToMaster' = ToMaster
    <3>1. m_client # NoConn => m_client \in Conns
      BY <1>0, QueuesTyped DEF QueuesOK
    <3>2. m_client # NoConn => net'[m_client].down = net[m_client].down
      BY <2>3, <3>1
    <3>3. QED
      BY <1>1, <3>1, <3>2 DEF NextM, NextS, RecvS, Served, ToMaster
  <2>7. m_client # NoConn => ToSlave' = ToSlave
    <3>1. CASE Served
      <4>1. s_rbuf = <<>> /\ s_client = m_client
        BY <1>0, <1>1, <3>1 DEF Ordered, MasterOpens, Served
      <4>2. ToSlave = d
        <5>1. ToSlave = <<>> \o d
          BY <3>1, <4>1 DEF ToSlave
        <5>2. QED
          BY <2>2, <5>1, ConcatEmptySeq
      <4>3. ToSlave' = SubSeq(d, 1, k) \o v
        BY <1>1, <1>3, <2>2, <2>3, <2>6, <3>1, <4>1 DEF ToSlave
      <4>4. QED
        BY <2>4, <4>2, <4>3
    <3>2. CASE ~Served
      BY <1>1, <2>3, <2>6, <3>2 DEF ToSlave, Served
    <3>3. QED
      BY <3>1, <3>2
  <2>8. DownSs' = DownSs /\ DownRs' = DownRs /\ DownAck' = DownAck /\ UpSs' = UpSs
    BY <1>1, <2>6 DEF DownSs, DownRs, DownAck, UpSs
  <2>9. \A c : Pending(c)' <=> Pending(c)
    BY <1>1 DEF Pending
  <2>10. MasterHand' /\ SlaveHand' /\ SlaveOpens'
    BY <1>0, <1>1 DEF Ordered, MasterHand, SlaveHand, SlaveOpens
  <2>11. MasterOpens'
    BY <1>0, <1>1, <1>3, <2>9 DEF Ordered, MasterOpens, Clean
  <2>12. Acknowledged'
    <3>1. \A c \in Conns : Pending(c) => c # s_client
      BY <1>0, Installed
    <3>2. Acked(v, s.build_send)
      <4>1. Acked(d, s.build_send)
        BY <1>0, <2>1 DEF Ordered, Acknowledged
      <4> HIDE DEF d
      <4>2. QED
        BY <2>4, <2>5, <4>1, ConcatParts
    <3>3. QED
      BY <1>0, <1>1, <2>3, <2>9, <3>1, <3>2 DEF Ordered, Acknowledged
  <2>13. DownLane' /\ UpLane' /\ Counters'
    BY <1>0, <1>1, <2>6, <2>7, <2>8 DEF Ordered, DownLane, UpLane, Counters
  <2>14. QED
    BY <2>10, <2>11, <2>12, <2>13 DEF Ordered
<1>4. QED
  BY <1>2, <1>3 DEF SlaveRecv

(* The accept thread takes a connection and closes the one it replaces.    *)
LEMMA AcceptClientStep ==
  ASSUME Ready, TypeInv', AcceptClient, UNCHANGED <<m, m_pc, m_rbuf, m_app>>
  PROVE  Ordered'
<1> DEFINE c == Head(backlog)
           n == [net EXCEPT ![c].slv = "open"]
<1>0. TypeInv /\ LinkInv /\ MasterLinked /\ Ordered /\ InRange
  BY RangeHolds DEF Ready, Ordered
<1>1. /\ acc.pc = "accept" /\ backlog # <<>>
      /\ acc' = [pc |-> IF s_client = NoConn THEN "conn" ELSE "sleep", tcp |-> c]
      /\ net' = SlaveClosed(n, s_client) /\ s_client' = NoConn /\ backlog' = Tail(backlog)
      /\ UNCHANGED <<m_client, s, s_pc, s_rbuf, s_app>>
  BY DEF AcceptClient, slaveVars
<1>2. /\ Len(backlog) \in Nat /\ 1 \in 1 .. Len(backlog) /\ c = backlog[1] /\ c \in Conns
      /\ Len(Tail(backlog)) = Len(backlog) - 1
      /\ \A i \in 1 .. Len(Tail(backlog)) : i + 1 \in 1 .. Len(backlog) /\ Tail(backlog)[i] = backlog[i + 1]
  BY <1>0, <1>1, HeadTailProperties, LenProperties, EmptySeq DEF LinkInv
<1> HIDE DEF c
<1>3. /\ DOMAIN net = Conns /\ \A d \in Conns : DOMAIN net[d] = Fields
      /\ s_client \in Conns \cup {NoConn} /\ NoConn \notin Conns
      /\ m_client # NoConn => m_client \in Conns /\ net[m_client].mst = "open"
  BY <1>0, LinkAssumption DEF LinkInv, Shaped, Held, MasterLinked, Ends
<1>4. /\ \A d \in Conns : /\ n[d].up = net[d].up /\ n[d].down = net[d].down
                          /\ n[d].mst = net[d].mst /\ DOMAIN n[d] = Fields
      /\ DOMAIN n = Conns
  BY <1>2, <1>3 DEF Fields
<1> HIDE DEF n
<1>5. /\ \A d \in Conns : d # s_client => net'[d].up = net[d].up /\ net'[d].down = net[d].down
      /\ s_client # NoConn /\ s_client = m_client =>
           net'[m_client].up = <<>> /\ net'[m_client].down = net[m_client].down
  <2>1. \A d \in Conns : d # s_client => net'[d] = n[d]
    BY <1>1, <1>3, <1>4, SlaveClosedEnds DEF Shaped
  <2>2. s_client # NoConn /\ s_client = m_client =>
          net'[m_client].up = <<>> /\ net'[m_client].down = n[m_client].down
    <3> SUFFICES ASSUME s_client # NoConn, s_client = m_client
                 PROVE  net'[m_client].up = <<>> /\ net'[m_client].down = n[m_client].down
      OBVIOUS
    <3>1. m_client \in Conns /\ n[m_client].mst = "open" /\ DOMAIN n[m_client] = Fields /\ DOMAIN n = Conns
      BY <1>3, <1>4
    <3>2. net' = [n EXCEPT ![m_client].slv = "closed", ![m_client].up = <<>>]
      BY <1>1, <3>1 DEF SlaveClosed
    <3>3. QED
      BY <3>1, <3>2 DEF Fields
  <2>3. QED
    BY <1>3, <1>4, <2>1, <2>2
<1>6. \A d : d # NoConn /\ Pending(d)' => Pending(d)
  BY <1>1, <1>2 DEF Pending
<1>7. acc'.pc \in {"conn", "sleep"} /\ ~Served'
  BY <1>1 DEF Served
<1>8. SlaveHand' /\ SlaveOpens' /\ NextS' = NextS /\ RecvS' = RecvS
  BY <1>0, <1>1, <1>7 DEF Ordered, SlaveHand, SlaveOpens, NextS, RecvS
<1>9. MasterHand' /\ NextM' = NextM /\ MasterOpens'
  <2>1. s_pc' # "parse" => s_rbuf' = <<>>
    BY <1>0, <1>1 DEF Ordered, MasterOpens
  <2>2. QED
    BY <1>0, <1>1, <1>6, <2>1, MasterRests
<1>10. InRange'
  BY <1>8, <1>9, RangeHoldsNext
<1>11. Acknowledged'
  <2>1. ASSUME NEW d \in Conns, Pending(d)' PROVE Acked(net'[d].up, 0)
    <3>1. Pending(d) /\ d # s_client
      BY <1>0, <1>3, <1>6, <2>1, Installed
    <3>2. QED
      BY <1>0, <1>5, <3>1 DEF Ordered, Acknowledged
  <2>2. QED
    BY <1>1, <2>1 DEF Acknowledged
<1>12. m_client # NoConn => ToMaster' = ToMaster
  BY <1>1, <1>3, <1>5 DEF ToMaster
<1>13. DownSs <= DownSs' /\ DownRs <= DownRs' /\ DownAck <= DownAck'
  <2>1. DownSs' = SnMod /\ DownRs' = m.build_send /\ DownAck' = m.build_send
    BY <1>7 DEF DownSs, DownRs, DownAck
  <2>2. /\ SnMod \in Int /\ m.build_send \in Int /\ NextS \in Int /\ NextS < SnMod
        /\ RecvS \in Int /\ s.build_recv \in Int /\ NextM \in Int /\ NextM <= m.build_send
    BY <1>0, FrameAssumption DEF InRange, Sn
  <2>3. CASE Served
    <3>1. DownSs = NextS - 1 /\ DownRs = RecvS /\ DownAck = s.build_recv
      BY <2>3 DEF DownSs, DownRs, DownAck
    <3>2. RecvS <= s.build_recv /\ s.build_recv <= NextM
      BY <1>0, <2>3 DEF Ordered, Counters
    <3>3. QED
      BY <2>1, <2>2, <3>1, <3>2
  <2>4. CASE ~Served
    <3>1. DownSs = SnMod /\ DownRs = m.build_send /\ DownAck = m.build_send
      BY <2>4 DEF DownSs, DownRs, DownAck
    <3>2. QED
      BY <2>1, <2>2, <3>1
  <2>5. QED
    BY <2>3, <2>4
<1>14. DownLane'
  <2>1. CASE m_client = NoConn
    BY <1>1, <2>1 DEF DownLane
  <2>2. CASE m_client # NoConn
    <3>1. m'.deal_send <= m.deal_send /\ m'.deal_recv <= m.deal_recv
      <4>1. m.deal_send \in Int /\ m.deal_recv \in Int
        BY <1>0, SnRange DEF InRange
      <4>2. QED
        BY <4>1
    <3>2. QED
      BY <1>0, <1>1, <1>10, <1>12, <1>13, <2>2, <3>1, DownKept DEF Ordered
  <2>3. QED
    BY <2>1, <2>2
<1>15. UpLane'
  <2> SUFFICES ASSUME m_client # NoConn PROVE UpLane'
    BY <1>1 DEF UpLane
  <2>1. ToSlave' = <<>> \o net'[m_client].up
    BY <1>1, <1>7 DEF ToSlave
  <2>2. CASE Served
    <3>1. net'[m_client].up = <<>> /\ <<>> \in Seq(Frames)
      BY <1>5, <2>2, EmptySeq DEF Served
    <3>2. ToSlave' = <<>>
      BY <2>1, <3>1, ConcatEmptySeq
    <3>3. QED
      BY <3>2, EmptyRises DEF UpLane
  <2>3. CASE ~Served
    <3>1. ToSlave' = ToSlave
      BY <1>1, <1>3, <1>5, <2>1, <2>3 DEF ToSlave, Served
    <3>2. UpSs' = UpSs
      BY <1>7, <2>3 DEF UpSs
    <3>3. QED
      BY <1>0, <1>9, <3>1, <3>2 DEF Ordered, UpLane
  <2>4. QED
    BY <2>2, <2>3
<1>16. QED
  BY <1>7, <1>8, <1>9, <1>11, <1>14, <1>15 DEF Ordered, Counters

LEMMA AcceptConnectedStep ==
  ASSUME Ready, TypeInv', Orderly, AcceptConnected, UNCHANGED <<m, m_pc, m_rbuf, m_app>>
  PROVE  Ordered'
<1>0. TypeInv /\ LinkInv /\ Ordered /\ InRange
  BY RangeHolds DEF Ready, Ordered
<1>1. /\ acc.pc = "conn" /\ s' = iec104_s_reset_param(s) /\ acc' = [acc EXCEPT !.pc = "install"]
      /\ UNCHANGED <<net, backlog, m_client, s_client, s_pc, s_rbuf, s_app>>
  BY DEF AcceptConnected
<1>2. acc'.pc = "install" /\ acc'.tcp = acc.tcp
  BY <1>0, <1>1 DEF LinkInv
<1>3. s'.init = "INIT" /\ s'.build_send = 0 /\ s'.build_recv = 0
  BY <1>0, <1>1 DEF iec104_s_reset_param, TypeInv, SlaveTypes, SlaveTypeOK, SlaveStation
<1>4. s_client = NoConn
  BY <1>0, <1>1, Pointers
<1>5. s_app.pc = "idle"
  BY <1>1, <1>2 DEF Orderly, SlaveResets
<1>6. SlaveHand' /\ SlaveOpens'
  BY <1>1, <1>3, <1>5 DEF SlaveHand, SlaveOpens
<1>7. MasterHand' /\ NextM' = NextM
  BY <1>0, <1>1, MasterRests
<1>8. m.build_send <= m'.build_send
  BY <1>0, SnRange DEF InRange
<1>9. ~Served
  BY <1>4 DEF Served
<1>10. QED
  BY <1>1, <1>2, <1>4, <1>6, <1>7, <1>8, <1>9, NumbersTaken

(* The new connection is served from its first frame on, by a slave whose  *)
(* numbers are at zero, to a master that has dealt with none.              *)
LEMMA AcceptInstallStep ==
  ASSUME Ready, TypeInv', AcceptInstall, UNCHANGED <<m, m_pc, m_rbuf, m_app>>
  PROVE  Ordered'
<1>0. TypeInv /\ LinkInv /\ CmdInv /\ Ordered /\ InRange
  BY RangeHolds DEF Ready, Ordered
<1>1. /\ acc.pc = "install" /\ s_client' = acc.tcp /\ acc' = [pc |-> "accept", tcp |-> NoConn]
      /\ UNCHANGED <<net, backlog, m_client, s, s_pc, s_rbuf, s_app>>
  BY DEF AcceptInstall, slaveVars
<1>2. s.build_send = 0 /\ s.build_recv = 0 /\ s_app.pc = "idle"
  BY <1>0, <1>1 DEF Ordered, SlaveOpens
<1>3. s_client = NoConn /\ acc.tcp # NoConn /\ acc.tcp \in Conns /\ NoConn \notin Conns
  BY <1>0, <1>1, Pointers, LinkAssumption DEF LinkInv, Held
<1>4. s_pc # "parse" /\ s_rbuf = <<>>
  BY <1>0, <1>1, <1>3 DEF CmdInv, Orphaned, Ordered, MasterOpens
<1>5. \A d : d # NoConn /\ Pending(d)' => Pending(d)
  BY <1>1 DEF Pending
<1>6. Pending(acc.tcp)
  BY DEF Pending
<1>7. SlaveHand' /\ SlaveOpens' /\ NextS = 0 /\ RecvS = 0 /\ NextS' = 0 /\ RecvS' = 0
  BY <1>1, <1>2 DEF SlaveHand, SlaveOpens, NextS, RecvS
<1>8. MasterHand' /\ NextM' = NextM /\ MasterOpens'
  <2>1. s_pc' # "parse" => s_rbuf' = <<>>
    BY <1>0, <1>1 DEF Ordered, MasterOpens
  <2>2. QED
    BY <1>0, <1>1, <1>5, <2>1, MasterRests
<1>9. InRange'
  BY <1>7, <1>8, RangeHoldsNext
<1>10. Acknowledged'
  <2>1. \A d \in Conns : Pending(d)' => Acked(net'[d].up, 0)
    BY <1>0, <1>1, <1>3, <1>5 DEF Ordered, Acknowledged
  <2>2. Acked(net'[s_client'].up, s'.build_send)
    BY <1>0, <1>1, <1>2, <1>3, <1>6 DEF Ordered, Acknowledged
  <2>3. QED
    BY <2>1, <2>2 DEF Acknowledged
<1>11. ~Served
  BY <1>3 DEF Served
<1>12. CASE ~Served'
  <2>1. ToMaster' = ToMaster /\ ToSlave' = ToSlave
    BY <1>1, <1>11, <1>12 DEF ToMaster, ToSlave
  <2>2. DownSs' = DownSs /\ DownRs' = DownRs /\ DownAck' = DownAck /\ UpSs' = UpSs
    BY <1>11, <1>12 DEF DownSs, DownRs, DownAck, UpSs
  <2>3. DownLane' /\ UpLane' /\ Counters'
    BY <1>0, <1>1, <1>8, <1>12, <2>1, <2>2 DEF Ordered, DownLane, UpLane, Counters
  <2>4. QED
    BY <1>7, <1>8, <1>10, <2>3 DEF Ordered
<1>13. CASE Served'
  <2>1. m_client # NoConn /\ m_client = acc.tcp /\ m_client \in Conns
    BY <1>1, <1>3, <1>13 DEF Served
  <2>2. m.deal_send = -1 /\ m.deal_recv = 0 /\ m.build_recv = m.deal_send + 1
    BY <1>0, <1>6, <2>1 DEF Ordered, MasterOpens, Clean
  <2>3. m_pc # "parse" /\ Len(net[m_client].down) = 0
    BY <1>0, <1>6, <2>1 DEF CmdInv, Queued, Waits
  <2>4. net[m_client].down \in Seq(Frames) /\ net[m_client].up \in Seq(Frames)
    BY <1>0, <2>1, QueuesTyped DEF QueuesOK
  <2>5. ToMaster' = <<>>
    <3>1. m_rbuf = <<>> /\ net[m_client].down = <<>>
      BY <1>0, <2>3, <2>4, EmptySeq DEF Ordered, MasterOpens
    <3>2. <<>> \o <<>> = <<>>
      BY <2>4, <3>1, ConcatEmptySeq
    <3>3. QED
      BY <1>1, <3>1, <3>2 DEF ToMaster
  <2>6. DownLane'
    BY <2>5, EmptyRises DEF DownLane
  <2>7. Counters'
    <3>1. m'.build_recv <= NextS' /\ m'.deal_recv <= RecvS' /\ RecvS' <= s'.build_recv
      BY <1>1, <1>2, <1>7, <2>2
    <3>2. s'.build_recv <= NextM'
      BY <1>0, <1>1, <1>2, <1>8, SnRange DEF InRange, Sn
    <3>3. QED
      BY <3>1, <3>2 DEF Counters
  <2>8. ToSlave' = ToSlave
    BY <1>1, <1>4, <1>11, <1>13 DEF ToSlave
  <2>9. UpSs' <= UpSs
    <3>1. UpSs' = s.build_recv - 1 /\ UpSs = 0
      BY <1>1, <1>11, <1>13 DEF UpSs
    <3>2. QED
      BY <1>2, <3>1
  <2>10. NextM <= NextM'
    BY <1>0, <1>8, SnRange DEF InRange
  <2>11. UpLane'
    BY <1>0, <1>1, <1>9, <2>1, <2>8, <2>9, <2>10, UpKept DEF Ordered
  <2>12. QED
    BY <1>7, <1>8, <1>10, <2>6, <2>7, <2>11 DEF Ordered
<1>14. QED
  BY <1>12, <1>13

LEMMA SponBeginStep ==
  ASSUME Ready, TypeInv', SponBegin, UNCHANGED <<m, m_pc, m_rbuf, m_app>>
  PROVE  Ordered'
<1>0. TypeInv /\ Ordered /\ InRange
  BY RangeHolds DEF Ready, Ordered
<1>1. /\ s_app.pc = "idle" /\ s.init = "IDLE" /\ s_app' = [s_app EXCEPT !.pc = "put", !.sn = s.build_send]
      /\ UNCHANGED <<net, backlog, m_client, s_client, acc, s, s_pc, s_rbuf>>
  BY DEF SponBegin, linkVars
<1>2. s_app'.pc = "put" /\ s_app'.sn = s.build_send
  BY <1>0, <1>1 DEF TypeInv, SlaveTypes, SlaveTypeOK
<1>3. SlaveHand' /\ NextS' = NextS /\ RecvS' = RecvS
  BY <1>1, <1>2 DEF SlaveHand, NextS, RecvS
<1>4. SlaveOpens'
  BY <1>0, <1>1 DEF Ordered, SlaveOpens
<1>5. MasterHand' /\ NextM' = NextM
  BY <1>0, <1>1, MasterRests
<1>6. m.build_send <= m'.build_send /\ s.build_send <= s'.build_send
  BY <1>0, <1>1, SnRange DEF InRange
<1>7. QED
  BY <1>1, <1>3, <1>4, <1>5, <1>6, NumbersTaken

LEMMA SponPutStep ==
  ASSUME Ready, TypeInv', Orderly, SponPut, UNCHANGED <<m, m_pc, m_rbuf, m_app>>
  PROVE  Ordered'
<1>0. TypeInv /\ Ordered /\ InRange
  BY RangeHolds DEF Ready, Ordered
<1>1. /\ s_app.pc = "put" /\ s' = [s EXCEPT !.build_send = (s_app.sn + 1) % SnMod]
      /\ UNCHANGED <<net, backlog, m_client, s_client, acc, s_pc, s_rbuf>>
  BY DEF SponPut, linkVars
<1>2. /\ s'.build_send = (s_app.sn + 1) % SnMod /\ s'.init = s.init /\ s'.build_recv = s.build_recv
      /\ s.build_send \in Sn /\ s'.build_send \in Sn
  <2>1. s \in SlaveStation /\ s' \in SlaveStation
    BY <1>0 DEF TypeInv, SlaveTypes, SlaveTypeOK
  <2>2. QED
    BY <1>1, <2>1 DEF SlaveStation
<1>3. PICK ty \in SponTypes :
        s_app' = [s_app EXCEPT !.pc = "send",
                    !.fr = IFrame(ty, "SPONT", FALSE, FALSE, 0, s_app.sn, s.build_recv)]
  BY DEF SponPut
<1>4. /\ s_app'.pc = "send" /\ s_app'.fr.f = "I"
      /\ s_app'.fr.ss = s_app.sn /\ s_app'.fr.rs = s.build_recv % SnMod
  BY <1>0, <1>3 DEF TypeInv, SlaveTypes, SlaveTypeOK, IFrame
<1>5. s_app.sn = s.build_send
  BY <1>0, <1>1 DEF Ordered, SlaveHand
<1>6. s.build_send <= s'.build_send
  BY <1>1, <1>2 DEF Orderly, SlaveResets
<1>7. s'.build_send = s.build_send + 1
  BY <1>2, <1>5, <1>6, NextNumber
<1>8. SlaveHand' /\ NextS' = NextS
  BY <1>1, <1>4, <1>5, <1>7 DEF SlaveHand, NextS
<1>9. Served => RecvS' = RecvS
  <2> SUFFICES ASSUME Served PROVE RecvS' = RecvS
    OBVIOUS
  <2>1. s.build_recv <= NextM /\ NextM \in Sn /\ s.build_recv \in 0 .. SnMod
    BY <1>0 DEF Ordered, Counters, InRange
  <2>2. s.build_recv \in Sn
    BY <2>1, FrameAssumption DEF Sn
  <2>3. QED
    BY <1>1, <1>4, <2>2, SmallMod DEF RecvS
<1>10. SlaveOpens'
  <2>1. acc.pc # "install" /\ ~(s_client # NoConn /\ s.init = "INIT")
    BY <1>0, <1>1 DEF Ordered, SlaveOpens
  <2>2. QED
    BY <1>1, <1>2, <2>1 DEF SlaveOpens
<1>11. MasterHand' /\ NextM' = NextM
  BY <1>0, <1>1, MasterRests
<1>12. m.build_send <= m'.build_send
  BY <1>0, SnRange DEF InRange
<1>13. QED
  BY <1>1, <1>2, <1>6, <1>8, <1>9, <1>10, <1>11, <1>12, NumbersTaken

LEMMA SponSendStep ==
  ASSUME Ready, TypeInv', SponSend, UNCHANGED <<m, m_pc, m_rbuf, m_app>>
  PROVE  Ordered'
<1> DEFINE f == s_app.fr
           q == <<f>>
<1>0. TypeInv /\ LinkInv /\ MasterLinked /\ Ordered /\ InRange
  BY RangeHolds DEF Ready, Ordered
<1>1. /\ s_app.pc = "send" /\ net' = SlaveSent(net, s_client, q) /\ s_app'.pc = "idle"
      /\ UNCHANGED <<backlog, m_client, s_client, acc, s, s_pc, s_rbuf>>
  BY DEF SponSend, AppIdle
<1>2. f \in Frames /\ f.f = "I" /\ s.build_send = f.ss + 1 /\ f.ss \in Sn /\ f.rs \in Sn
  <2>1. f \in Frames /\ f.f = "I" /\ s.build_send = f.ss + 1
    BY <1>0, <1>1 DEF TypeInv, SlaveTypes, SlaveTypeOK, Ordered, SlaveHand
  <2>2. QED
    BY <2>1, FrameNumbers
<1>3. NextS = f.ss /\ RecvS = f.rs /\ NextS' = s.build_send /\ RecvS' = s.build_recv
  BY <1>1 DEF NextS, RecvS
<1> HIDE DEF f
<1>4. q \in Seq(Frames) /\ Len(q) = 1 /\ q[1] = f
  BY <1>2
<1> HIDE DEF q
<1>5. SlaveWrote(q)
  BY <1>1 DEF SlaveWrote
<1>6. SlaveHand' /\ SlaveOpens'
  BY <1>0, <1>1 DEF Ordered, SlaveHand, SlaveOpens
<1>7. MasterHand' /\ NextM' = NextM /\ (s_pc' # "parse" => s_rbuf' = <<>>)
  BY <1>0, <1>1, MasterRests DEF Ordered, MasterOpens
<1>8. UpLane'
  <2> SUFFICES ASSUME m_client # NoConn PROVE UpLane'
    BY <1>1 DEF UpLane
  <2>1. m_client \in Conns
    BY <1>0, QueuesTyped DEF QueuesOK
  <2>2. net'[m_client].up = net[m_client].up
    BY <1>0, <1>1, <1>4, <1>5, <2>1, SlaveWroteEffect
  <2>3. ToSlave' = ToSlave /\ UpSs' = UpSs
    BY <1>1, <2>2 DEF ToSlave, UpSs, Served
  <2>4. QED
    BY <1>0, <1>7, <2>3 DEF Ordered, UpLane
<1>9. /\ f.ss \in Int /\ f.rs \in Int /\ s.build_send \in Int /\ s.build_recv \in Int
      /\ NextM \in Int
  BY <1>0, <1>2, SnRange DEF InRange
<1>10. Served => /\ Rising(q, "ss", NextS, NextS' - 1) /\ Rising(q, "rs", RecvS, RecvS')
                 /\ Acked(q, s'.build_recv)
                 /\ NextS <= NextS' /\ RecvS <= RecvS' /\ RecvS' <= s'.build_recv
                 /\ s.build_recv <= s'.build_recv /\ s'.build_recv <= NextM
  <2> SUFFICES ASSUME Served
               PROVE  /\ Rising(q, "ss", NextS, NextS' - 1) /\ Rising(q, "rs", RecvS, RecvS')
                      /\ Acked(q, s'.build_recv)
                      /\ NextS <= NextS' /\ RecvS <= RecvS' /\ RecvS' <= s'.build_recv
                      /\ s.build_recv <= s'.build_recv /\ s'.build_recv <= NextM
    OBVIOUS
  <2>1. f.rs <= s.build_recv /\ s.build_recv <= NextM
    BY <1>0, <1>3 DEF Ordered, Counters
  <2>2. s.build_send - 1 = f.ss /\ f.ss <= s.build_send /\ f.ss <= f.ss /\ f.rs <= f.rs
        /\ s.build_recv <= s.build_recv
    BY <1>2, <1>9
  <2>3. Rising(q, "ss", NextS, NextS' - 1)
    BY <1>3, <1>4, <2>2 DEF Rising
  <2>4. Rising(q, "rs", RecvS, RecvS')
    BY <1>3, <1>4, <2>1, <2>2 DEF Rising
  <2>5. Acked(q, s'.build_recv)
    BY <1>1, <1>4, <2>1 DEF Acked
  <2>6. QED
    BY <1>1, <1>3, <2>1, <2>2, <2>3, <2>4, <2>5
<1>11. s.build_send <= s'.build_send
  BY <1>1, <1>9
<1>12. QED
  BY <1>1, <1>4, <1>5, <1>6, <1>7, <1>8, <1>10, <1>11, SlaveWrites

LEMMA SlaveOrder ==
  ASSUME AnswersFit, Ready, TypeInv', Orderly, SlaveStep
  PROVE  Ordered'
<1>1. UNCHANGED <<m, m_pc, m_rbuf, m_app>>
  BY DEF SlaveStep, masterVars
<1>2. SlaveExec \/ SlaveAccept \/ SlaveApp
  BY DEF SlaveStep
<1>3. CASE SlaveStateMachine
  BY <1>1, <1>3, SlaveMachineStep
<1>4. CASE SlaveRecv
  BY <1>1, <1>4, SlaveRecvStep
<1>5. CASE SlaveParse
  BY <1>1, <1>5, SlaveParseStep
<1>6. CASE AcceptClient
  BY <1>1, <1>6, AcceptClientStep
<1>7. CASE AcceptWake
  <2>1. acc' = [acc EXCEPT !.pc = "conn"] /\ DOMAIN acc = {"pc", "tcp"}
    BY <1>7 DEF AcceptWake, Ready, LinkInv
  <2>2. acc'.tcp = acc.tcp /\ acc'.pc = "conn"
    BY <2>1
  <2>3. UNCHANGED <<net, backlog, m_client, s_client, s, s_pc, s_rbuf, s_app>>
    BY <1>7 DEF AcceptWake, slaveVars
  <2>4. QED
    BY <1>1, <2>2, <2>3, StillStep
<1>8. CASE AcceptConnected
  BY <1>1, <1>8, AcceptConnectedStep
<1>9. CASE AcceptInstall
  BY <1>1, <1>9, AcceptInstallStep
<1>10. CASE SponBegin
  BY <1>1, <1>10, SponBeginStep
<1>11. CASE SponPut
  BY <1>1, <1>11, SponPutStep
<1>12. CASE SponSend
  BY <1>1, <1>12, SponSendStep
<1>13. QED
  BY <1>2, <1>3, <1>4, <1>5, <1>6, <1>7, <1>8, <1>9, <1>10, <1>11, <1>12 DEF SlaveExec, SlaveAccept, SlaveApp

-----------------------------------------------------------------------------
(* The network and the clock.                                              *)

(* Of the frames on a connection that is cut only those read are left.     *)
LEMMA CutOrder ==
  ASSUME Ready, TypeInv', NEW c \in Conns, LinkCut(c),
         UNCHANGED <<m, m_pc, m_rbuf, m_app, s, s_pc, s_rbuf, s_app>>
  PROVE  Ordered'
<1>0. TypeInv /\ LinkInv /\ Ordered /\ InRange
  BY RangeHolds DEF Ready, Ordered
<1>1. /\ net[c].slv = "open"
      /\ net' = [net EXCEPT ![c].cut = TRUE, ![c].up = <<>>, ![c].down = <<>>]
      /\ UNCHANGED <<backlog, m_client, s_client, acc>>
  BY DEF LinkCut
<1>2. DOMAIN net = Conns /\ DOMAIN net[c] = Fields
  BY <1>0 DEF LinkInv, Shaped
<1>3. /\ \A d \in Conns : d # c => net'[d] = net[d]
      /\ net'[c].up = <<>> /\ net'[c].down = <<>> /\ net'[c].slv = net[c].slv
  BY <1>1, <1>2, Zenon DEF Fields
<1>4. \A d \in Conns : \A hi : Acked(net[d].up, hi) => Acked(net'[d].up, hi)
  BY <1>3, EmptyRises
<1>5. /\ MasterHand' /\ SlaveHand' /\ SlaveOpens'
      /\ NextM' = NextM /\ NextS' = NextS /\ RecvS' = RecvS /\ Served' = Served
  BY <1>0, <1>1 DEF Ordered, MasterHand, SlaveHand, SlaveOpens, NextM, NextS, RecvS, Served
<1>6. \A d : Pending(d)' => Pending(d)
  <2>1. \A d \in Conns : net'[d].slv = net[d].slv
    BY <1>3
  <2>2. QED
    BY <1>0, <1>1, <2>1 DEF Pending, TypeInv, LinkTypes, Ends
<1>7. MasterOpens'
  BY <1>0, <1>1, <1>6 DEF Ordered, MasterOpens, Clean
<1>8. Acknowledged'
  <2>1. s_client # NoConn => s_client \in Conns
    BY <1>0 DEF TypeInv, LinkTypes, Ends
  <2>2. QED
    BY <1>0, <1>1, <1>4, <1>6, <2>1 DEF Ordered, Acknowledged
<1>9. DownSs' = DownSs /\ DownRs' = DownRs /\ DownAck' = DownAck /\ UpSs' = UpSs /\ InRange'
  <2>1. DownSs' = DownSs /\ DownRs' = DownRs /\ DownAck' = DownAck /\ UpSs' = UpSs
    BY <1>1, <1>5 DEF DownSs, DownRs, DownAck, UpSs
  <2>2. InRange'
    BY <1>5, RangeHoldsNext
  <2>3. QED
    BY <2>1, <2>2
<1>10. Counters'
  BY <1>0, <1>1, <1>5 DEF Ordered, Counters
<1>11. CASE m_client = NoConn
  BY <1>0, <1>1, <1>5, <1>7, <1>8, <1>10, <1>11 DEF Ordered, DownLane, UpLane
<1>12. CASE m_client # NoConn
  <2> DEFINE a == IF Served THEN s_rbuf ELSE <<>>
  <2>1. /\ m_client \in Conns /\ m_rbuf \in Seq(Frames) /\ a \in Seq(Frames)
        /\ net[m_client].up \in Seq(Frames) /\ net[m_client].down \in Seq(Frames)
    BY <1>0, <1>12, QueuesTyped, EmptySeq DEF QueuesOK
  <2>2. \A r \in Seq(Frames) : r \o <<>> = r
    BY ConcatEmptySeq
  <2>3. /\ ToMaster = m_rbuf \o net[m_client].down /\ ToMaster' = m_rbuf \o net'[m_client].down
        /\ ToSlave = a \o net[m_client].up /\ ToSlave' = a \o net'[m_client].up
    BY <1>1, <1>5 DEF ToMaster, ToSlave
  <2> HIDE DEF a
  <2>4. ToMaster' = ToMaster \/ ToMaster' = m_rbuf
    BY <1>3, <2>1, <2>2, <2>3
  <2>5. ToSlave' = ToSlave \/ ToSlave' = a
    BY <1>3, <2>1, <2>2, <2>3
  <2>6. /\ \A k, lo, hi : Rising(ToMaster, k, lo, hi) => Rising(ToMaster', k, lo, hi)
        /\ \A hi : Acked(ToMaster, hi) => Acked(ToMaster', hi)
    BY <2>1, <2>3, <2>4, ConcatParts
  <2>7. \A k, lo, hi : Rising(ToSlave, k, lo, hi) => Rising(ToSlave', k, lo, hi)
    BY <2>1, <2>3, <2>5, ConcatParts
  <2>8. /\ m'.deal_send <= m.deal_send /\ m'.deal_recv <= m.deal_recv
        /\ DownSs <= DownSs' /\ DownRs <= DownRs' /\ DownAck <= DownAck'
        /\ UpSs' <= UpSs /\ NextM <= NextM'
    BY <1>0, <1>5, <1>9, SnRange DEF InRange
  <2>9. DownLane /\ UpLane /\ m_client' = m_client
    BY <1>0, <1>1 DEF Ordered
  <2>10. DownLane'
    BY <1>0, <1>9, <1>12, <2>6, <2>8, <2>9, DownKept
  <2>11. UpLane'
    BY <1>0, <1>9, <1>12, <2>7, <2>8, <2>9, UpKept
  <2>12. QED
    BY <1>5, <1>7, <1>8, <1>10, <2>10, <2>11 DEF Ordered
<1>13. QED
  BY <1>11, <1>12

LEMMA TickOrder ==
  ASSUME Ready, Tick
  PROVE  Ordered'
<1>1. /\ UNCHANGED <<net, backlog, m_client, s_client, acc, m_pc, m_rbuf, m_app, s_pc, s_rbuf, s_app>>
      /\ m' = MasterAged(m) /\ s' = SlaveAged(s)
  BY DEF Tick, linkVars
<1>2. /\ m'.init = m.init /\ m'.build_send = m.build_send /\ m'.build_recv = m.build_recv
      /\ m'.deal_send = m.deal_send /\ m'.deal_recv = m.deal_recv
  BY <1>1 DEF MasterAged, Ready, TypeInv, MasterTypes, MasterTypeOK, MasterStation
<1>3. s'.init = s.init /\ s'.build_send = s.build_send /\ s'.build_recv = s.build_recv
  BY <1>1 DEF SlaveAged, Ready, TypeInv, SlaveTypes, SlaveTypeOK, SlaveStation
<1>4. QED
  BY <1>1, <1>2, <1>3, StillStep

LEMMA OrderNext ==
  ASSUME AnswersFit, TypeInv, SocketInv, CmdInv, OrderInv, [Next]_vars
  PROVE  OrderInv'
<1>0. TypeInv'
  BY TypeNext
<1> SUFFICES ASSUME ~race', ~wrapped' PROVE Ordered'
  BY DEF OrderInv
<1>1. ASSUME Record PROVE Ready /\ Orderly
  <2>1. ~race /\ ~wrapped /\ Orderly
    BY <1>0, <1>1, OrderlySteps
  <2>2. QED
    BY <2>1 DEF OrderInv, Ready, SocketInv
<1>2. CASE MasterStep
  <2>1. Ready /\ Orderly
    BY <1>1, <1>2 DEF MasterStep
  <2>2. QED
    BY <1>0, <1>2, <2>1, MasterOrder
<1>3. CASE SlaveStep
  <2>1. Ready /\ Orderly
    BY <1>1, <1>3 DEF SlaveStep
  <2>2. QED
    BY <1>0, <1>3, <2>1, SlaveOrder
<1>4. CASE Cut
  <2>1. Ready /\ UNCHANGED <<m, m_pc, m_rbuf, m_app, s, s_pc, s_rbuf, s_app>>
    BY <1>1, <1>4 DEF Cut, masterVars, slaveVars
  <2>2. PICK c \in Conns : LinkCut(c)
    BY <1>4 DEF Cut
  <2>3. QED
    BY <1>0, <2>1, <2>2, CutOrder
<1>5. CASE Tick
  <2>1. Ready
    BY <1>1, <1>5 DEF Tick
  <2>2. QED
    BY <1>5, <2>1, TickOrder
<1>6. CASE UNCHANGED vars
  <2>1. UNCHANGED <<net, backlog, m_client, s_client, acc, m, m_pc, m_rbuf, m_app,
                    s, s_pc, s_rbuf, s_app, race, wrapped>>
    BY <1>6 DEF vars, linkVars, masterVars, slaveVars, histVars
  <2>2. Ready
    BY <2>1 DEF OrderInv, Ready, SocketInv
  <2>3. QED
    BY <2>1, <2>2, StillStep
<1>7. QED
  BY <1>2, <1>3, <1>4, <1>5, <1>6 DEF Next

LEMMA OrderStart == Init => OrderInv
<1> SUFFICES ASSUME Init PROVE Ordered
  BY DEF OrderInv
<1>1. /\ s_client = NoConn /\ m_client = NoConn /\ acc.pc = "accept" /\ backlog = <<>>
      /\ m_pc # "parse" /\ m_rbuf = <<>> /\ m_app.pc = "idle"
      /\ s_pc # "parse" /\ s_rbuf = <<>> /\ s_app.pc = "idle"
      /\ m.init = "INIT" /\ m.build_recv = 0 /\ m.deal_send = -1
  BY DEF Init, LinkInit, MasterInit, SlaveInit, AppIdle, CmdIdle
<1>2. \A c \in Conns : ~Pending(c)
  <2>1. acc.tcp = NoConn /\ Len(backlog) = 0
    BY <1>1 DEF Init, LinkInit
  <2>2. QED
    BY <2>1, LinkAssumption DEF Pending
<1>3. MasterHand /\ SlaveHand /\ SlaveOpens /\ MasterOpens
  BY <1>1 DEF MasterHand, SlaveHand, SlaveOpens, MasterOpens
<1>4. Acknowledged /\ DownLane /\ UpLane /\ Counters
  BY <1>1, <1>2 DEF Acknowledged, DownLane, UpLane, Counters, Served
<1>5. QED
  BY <1>3, <1>4 DEF Ordered

-----------------------------------------------------------------------------
(* What the invariant is for.                                              *)
LEMMA HealthyFrameTaken == TypeInv /\ OrderInv => RejectOnlyAfterRace
<1> SUFFICES ASSUME TypeInv, OrderInv, m_pc = "parse", Head(m_rbuf).f = "I", ~race, ~wrapped
             PROVE  SnAccepted(m, Head(m_rbuf))
  BY DEF RejectOnlyAfterRace
<1>1. Ordered /\ m_client # NoConn /\ InRange
  BY RangeHolds DEF OrderInv, Ordered, MasterOpens
<1> DEFINE fr == Head(m_rbuf)
           d == net[m_client].down
<1>2. m_rbuf \in Seq(Frames) /\ m_rbuf # <<>> /\ d \in Seq(Frames)
  BY <1>1, QueuesTyped DEF QueuesOK, TypeInv, MasterTypes
<1>3. /\ ToMaster \in Seq(Frames) /\ ToMaster # <<>> /\ Head(ToMaster) = fr /\ fr \in Frames
  BY <1>2, HeadOfLane DEF ToMaster
<1>4. Rising(ToMaster, "ss", m.deal_send, DownSs) /\ Rising(ToMaster, "rs", m.deal_recv, DownRs)
  BY <1>1 DEF Ordered, DownLane
<1> HIDE DEF fr, d
<1>5. Head(ToMaster).f = "I"
  BY <1>3 DEF fr
<1>6. m.deal_send <= fr.ss /\ m.deal_recv <= fr.rs
  BY <1>3, <1>4, <1>5, RisingHead
<1>7. fr.ss \in Int /\ fr.rs \in Int /\ m.deal_send \in Int /\ m.deal_recv \in Int
  BY <1>1, <1>3, <1>5, FrameNumbers, SnRange DEF InRange
<1>8. fr.ss >= m.deal_send /\ fr.rs >= m.deal_recv
  BY <1>6, <1>7
<1>9. QED
  BY <1>8 DEF SnAccepted, fr

LEMMA OnlySentAcknowledged == TypeInv /\ OrderInv => AckOnlySent
<1> SUFFICES ASSUME TypeInv, OrderInv, ~race, ~wrapped
             PROVE  /\ \A a \in Acks(MasterInbox) : a <= m.build_send
                    /\ \A a \in Acks(SlaveInbox) : a <= s.build_send
  BY DEF AckOnlySent
<1>1. Ordered /\ InRange
  BY RangeHolds DEF OrderInv, Ordered
<1>2. ASSUME NEW q, NEW hi, Acked(q, hi) PROVE \A a \in Acks(q) : a <= hi
  BY <1>2 DEF Acked, Acks
<1>3. Acked(<<>>, m.build_send) /\ Acked(<<>>, s.build_send)
  BY EmptyRises
<1>4. m_client # NoConn => Acked(net[m_client].down, m.build_send)
  <2> SUFFICES ASSUME m_client # NoConn PROVE Acked(net[m_client].down, m.build_send)
    OBVIOUS
  <2> DEFINE d == net[m_client].down
  <2>1. m_rbuf \in Seq(Frames) /\ d \in Seq(Frames)
    BY QueuesTyped DEF QueuesOK
  <2>2. Acked(m_rbuf \o d, DownAck)
    BY <1>1 DEF Ordered, DownLane, ToMaster
  <2>3. DownAck <= m.build_send
    <3>1. Served => s.build_recv <= NextM
      BY <1>1 DEF Ordered, Counters
    <3>2. /\ s.build_recv \in Int /\ NextM \in Int /\ m.build_send \in Int /\ NextM <= m.build_send
      BY <1>1, SnRange, FrameAssumption DEF InRange
    <3>3. QED
      BY <3>1, <3>2 DEF DownAck
  <2>4. DownAck \in Int /\ m.build_send \in Int
    BY <1>1, SnRange DEF InRange
  <2> HIDE DEF d
  <2>5. Acked(d, DownAck)
    BY <2>1, <2>2, ConcatParts
  <2>6. Acked(d, m.build_send)
    BY <2>1, <2>3, <2>4, <2>5, AckedWider
  <2>7. QED
    BY <2>6 DEF d
<1>5. s_client # NoConn => Acked(net[s_client].up, s.build_send)
  BY <1>1 DEF Ordered, Acknowledged
<1>6. Acked(MasterInbox, m.build_send) /\ Acked(SlaveInbox, s.build_send)
  BY <1>3, <1>4, <1>5 DEF MasterInbox, SlaveInbox
<1>7. QED
  BY <1>2, <1>6

LEMMA OrderKept ==
  SleepOutlastsParse /\ AnswersFit /\ TypeInv /\ SocketInv /\ CmdInv /\ OrderInv /\ [Next]_vars
    => (TypeInv /\ SocketInv /\ CmdInv /\ OrderInv)'
BY TypeNext, SocketNext, CmdNext, OrderNext

(* iec104_m_deal_sn turns down no frame of this slave, whatever is         *)
(* reported, called, cut and opened again, until an application thread is  *)
(* overtaken while it numbers a frame or a number wraps: proved for        *)
(* answers shorter than the period of the numbers, and while the accept    *)
(* callback's sleep outlasts the parsing of one recv_buf.                  *)
THEOREM HealthyFramesTaken ==
  SleepOutlastsParse /\ AnswersFit => (Spec => []RejectOnlyAfterRace)
<1>1. Init => TypeInv /\ SocketInv /\ CmdInv /\ OrderInv
  BY TypeStart, SocketStart, CmdStart, OrderStart
<1>2. SUFFICES ASSUME SleepOutlastsParse, AnswersFit PROVE Spec => []RejectOnlyAfterRace
  OBVIOUS
<1>3. /\ TypeInv /\ SocketInv /\ CmdInv /\ OrderInv /\ [Next]_vars
           => (TypeInv /\ SocketInv /\ CmdInv /\ OrderInv)'
  BY <1>2, OrderKept
<1>4. QED
  BY <1>1, <1>3, HealthyFrameTaken, PTL DEF Spec

(* Neither station finds in its socket an acknowledgement of a frame its   *)
(* peer's station has not sent on this connection, under the same          *)
(* hypotheses: what a replaced connection leaves in the buffers is never   *)
(* read with the numbers iec104_m/s_reset_param have started again.        *)
THEOREM AcksFollowSends ==
  SleepOutlastsParse /\ AnswersFit => (Spec => []AckOnlySent)
<1>1. Init => TypeInv /\ SocketInv /\ CmdInv /\ OrderInv
  BY TypeStart, SocketStart, CmdStart, OrderStart
<1>2. SUFFICES ASSUME SleepOutlastsParse, AnswersFit PROVE Spec => []AckOnlySent
  OBVIOUS
<1>3. /\ TypeInv /\ SocketInv /\ CmdInv /\ OrderInv /\ [Next]_vars
           => (TypeInv /\ SocketInv /\ CmdInv /\ OrderInv)'
  BY <1>2, OrderKept
<1>4. QED
  BY <1>1, <1>3, OnlySentAcknowledged, PTL DEF Spec

=============================================================================
