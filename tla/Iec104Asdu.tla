------------------------------ MODULE Iec104Asdu ------------------------------
(***************************************************************************)
(* How node values travel: the loops of iec104_s_asdu_call_all and         *)
(* iec104_s_asdu_call_pulse cut a node list into frames (Sq = 1: one       *)
(* address, then the elements), wow_iec104_s_build_*_spon puts the changed *)
(* nodes into one frame (Sq = 0: an address with every element), and       *)
(* iec104_m_asdu_yx / _yc / _ym take the frames apart again.               *)
(*                                                                         *)
(* The value of the k-th node of the list is k.  A list holds nodes of one *)
(* data type, as wow_iec104_s_set_node_info sorts them.                    *)
(***************************************************************************)
EXTENDS Integers, Sequences

CONSTANTS Kinds,              \* node lists looked at
          YX_NODE_NUM,        \* IEC104X_YX_NODE_NUM
          Sizes,              \* lengths of the node list
          Bases,              \* address of its first node
          AddrMod             \* 2^16: DevNodeInfo_T.addr is a uint16_t

ASSUME AsduAssumption ==
  /\ Kinds \subseteq {"yx", "yc_n", "yc_f", "ym"}
  /\ YX_NODE_NUM \in Nat \ {0} /\ AddrMod \in Nat \ {0}
  /\ Sizes \subseteq Nat /\ Bases \subseteq Nat

VARIABLES kind,   \* which list
          tagged, \* value.time.year > 0: the changes carry a time stamp
          addr,   \* the addresses of its nodes, as wow_iec104_s_set_node_info stored them
          i,      \* the loop variable: nodes already sent
          sent,   \* frames on their way
          got     \* what val_cb of the master was given: <<address, value, Sq of its frame>>

vars == <<kind, tagged, addr, i, sent, got>>

(* A list with at most one hole in its addresses, after node h.            *)
NodeAddrs ==
  {a \in {[k \in 1 .. n |-> b + (k - 1) + (IF k > h THEN 1 ELSE 0)] :
             n \in Sizes, b \in Bases, h \in Sizes} :
     \A k \in 1 .. Len(a) : a[k] < AddrMod}

Init ==
  /\ kind \in Kinds /\ tagged \in BOOLEAN
  /\ addr \in NodeAddrs
  /\ i = 0 /\ sent = <<>> /\ got = <<>>

TypeOK ==
  /\ kind \in Kinds /\ tagged \in BOOLEAN
  /\ addr \in Seq(Nat)
  /\ i \in 0 .. Len(addr)
  /\ \A f \in 1 .. Len(sent) : sent[f] \in [sq : {0, 1}, tb : BOOLEAN, obj : Seq(Nat \X Nat)]
  /\ got \in Seq(Nat \X Nat \X {0, 1})

-----------------------------------------------------------------------------
(* iec104_s_build_yx / _yc / _ym: the address of node first, the elements  *)
(* of count nodes.                                                         *)
BuildSq1(first, count) ==
  [sq  |-> 1, tb |-> FALSE,
   obj |-> [k \in 1 .. count |-> <<addr[first], first + k - 1>>]]

(* count = (size-i)>NUM ? NUM : (size-i); every list uses IEC104X_YX_NODE_NUM. *)
BatchCount == IF Len(addr) - i > YX_NODE_NUM THEN YX_NODE_NUM ELSE Len(addr) - i

(* Variant: i advances by one node too few.                               *)
BuildBatchOverlap ==
  /\ i < Len(addr)
  /\ sent' = Append(sent, BuildSq1(i + 1, BatchCount))
  /\ i' = IF BatchCount = YX_NODE_NUM THEN i + BatchCount - 1 ELSE i + BatchCount
  /\ UNCHANGED <<kind, tagged, addr, got>>

(* One turn of the loop over the list.                                     *)
BuildBatch ==
  /\ i < Len(addr)
  /\ sent' = Append(sent, BuildSq1(i + 1, BatchCount))
  /\ i' = i + BatchCount
  /\ UNCHANGED <<kind, tagged, addr, got>>

(* wow_iec104_s_build_yx_spon / _yc_spon with the whole list; there is no  *)
(* such call for counters.                                                 *)
BuildSpon ==
  /\ kind # "ym" /\ i = 0 /\ addr # <<>>
  /\ sent' = <<[sq  |-> 0, tb |-> tagged,
                obj |-> [k \in 1 .. Len(addr) |-> <<addr[k], k>>]]>>
  /\ i' = Len(addr)
  /\ UNCHANGED <<kind, tagged, addr, got>>

(* The address under which the k-th object of a frame (from 0) is passed   *)
(* to val_cb: that of the first object plus k for Sq = 1, its own for      *)
(* Sq = 0, to which the normalized measurements add k as well.             *)
iec104_m_asdu_yx(fr, k) == fr.obj[k + 1][1] + (IF fr.sq = 1 THEN k ELSE 0)

iec104_m_asdu_yc(fr, k) ==
  fr.obj[k + 1][1] + (IF fr.sq = 1 \/ kind = "yc_n" THEN k ELSE 0)

iec104_m_asdu_ym(fr, k) == fr.obj[k + 1][1] + (IF fr.sq = 1 THEN k ELSE 0)

NodeAddr(fr, k) ==
  CASE kind = "yx"               -> iec104_m_asdu_yx(fr, k) % AddrMod
    [] kind \in {"yc_n", "yc_f"} -> iec104_m_asdu_yc(fr, k) % AddrMod
    [] kind = "ym"               -> iec104_m_asdu_ym(fr, k) % AddrMod

(* The types with a time stamp are accepted and ignored.                   *)
Decode ==
  /\ sent # <<>>
  /\ LET fr == Head(sent)
     IN  got' = IF fr.tb THEN got
                ELSE got \o [k \in 1 .. Len(fr.obj) |->
                                <<NodeAddr(fr, k - 1), fr.obj[k][2], fr.sq>>]
  /\ sent' = Tail(sent)
  /\ UNCHANGED <<kind, tagged, addr, i>>

Done == i = Len(addr) /\ sent = <<>> /\ UNCHANGED vars

(* The list goes out in answer to an interrogation or as one report of     *)
(* changes.                                                                *)
Next == BuildBatch \/ BuildSpon \/ Decode \/ Done

Spec == Init /\ [][Next]_vars

-----------------------------------------------------------------------------
(* The nodes reach the master in list order, none lost and none twice,     *)
(* also when the list does not divide into full frames.                    *)
InOrder == \A k \in 1 .. Len(got) : got[k][2] = k

(* All nodes have reached the master when nothing is left to send, but for *)
(* a report with time stamps, of which none does.                          *)
AllDelivered ==
  i = Len(addr) /\ sent = <<>> => Len(got) = Len(addr) \/ (tagged /\ got = <<>>)

(* The first node of the frame that carries node k.                        *)
FrameStart(k) == ((k - 1) \div YX_NODE_NUM) * YX_NODE_NUM + 1

(* In an interrogation a node is reported under its own address if the     *)
(* addresses of its frame have no hole before it: a hole elsewhere in the  *)
(* list does no harm.  Spontaneous indications and float measurements are  *)
(* always reported under their own.                                        *)
AddressRight ==
  \A k \in 1 .. Len(got) :
    (IF got[k][3] = 1
     THEN addr[k] = addr[FrameStart(k)] + k - FrameStart(k)
     ELSE kind # "yc_n") => got[k][1] = addr[k] % AddrMod

(* What the slave's loops cut up is what the master puts together, every   *)
(* node once, in order and under its own address.                          *)
NodesDelivered == TypeOK /\ InOrder /\ AllDelivered /\ AddressRight

==============================================================================
