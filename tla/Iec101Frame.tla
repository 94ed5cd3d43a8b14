---------------------------- MODULE Iec101Frame ----------------------------
(***************************************************************************)
(* Frames, states and timers the IEC 101 master and slave share            *)
(* (iec101_base.h, iec10x_base.h), and the serial line between them: two   *)
(* queues of frames, on which noise may destroy a frame (its checksum or   *)
(* its end byte is then wrong and the receiver drops it).                  *)
(***************************************************************************)
EXTENDS Naturals, Sequences, FiniteSets

CONSTANTS YxFrames, YcnFrames, YcfFrames, YmFrames,  \* non-empty sub-lists of the node table
          MaxQ                                       \* bound: frames on the line, per direction

ASSUME LineAssumption ==
  /\ {YxFrames, YcnFrames, YcfFrames, YmFrames} \subseteq Nat
  /\ MaxQ \in Nat \ {0}

VARIABLES down,  \* frames from the master to the slave
          up     \* frames from the slave to the master

(* "ODD" stands for a value the switch of the machine has no case for: the *)
(* code stores states of one machine, or service events, in the field of   *)
(* another (IEC10X_CALL_ALL_FAILD is 4, CALL_PULSE_START is not a state of *)
(* callall, YK_CMD_SUCCESS none of yt).                                    *)
LinkStates == {"INIT", "OPEN", "CONNECT", "CONNECT_OK", "IDLE"}
CallStates == {"IDLE", "START", "CONFIRM", "YX", "YC", "YM", "SUCCESS", "FAILD", "ODD"}
CmdStates  == {"IDLE", "START", "CONFIRM", "EXEC", "SUCCESS", "FAILD", "ODD"}

(* The timers whose period has passed; storing the time removes one.       *)
Timers == {"init", "callall", "callpulse", "yt", "yk"}

(* What the object of a command may be: the point commanded, or bytes that *)
(* are not the command's.                                                  *)
Objects == {"point", "junk"}

Stations == [init : LinkStates, callall : CallStates, callpulse : CallStates,
             yt : CmdStates, yk : CmdStates, tack : {0, 1}, due : SUBSET Timers]

Fixed(fn) == [f |-> 10, fn |-> fn, ty |-> "none", cot |-> "none", sel |-> FALSE, obj |-> <<>>]
Asdu(ty, cot, sel, obj) ==
  [f |-> 68, fn |-> "DATA", ty |-> ty, cot |-> cot, sel |-> sel, obj |-> obj]

FixedFuncs == {"RESET_LINK", "REQ_LINK_STATUS", "REQ_USR_DATA_1", "REQ_USR_DATA_2",
               "RES_LINK_STATUS", "CONFIRM_ACK", "RES_USR_DATA_NACK"}
AsduTypes  == {"M_SP", "M_ME_NA", "M_ME_NC", "M_IT", "C_IC", "C_CI", "C_SC", "C_SE"}
Reasons    == {"SPONT", "REQCOGEN", "INTROGEN", "ACT", "ACTCON", "ACTTERM"}

IsFrame(fr) ==
  \/ \E fn \in FixedFuncs : fr = Fixed(fn)
  \/ /\ fr.f = 68 /\ fr.ty \in AsduTypes /\ fr.cot \in Reasons
     /\ fr.sel \in BOOLEAN /\ fr.obj \in Seq(Objects)

(* A work record: the station, what the handler sends, what it reports.    *)
Work(st) == [st |-> st, out |-> <<>>, ev |-> {}, set |-> <<>>]
Send(w, fr)   == [w EXCEPT !.out = Append(@, fr)]
Report(w, ev) == [w EXCEPT !.ev = @ \cup {ev}]
Expired(w, t) == t \in w.st.due
Restart(w, t) == [w EXCEPT !.st.due = @ \ {t}]

==============================================================================
