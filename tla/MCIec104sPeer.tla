---------------------------- MODULE MCIec104sPeer ----------------------------
(* Instances of Iec104sPeer for TLC: connections are interchangeable.        *)
EXTENDS Iec104sPeer, TLC

Symmetry == Permutations(Conns)

(* Both interrogations and a clock command, with numbers that do not always *)
(* fit, and the unnumbered functions a master uses.                          *)
AnyFrames ==
  {UFrame("STARTDT"), UFrame("STOPDT"), UFrame("TESTER"), UFrame("TESTER_ACK"),
   IFrame("C_IC", "ACT", TRUE, FALSE, 1, 0, 0),
   IFrame("C_CI", "ACT", TRUE, FALSE, 1, 2, 0),
   IFrame("C_CS", "ACT", TRUE, FALSE, 0, 1, 0)}

ClockMoves == {-1, 0, 2}
NoMoves == {0}

FewFrames ==
  {UFrame("STARTDT"), UFrame("STOPDT"), IFrame("C_IC", "ACT", TRUE, FALSE, 1, 0, 0)}

==============================================================================
