------------------------------ MODULE MapCache ------------------------------
(* What the shared memory cache promises its users: a map from keys to the   *)
(* value last set, in which any key may be missing.  A call that sets a key  *)
(* may push other keys out; everything else can only make keys go.  No step  *)
(* gives a key a value but the one that the call being served gives it.      *)
EXTENDS Naturals

CONSTANTS Keys, Vals
VARIABLES map,        \* map[k]: the value of k, 0 when k is missing
          asked       \* the calls being served, chosen by the users

Shrinks(ks) == \A k \in ks : map'[k] \in {map[k], 0}

(* A behaviour may start from a cache that is in use.                        *)
Init == map \in [Keys -> Vals \cup {0}]

(* A value that has expired is still in the map, but an increment does not   *)
(* count from it.                                                            *)
Gives(o, k) == CASE o.do = "set" -> {o.val}
                 [] o.do = "incr" -> {map[k] + 1, 1}
                 [] OTHER -> {}

Set(o, k) == /\ o.do \in {"set", "incr"} /\ o.key = k
             /\ map' \in [Keys -> Vals \cup {0}] /\ map'[k] \in Gives(o, k)
             /\ Shrinks(Keys \ {k})
Lose == map' \in [Keys -> Vals \cup {0}] /\ Shrinks(Keys)

Next == Lose \/ \E o \in asked, k \in Keys : Set(o, k)
Spec == Init /\ [][Next]_map
=============================================================================
