----------------------------- MODULE MCShmcache -----------------------------
(* Instances of the shared memory cache.  One process works long enough to   *)
(* fill, recycle and rearrange two stripings; three processes contend, die   *)
(* and recover with a few operations.                                        *)
EXTENDS Shmcache

MCEntrySize == <<2, 3, 4>>
Set(k, v) == [do |-> "set", key |-> k, val |-> v, ttl |-> 0]

(* Half full; full of keys; fragmented so that only rearranging helps.       *)
Half == <<Set(1, 3), Set(2, 2)>>
Full == [k \in 1..5 |-> Set(k, 1)]
Fragment(k) == <<Set(k, 1), Set(5, 2), [do |-> "delete", key |-> 5]>>
Fragmented == Fragment(1) \o Fragment(2) \o Fragment(3) \o Fragment(4)

Every == {"set", "delete", "ttl", "incr", "clear"}
Alone == [minseg |-> 1, procs |-> 1, keys |-> 5, ops |-> 2, crashes |-> 0, time |-> 2, ttls |-> {0},
          open |-> TRUE, calls |-> Every]
Together == [valid |-> TRUE, once |-> -1, ttl |-> 0, minseg |-> 1, keys |-> 1, crashes |-> 1, time |-> 1,
             ttls |-> {0}, past |-> <<>>]
MCConfigs ==
  {[valid |-> TRUE, once |-> -1, ttl |-> 0, past |-> Half, keys |-> 4, ops |-> 3, calls |-> {"set", "delete"}] @@ Alone,
   [valid |-> TRUE, once |-> 1, ttl |-> 0, past |-> Full] @@ Alone,
   [valid |-> FALSE, once |-> 1, ttl |-> 1, past |-> Full, ttls |-> {0, 1}] @@ Alone,
   [valid |-> FALSE, once |-> -1, ttl |-> 0, past |-> Fragmented, ttls |-> {0, 1}] @@ Alone,
   [minseg |-> 2, procs |-> 2, ops |-> 2, open |-> FALSE, calls |-> {"set", "destroy"}] @@ Together,
   [procs |-> 3, ops |-> 3, open |-> TRUE, calls |-> {"set"}] @@ Together}
=============================================================================
