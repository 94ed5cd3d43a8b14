------------------------------- MODULE Lists --------------------------------
(***************************************************************************)
(* The singly linked list of wow_slist.c and the list of strings built on  *)
(* it (wow_string_list.c).  A list is a record of its head, its tail, its  *)
(* count and the nodes in memory; a node that is freed leaves the memory   *)
(* and its address may be given out again.  An operation maps a list and   *)
(* its arguments to the list it leaves (st) and to what it returns (ret):  *)
(* 0 for success, a negative code for a failure, PARAM for the positive    *)
(* code that some of the argument checks return, NULL or a datum.          *)
(***************************************************************************)
EXTENDS Integers, Sequences, SequencesExt, FiniteSetsExt

NULL == 0
FAILED == -1
PARAM == 900

wow_slist_create == [head |-> NULL, tail |-> NULL, entries |-> 0, mem |-> <<>>]

RECURSIVE From(_, _)
From(l, n) == IF n = NULL THEN <<>> ELSE <<n>> \o From(l, l.mem[n].next)
\* The nodes a walk from the head meets, and the data they carry.
Chain(l) == From(l, l.head)
wow_slist_foreach(l) == [k \in DOMAIN Chain(l) |-> l.mem[Chain(l)[k]].data]

\* malloc: any address that is not in use will do; the least one is taken.
Fresh(l) == Min((1 .. Cardinality(DOMAIN l.mem) + 1) \ DOMAIN l.mem)
Put(l, n, d, next) == [x \in DOMAIN l.mem \cup {n} |-> IF x = n THEN [data |-> d, next |-> next] ELSE l.mem[x]]

Ret(l, r) == [st |-> l, ret |-> r]

InsertAfter(l, e, d) ==
  LET n == Fresh(l) IN
  Ret([l EXCEPT !.mem = [Put(l, n, d, l.mem[e].next) EXCEPT ![e].next = n],
                !.tail = IF l.mem[e].next = NULL THEN n ELSE @,
                !.entries = @ + 1], 0)

\* An index of 0 or less means the head, one past the count the tail; the
\* others put the new node behind the node that has this number, from 1.
wow_slist_insert_by_index(l, i, d) ==
  LET n == Fresh(l) IN
  CASE i <= 0 -> Ret([l EXCEPT !.mem = Put(l, n, d, l.head), !.head = n,
                               !.tail = IF @ = NULL THEN n ELSE @, !.entries = @ + 1], 0)
    [] i > l.entries ->
         Ret([l EXCEPT !.mem = IF l.tail = NULL THEN Put(l, n, d, NULL)
                               ELSE [Put(l, n, d, NULL) EXCEPT ![l.tail].next = n],
                       !.tail = n, !.head = IF @ = NULL THEN n ELSE @, !.entries = @ + 1], 0)
    [] OTHER -> IF i > Len(Chain(l)) THEN Ret(l, FAILED) ELSE InsertAfter(l, Chain(l)[i], d)

wow_slist_insert_head(l, d) == wow_slist_insert_by_index(l, 0, d)
wow_slist_insert_tail(l, d) == wow_slist_insert_by_index(l, l.entries, d)

\* The first node whose datum the callback accepts, as its place in the walk.
Match(l, P) == SelectInSeq(wow_slist_foreach(l), LAMBDA x : x \in P)

wow_slist_insert_by_match(l, P, d) ==
  IF Match(l, P) = 0 THEN Ret(l, FAILED) ELSE InsertAfter(l, Chain(l)[Match(l, P)], d)

wow_slist_peek_head(l) == IF l.head = NULL THEN NULL ELSE l.mem[l.head].data
wow_slist_peek_tail(l) == IF l.head = NULL THEN NULL ELSE l.mem[l.tail].data
wow_slist_peek_by_index(l, i) ==
  IF i \in 0 .. l.entries - 1 THEN wow_slist_foreach(l)[i + 1] ELSE NULL
wow_slist_peek_by_match(l, P) ==
  IF Match(l, P) = 0 THEN NULL ELSE wow_slist_foreach(l)[Match(l, P)]

\* Takes the k-th node of the walk out: what the three removals share.
UnlinkKeepsTail(l, k) ==
  LET c == Chain(l) n == c[k] rest == [x \in DOMAIN l.mem \ {n} |-> l.mem[x]] IN
  Ret([l EXCEPT !.head = IF k = 1 THEN l.mem[n].next ELSE @, !.entries = @ - 1,
                !.mem = IF k = 1 THEN rest ELSE [rest EXCEPT ![c[k - 1]].next = l.mem[n].next]], 0)
Unlink(l, k) ==
  LET c == Chain(l)
      n == c[k]
      prev == IF k = 1 THEN NULL ELSE c[k - 1]
      rest == [x \in DOMAIN l.mem \ {n} |-> l.mem[x]] IN
  Ret([l EXCEPT !.head = IF prev = NULL THEN l.mem[n].next ELSE @,
                !.tail = IF l.mem[n].next = NULL THEN prev ELSE @,
                !.mem = IF prev = NULL THEN rest ELSE [rest EXCEPT ![prev].next = l.mem[n].next],
                !.entries = @ - 1], 0)

wow_slist_remove_by_index(l, i) ==
  IF i \in 0 .. l.entries - 1 THEN Unlink(l, i + 1) ELSE Ret(l, PARAM)
wow_slist_remove_head(l) == wow_slist_remove_by_index(l, 0)
wow_slist_remove_tail(l) == wow_slist_remove_by_index(l, l.entries - 1)
wow_slist_remove_by_match(l, P) ==
  IF Match(l, P) = 0 THEN Ret(l, FAILED) ELSE Unlink(l, Match(l, P))
wow_slist_remove(l, d) == wow_slist_remove_by_match(l, {d})

SetData(l, ks, d) ==
  Ret([l EXCEPT !.mem = [x \in DOMAIN @ |-> IF \E k \in ks : Chain(l)[k] = x THEN [@[x] EXCEPT !.data = d] ELSE @[x]]], 0)

wow_slist_replace_head(l, d) == IF l.head = NULL THEN Ret(l, FAILED) ELSE SetData(l, {1}, d)
wow_slist_replace_tail(l, d) ==
  IF l.tail = NULL THEN Ret(l, FAILED) ELSE Ret([l EXCEPT !.mem[l.tail].data = d], 0)
wow_slist_replace_by_index(l, i, d) ==
  IF i \in 0 .. l.entries - 1 THEN SetData(l, {i + 1}, d) ELSE Ret(l, PARAM)
\* Every node that matches is replaced, not only the first.
wow_slist_replace_by_match(l, P, d) ==
  SetData(l, {k \in DOMAIN Chain(l) : wow_slist_foreach(l)[k] \in P}, d)

wow_slist_clear(l) ==
  IF l.head = NULL THEN Ret(l, 0)
  ELSE Ret([wow_slist_create EXCEPT !.mem = [x \in DOMAIN l.mem \ Range(Chain(l)) |-> l.mem[x]]], 0)

-----------------------------------------------------------------------------
(* The list of strings.  A string is a sequence of characters.             *)

wow_stringlist_append(l, s) == IF s = <<>> THEN Ret(l, FAILED) ELSE wow_slist_insert_tail(l, s)

\* strtok: the first token of a text and what is left behind it, or nothing.
Token(text, delims) ==
  LET start == SelectInSeq(text, LAMBDA c : c \notin delims)
      after == IF start = 0 THEN <<>> ELSE SubSeq(text, start, Len(text))
      end == SelectInSeq(after, LAMBDA c : c \in delims) IN
  IF end = 0 THEN [token |-> after, rest |-> <<>>]
  ELSE [token |-> SubSeq(after, 1, end - 1), rest |-> SubSeq(after, end + 1, Len(after))]

RECURSIVE Append_tokens(_, _, _)
Append_tokens(l, text, delims) ==
  LET t == Token(text, delims) IN
  IF t.token = <<>> THEN l ELSE Append_tokens(wow_stringlist_append(l, t.token).st, t.rest, delims)
wow_stringlist_split(text, delims) == Append_tokens(wow_slist_create, text, delims)

-----------------------------------------------------------------------------
(***************************************************************************)
(* The list of keys and values of wow_kv_list.c: an AVL tree.  A tree is   *)
(* NIL or a node with its two subtrees; keys are numbers in the order of   *)
(* strcmp.  own is FALSE once the node's value is the caller's own string  *)
(* (a second set of a key stores the pointer it was given), dead is TRUE   *)
(* once its key and value point to memory that was freed.                  *)
(***************************************************************************)

NIL == [height |-> 0]

avl_new_node(k, v) ==
  [key |-> k, value |-> v, own |-> TRUE, dead |-> FALSE, height |-> 1, left |-> NIL, right |-> NIL]
avl_height(n) == n.height
avl_get_balance(n) == IF n = NIL THEN 0 ELSE avl_height(n.left) - avl_height(n.right)

Sized(n) == [n EXCEPT !.height = 1 + (IF n.left.height > n.right.height THEN n.left.height ELSE n.right.height)]
avl_rotate_right(y) == Sized([y.left EXCEPT !.right = Sized([y EXCEPT !.left = y.left.right])])
avl_rotate_left(x) == Sized([x.right EXCEPT !.left = Sized([x EXCEPT !.right = x.right.left])])

\* Insertion looks at where the key went, deletion and update at the balance
\* of the heavier child, to choose between a single and a double rotation.
Rebalance(n, leftleft, rightright) ==
  LET b == avl_get_balance(n) IN
  CASE b > 1 /\ leftleft -> avl_rotate_right(n)
    [] b < -1 /\ rightright -> avl_rotate_left(n)
    [] b > 1 /\ ~ leftleft -> avl_rotate_right([n EXCEPT !.left = avl_rotate_left(@)])
    [] b < -1 /\ ~ rightright -> avl_rotate_left([n EXCEPT !.right = avl_rotate_right(@)])
    [] OTHER -> n
ByBalance(n) == Rebalance(n, avl_get_balance(n.left) >= 0, avl_get_balance(n.right) <= 0)

RECURSIVE avl_insert(_, _, _)
avl_insert(n, k, v) ==
  IF n = NIL THEN avl_new_node(k, v)
  ELSE IF k = n.key THEN [n EXCEPT !.value = v, !.own = FALSE]
  ELSE LET m == Sized(IF k < n.key THEN [n EXCEPT !.left = avl_insert(@, k, v)]
                      ELSE [n EXCEPT !.right = avl_insert(@, k, v)]) IN
       Rebalance(m, m.left # NIL /\ k < m.left.key, m.right # NIL /\ k > m.right.key)

RECURSIVE avl_search(_, _)
avl_search(n, k) ==
  CASE n = NIL -> NULL
    [] n # NIL /\ k < n.key -> avl_search(n.left, k)
    [] n # NIL /\ k > n.key -> avl_search(n.right, k)
    [] OTHER -> n.value

RECURSIVE avl_get_min(_)
avl_get_min(n) == IF n.left = NIL THEN n ELSE avl_get_min(n.left)

\* A node with two children takes over the pointers of its successor, and the
\* deletion of the successor then frees what they point to.
RECURSIVE avl_delete(_, _)
avl_delete(n, k) ==
  IF n = NIL THEN NIL
  ELSE IF k = n.key /\ (n.left = NIL \/ n.right = NIL)
       THEN IF n.left = NIL THEN n.right ELSE n.left
  ELSE ByBalance(Sized(
         CASE k < n.key -> [n EXCEPT !.left = avl_delete(@, k)]
           [] k > n.key -> [n EXCEPT !.right = avl_delete(@, k)]
           [] OTHER -> LET s == avl_get_min(n.right) IN
                       [n EXCEPT !.key = s.key, !.value = s.value, !.dead = TRUE, !.right = avl_delete(@, s.key)]))

\* FALSE when the deletion of a key frees a string that belongs to the caller.
RECURSIVE Frees_own(_, _)
Frees_own(n, k) ==
  IF n = NIL THEN TRUE
  ELSE CASE k < n.key -> Frees_own(n.left, k)
         [] k > n.key -> Frees_own(n.right, k)
         [] OTHER -> IF n.left = NIL \/ n.right = NIL THEN n.own ELSE avl_get_min(n.right).own

\* own here says that what the update frees was the list's own string.
RECURSIVE avl_update(_, _, _)
avl_update(n, k, v) ==
  IF n = NIL THEN NIL
  ELSE ByBalance(Sized(
         CASE k < n.key -> [n EXCEPT !.left = avl_update(@, k, v)]
           [] k > n.key -> [n EXCEPT !.right = avl_update(@, k, v)]
           [] OTHER -> [n EXCEPT !.value = v, !.own = TRUE]))

RECURSIVE avl_get_all(_)
avl_get_all(n) == IF n = NIL THEN <<>> ELSE avl_get_all(n.left) \o <<<<n.key, n.value>>>> \o avl_get_all(n.right)

RECURSIVE avl_get_size(_)
avl_get_size(n) == IF n = NIL THEN 0 ELSE avl_get_size(n.left) + avl_get_size(n.right) + 1

wow_kvlist_create == NIL
wow_kvlist_get(n, k) == avl_search(n, k)
wow_kvlist_set(n, k, v) == avl_insert(n, k, v)
wow_kvlist_update(n, k, v) == avl_update(n, k, v)
wow_kvlist_delete(n, k) == avl_delete(n, k)
wow_kvlist_size(n) == avl_get_size(n)
wow_kvlist_foreach(n) == avl_get_all(n)

RECURSIVE Nodes(_)
Nodes(n) == IF n = NIL THEN {} ELSE {n} \cup Nodes(n.left) \cup Nodes(n.right)
\* avl_del_all may free every string only if the list owns them all, once.
Owned(n) == \A m \in Nodes(n) : m.own /\ ~ m.dead
\* The next comparison would read a freed key.
Dangling(n) == \E m \in Nodes(n) : m.dead
=============================================================================
