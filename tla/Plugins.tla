------------------------------ MODULE Plugins ------------------------------
(***************************************************************************)
(* wow_plugin.c.  A plugin is described by its module, its priority and,   *)
(* when it comes from a file, that file ("" for one that is built in).     *)
(* list is the list of the plugins that were enabled, the first first;     *)
(* live[m] counts the successful initialisations of module m less its      *)
(* exits, open[f] how often file f is loaded; last is the order in which   *)
(* the plugins were last initialised.                                      *)
(***************************************************************************)
EXTENDS Integers, Sequences, SequencesExt

plugin_init(mods, files) == [list |-> <<>>, live |-> [m \in mods |-> 0], open |-> [f \in files |-> 0], last |-> <<>>]

\* Before the first that has no greater priority.
plugin_add(list, desc) ==
  LET later == {i \in DOMAIN list : desc.pri >= list[i].desc.pri}
      at == IF later = {} THEN Len(list) + 1 ELSE CHOOSE i \in later : \A j \in later : i <= j IN
  InsertAt(list, at, [desc |-> desc, active |-> FALSE])
plugin_enable(desc, enabled) == desc.module \in enabled

\* A file that is not enabled is unloaded at once.
Load(st, desc) == [st EXCEPT !.list = plugin_add(@, desc), !.open = [f \in DOMAIN @ |-> @[f] + (IF f = desc.file THEN 1 ELSE 0)]]
\* works: the modules whose initialisation succeeds.
Start(st, works) ==
  [st EXCEPT !.list = [i \in DOMAIN @ |-> [@[i] EXCEPT !.active = @ \/ st.list[i].desc.module \in works]],
             !.live = [m \in DOMAIN @ |-> @[m] + (IF m \in works THEN Len(SelectSeq(st.list, LAMBDA p : p.desc.module = m)) ELSE 0)],
             !.last = [i \in DOMAIN st.list |-> st.list[i].desc.pri]]
wow_plugin_init(st, enabled, descs, works) ==
  Start(FoldLeft(LAMBDA s, d : IF plugin_enable(d, enabled) THEN Load(s, d) ELSE s, st, descs), works)

\* The file of a plugin that never became active stays loaded.
plugin_list_destroy(st, p) ==
  IF ~p.active THEN st
  ELSE [st EXCEPT !.live[p.desc.module] = @ - 1, !.open = [f \in DOMAIN @ |-> @[f] - (IF f = p.desc.file THEN 1 ELSE 0)]]
wow_plugin_exit(st) == [FoldLeft(LAMBDA s, p : plugin_list_destroy(s, p), st, st.list) EXCEPT !.list = <<>>]

\* The user data stands for the description it belongs to.
wow_plugin_get_user(st, m) ==
  LET of == SelectSeq(st.list, LAMBDA p : p.desc.module = m) IN IF of = <<>> THEN <<>> ELSE <<Head(of).desc>>
=============================================================================
