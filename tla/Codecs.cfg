SPECIFICATION CodecsSpec
CONSTANTS
  Kinds = {"yx", "yc_n", "yc_f", "ym"}
  YX_NODE_NUM = 3
  Sizes = {0, 1, 2, 3, 4, 5, 6, 7}
  Bases = {1, 65530}
  AddrMod = 65536
  LastDay = 47539
  DEFALUT_STRING_SZIE = 3
  MaxText = 7
  ROOM = 4
INVARIANTS CodesFaithful TextsFaithful CacheLaidOut NodesDelivered
