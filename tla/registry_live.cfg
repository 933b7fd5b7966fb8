SPECIFICATION FairSpec
CONSTANTS
  None = None
  Server = Server
  Threads = {r1, r2, r3}
  u1 = u1
  Users = {u1}
  Shards = {"s1"}
  ShardOf <- OneShard
  Served = {"prime", "worker", "history", "delete"}
  MaxOpen = 1
PROPERTIES RequestsEnd ShutdownEnds
