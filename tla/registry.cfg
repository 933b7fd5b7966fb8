SPECIFICATION Spec
CONSTANTS
  None = None
  Server = Server
  Threads = {r1, r2}
  u1 = u1
  Users = {u1, u2, u3}
  Shards = {"s1", "s2"}
  ShardOf <- TwoShards
  Served = {"netflix", "prime", "history", "worker", "delete"}
  MaxOpen = 2
SYMMETRY Symmetry
INVARIANTS UsesCounted NoneForgotten OpenWhileUsed DirectoryStays NeverInUse
