SPECIFICATION FairSpec
CONSTANTS
  Hidden = Hidden
  Absent = Absent
  t1 = t1
  t2 = t2
  Messages = {1, 2}
  Texts = {t1, t2}
  Exports = {"first", "second"}
  Content <- TwoExports
  MaxImports = 2
  Models = {"m"}
  Model = "m"
  BatchSize = 2
  Limits = {0, 1}
  Uses = {"embed"}
PROPERTY ReadyNotStale
