SPECIFICATION FairSpec
CONSTANTS
  Hidden = Hidden
  Absent = Absent
  t1 = t1
  t2 = t2
  Messages = {1, 2}
  Texts = {t1, t2}
  Exports = {"first", "second"}
  Content <- TwoExports
  MaxImports = 2
  Models = {"m", "n"}
  Model = "m"
  BatchSize = 1
  Limits = {0, 1}
  Uses = {"index", "embed"}
INVARIANTS TypeOK VectorsMatch ResumesCleanly ReadyCurrent
PROPERTIES ReadyStays ReadySnapshot ReadyComplete RunsEnd
