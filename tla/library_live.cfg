SPECIFICATION FairSpec
CONSTANTS
  None = None
  GenID = {g1, g2}
  Titles = {t1}
  MaxHistory = 2
  Deleters = {d1}
  Configured = {TRUE, FALSE}
  MaxFaults = 0
  MaxStops = 1
  Labelling = FALSE
  RacingUploads = FALSE
PROPERTIES BuildsEnd DeletionsEnd
