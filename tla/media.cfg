SPECIFICATION MediaFairSpec
CONSTANTS
  None = None
  Processes = {p1}
  GenID = {g1, g2}
  Titles = {t1}
  Archives = {a1}
  Locales = {en}
  Crowded = TRUE
  MaxFaults = 0
  MaxStops = 1
  Contained <- AllTitles
  PageLocale = en
  TMDBConfigured = TRUE
INVARIANT ReportCurrent
PROPERTIES CancelledStays PendingTakenUp EnrichmentEnds
