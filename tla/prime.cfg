SPECIFICATION Spec
CONSTANTS
  None = None
  Processes = {p1, p2}
  GenID = {g1, g2, g3}
  Titles = {t1, t2}
  Archives = {a1}
  Locales = {en, es}
  Crowded = FALSE
  MaxFaults = 1
  MaxStops = 2
SYMMETRY Symmetry
INVARIANTS TypeOK Counted NoRepeatedQuery OneWorker
PROPERTIES ReplacesItsSource StaysDeleted
CONSTRAINT ThirdIsSmall
