SPECIFICATION SettingSpec
CONSTANTS
  Member = {d}
  Content = {c1, c2}
  Stamp = {s1}
  Process = {e}
  c1 = c1
  s2 = s2
  p = p
  q = q
  a = a
  b = b
  Faults = {"crash"}
  Commands = {"archive", "archive_keep_hot", "reclaim", "restore", "sweep"}
  JournalKeep = 1
  Absent = Absent
  Torn = Torn
  Nobody = Nobody
  NoPlan = NoPlan
SYMMETRY Symmetry
VIEW Live
INVARIANTS
  NoContentLost
  CatalogAuthenticates
  PowerTakesNothing
PROPERTIES
  RetainedNeverRewritten
  RestoreIsOrderly
  OpenJournalKept
  CompleteMeansCold
  ImplementsVault
  EveryStepIsTheVaults
