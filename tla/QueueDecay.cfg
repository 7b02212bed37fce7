SPECIFICATION SettingSpec
CONSTANTS
  Task <- MCTask
  Rank <- MCRank
  Memory <- MCMemory
  Reservation = {u, v}
  u = u
  v = v
  Amounts = {1, 2}
  Budget = 5
  Workers = 2
  MaxReady = 2
  MaxInflight = 3
  MaxCompleted = 1
  Tasks = 3
  Threads = 3
  DensityMemory = 4
  Parallel = 3
  Profiles <- MCProfiles
  a = a
  c1 = c1
  s1 = s1
  Process = {p, q}
  Torn = Torn
  Absent = Absent
  NoPlan = NoPlan
  Nobody = Nobody
INVARIANTS
  AccountedFitsBudget
  QueueIsExact
  AccountIsExact
  DensityInBudget
  DensityEndIsJustified
PROPERTIES
  DensityRunEnds
  LastCopyNeverReclaimed
  CommandsEnd
