SPECIFICATION SettingSpec
CONSTANTS
  Process = {p, q}
  Target = {t, u}
  Victim = v
  p = p
  q = q
  t = t
  u = u
  v = v
  MaxOps = 3
  MoreOps = 3
  Keep = 1
  MoreKeep = 1
  Faults = {"raise", "crash"}
  Damaged = Damaged
  Nobody = Nobody
  Meddlings = 2
  None = None
  Invocation = {i, j}
  i = i
  j = j
  Node = {m, n}
  m = m
  n = n
  LastSecond = 1
  Storage = Storage
  Nothing = Nothing
SYMMETRY Symmetry
VIEW Live
INVARIANTS
  StatusIsTold
  PublishedRecordsStay
  OutcomeTellsWhatWent
  AttemptIsProven
PROPERTIES
  DamageStaysVisible
  UncertifiedStays
  PinsMergeUntilTerminal
  RemovesReleasedOnly
