SPECIFICATION SettingSpec
CONSTANTS
  Storage = {"storage1", "storage2"}
  Trainer = {"P5"}
  Qualifier = {"P7"}
  RunOf <- MCRunOf
  AttemptOf <- MCAttemptOf
  Current = 2
  Generations = 2
  Nobody = Nobody
  Inode = {i1, i2, i3, i4}
  Value = {v, w}
  NoInode = NoInode
  first = first
  second = second
  PairInode = {1, 2, 3}
SYMMETRY Symmetry
VIEW Live
INVARIANTS
  DedupIsSafe
  OwnersAreFenced
PROPERTIES
  ClosedInodesOnly
