SPECIFICATION Spec
CONSTANTS
  Member = {a}
  Content = {c1}
  Stamp = {s1}
  Process = {p}
  a = a
  c1 = c1
  s1 = s1
  p = p
  Faults = {"power"}
  Commands = {"archive", "restore"}
  JournalKeep = 1
  Absent = Absent
  Torn = Torn
  Nobody = Nobody
  NoPlan = NoPlan
INVARIANTS
  ReceiptOutlivesNoBytes
