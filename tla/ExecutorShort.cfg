SPECIFICATION Spec
CONSTANTS
  Process = {p}
  Target = {t}
  p = p
  t = t
  MaxOps = 2
  Keep = 1
  Faults = {"tear"}
  Damaged = Damaged
  Nobody = Nobody
INVARIANTS
  AuditedMeansReadable
