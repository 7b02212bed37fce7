SPECIFICATION Spec
CONSTANTS
  Jobs = 2
  Window = 2
INVARIANTS
  ClearedObservationRecovers
