SPECIFICATION Spec
CONSTANTS
  Process = {p, q}
  Binding = {b, c}
  p = p
  q = q
  b = b
  c = c
  LastSecond = 1
  Nobody = Nobody
  Nothing = Nothing
INVARIANTS
  OneActivation
