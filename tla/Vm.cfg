SPECIFICATION Spec
CONSTANTS
  p1 = p1  p2 = p2  s1 = s1  s2 = s2  x2 = x2
  NULL = NULL
  Procs = {p1, p2}
  Pages = {s1, s2, x2}
  Owner <- PageOwner
  Stack = {s1, s2}
  FCount = 3
  Slots = 1
INVARIANTS TypeOK PresentCurrent NothingLost TablesAgree
PROPERTIES WrittenBack
