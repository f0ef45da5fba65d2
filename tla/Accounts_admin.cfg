SPECIFICATION Spec
CONSTANTS
  r1 = r1
  r2 = r2
  r3 = r3
  l1 = l1
  c1 = c1
  c2 = c2
  e1 = e1
  e2 = e2
  n1 = n1
  n2 = n2
  Registers = {r1, r2}
  Logins = {}
  Creates = {}
  Emails = {e1, e2}
  Names = {n1, n2}
  Nothing = Nothing
SYMMETRY MCSymmetry
CHECK_DEADLOCK FALSE
INVARIANT OneFirstAdmin
