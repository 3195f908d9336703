SPECIFICATION Spec
CONSTANTS
  Requests = {r1, r2}
  Challenges = {c1}
  Sessions = {s1, s2}
  Methods = {m1}
  RecoveryCodes = {k1}
  MaxAttempts = 2
  MaxPasswords = 1
  None = None
SYMMETRY Symmetry
INVARIANT SignedOutEverywhere
