SPECIFICATION Spec
CONSTANTS
  Requests = {r1, r2}
  Challenges = {c1, c2}
  Sessions = {s1, s2, s3}
  Methods = {}
  RecoveryCodes = {k1}
  MaxAttempts = 1
  MaxPasswords = 0
  None = None
SYMMETRY Symmetry
INVARIANT OneSessionPerRecoveryCode
