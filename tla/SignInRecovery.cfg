SPECIFICATION Spec
CONSTANTS
  Requests = {r1, r2}
  Challenges = {}
  Sessions = {s1, s2, s3}
  Methods = {}
  RecoveryCodes = {}
  MaxAttempts = 1
  MaxPasswords = 2
  None = None
SYMMETRY Symmetry
INVARIANT ResetSignsOut
