\* One account, perhaps not created yet, in the hands of two handlers: logins with
\* the right and a wrong password, password changes, an owner's edits and removal.
SPECIFICATION StaffSpec
CONSTANTS
  u1 = u1  u2 = u2  h1 = h1  h2 = h2  old = old  new = new
  User = {u1}
  Handler = {h1, h2}
  MaxTokens = 1
  Password = {old, new}
  FirstPassword = old
  MaxFailedAttempts = 2
  MaxLocks = 1
  MaxRequests = 5
SYMMETRY MCSymmetry
INVARIANTS AccountsTypeOK OnlyOverlapUndoes FailuresCounted LockedMeansZero SessionsEndWithPassword
PROPERTY ImplementsRotation
CHECK_DEADLOCK FALSE
