\* Two handlers on the tokens of two users.
SPECIFICATION Spec
CONSTANTS
  u1 = u1  u2 = u2  h1 = h1  h2 = h2  h3 = h3
  User = {u1, u2}
  Handler = {h1, h2}
  MaxTokens = 3
SYMMETRY MCSymmetry
INVARIANTS TypeOK LineageSound
PROPERTIES OnlyLostResponseStrands RevocationIsFinal DeadFamiliesStayDead
