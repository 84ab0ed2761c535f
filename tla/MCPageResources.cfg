SPECIFICATION MCSpec
CONSTANTS
  Elements = {a, b, c}
  Realms = {top, frame}
  top = top
  MaxGenerations = 2
  MaxBytes = 1
SYMMETRY Sharing
CONSTRAINT InScene
INVARIANTS
  PermitSound NoForgottenWaiter LeaseFitsPlayer BytesAccounted
PROPERTIES
  InOrder
