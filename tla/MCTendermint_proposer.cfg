CONSTANTS
  a = a
  b = b
  c = c
  d = d
  v = v
  w = w
  Slots <- Slots3
  Faulty = {}
  Values <- Values2
  BodyOf <- Body
  SeedOf <- SeedHonest
  Owner <- OwnerHonest
  HeadView = 1
  None = None
  MaxRound = 1
  Unreliable = {}
SPECIFICATION Spec
CHECK_DEADLOCK FALSE
INVARIANT ProposerIsAwaited
