CONSTANTS
  a = a
  b = b
  c = c
  d = d
  v = v
  w = w
  Slots <- Slots3
  Faulty = {}
  Values <- Values2
  BodyOf <- Body
  SeedOf <- SeedHonest
  Owner <- OwnerHonest
  HeadView = 0
  None = None
  MaxRound = 2
  Unreliable = {b}
SPECIFICATION Spec
CHECK_DEADLOCK FALSE
INVARIANTS
  TypeOK
  LocksJustified
  LockRespected
  Agreement
PROPERTIES
  ForwardOnly
