CONSTANTS
  a = a
  b = b
  c = c
  d = d
  v = v
  w = w
  Slots <- Slots4
  Faulty = {d}
  Values <- Values2
  BodyOf <- Body
  SeedOf <- SeedD
  Owner <- OwnerD
  HeadView = 0
  None = None
  MaxRound = 1
  Unreliable = {}
  MaxRestarts = 1
SPECIFICATION RestartSpec
CHECK_DEADLOCK FALSE
SYMMETRY Sym3
INVARIANT ResumesWhereLeftOff
