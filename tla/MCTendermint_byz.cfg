CONSTANTS
  a = a
  b = b
  c = c
  d = d
  v = v
  w = w
  Slots <- Slots4
  Faulty = {d}
  Values <- Values2
  BodyOf <- Body
  SeedOf <- SeedFaulty
  Owner <- OwnerFaulty
  HeadView = 0
  None = None
  MaxRound = 1
  Unreliable = {}
SPECIFICATION Spec
CHECK_DEADLOCK FALSE
SYMMETRY Sym4
INVARIANTS
  PrecommitsJustified
  NoEquivocation
  Agreement
  IndInv
