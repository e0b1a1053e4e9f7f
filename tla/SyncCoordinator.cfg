\* Any order of registrations, ACKs and clears.
SPECIFICATION CoordinatorSpec
CONSTANTS
  Tokens = {t1, t2}
  Members = {i1, i2, i3}
  MaxRegs = 2
INVARIANTS
  CompletesOnce
  WaitsForTheSilent
