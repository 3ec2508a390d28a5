\* A prediction book that puts everything into one outcome.
SPECIFICATION Spec
CONSTANTS
  N = 2
  Kinds = {"prediction"}
  Lines <- Profiles
  Seed = 100000
  Lot = 100
  Quotes <- Plain
  Rankings <- BothWays
  MaxTicks = 3
INVARIANT NoNegativeCash
CHECK_DEADLOCK FALSE
