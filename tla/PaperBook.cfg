\* Every kind and profile, four ticks over marks that move, vanish and settle.
SPECIFICATION Spec
CONSTANTS
  N = 2
  Kinds = {"prediction", "crypto", "equity"}
  Lines <- Profiles
  Seed = 100000
  Lot = 100
  Quotes <- SomeQuotes
  Rankings <- BothWays
  MaxTicks = 4
INVARIANT BooksBalance
PROPERTIES SeedOnce TradesGuarded
CHECK_DEADLOCK FALSE
