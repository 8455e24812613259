SPECIFICATION Spec
CONSTANTS
  NSlots = 2
  BufCap = 2
  LogCap = 2
  Prices <- MCPrices
  FeeRates = {1, 10}
  Starting = 1000
  Risk = 95
  MinGain = 10
  MaxBuys = 2
INVARIANTS CashExplained LogIsJournal LogAddsUp
