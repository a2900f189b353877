SPECIFICATION Spec
CONSTANTS
  Refs = {1, 2, 3}
  PoolSize = 2
  ItchPrices = {1, 3, 4}
  Quantities = {1, 2}
  PerTick = 2
  MaxLevel = 2
INVARIANTS
  EntriesMatchOrders
  HalfLoad
  TableIsMap
