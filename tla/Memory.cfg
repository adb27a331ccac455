SPECIFICATION MCSpec
CONSTANTS
  RamAddrs <- MCRamAddrs
  Addrs <- MCAddrs
  Buses = {"CPU", "PPU"}
  ValuesAt <- MCValuesAt
  Files = {"plain", "odd", "small", "banked", "large", "uneven", "torn"}
  HeaderOf <- MCHeaderOf
  FailuresOf <- MCFailuresOf
  TornLengths = {8192}
  MaxWrites = 4
INVARIANTS NothingLeaks InBounds ReadsLastWrite
PROPERTIES SaveRestores
