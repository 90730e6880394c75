SPECIFICATION Spec
CONSTANTS
  AzureRows <- ListedRows
  MaxRows = 3
  Kinds <- AzureKinds
  VersionOf <- Versions
  SkipNames = {"VM", "VM v8"}
  AzureRetries = 2
  SKUs <- ComputeSKUs
  MaxSKUs = 4
  MachineTypes <- Machines
  GCPRetries = 3
  MaxRepeated = 3
  MaxScrapes = 2
  Files <- PriceFiles
  awsLocationToRegion <- Names
  UnitsPerYuan = 100
  cnyUSDRate = 7
INVARIANTS EveryRowPriced PrimaryRowsWin OneLowestPricePerTier EverySKUPriced MachineTypesAreSums EveryTermPriced
\* A service returns once.
CHECK_DEADLOCK FALSE
