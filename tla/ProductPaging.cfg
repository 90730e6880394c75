CONSTANTS
  w1 = w1  w2 = w2
  NoRow = NoRow
  Products = {1, 2, 3}
  Rows <- MCRows
  Filters <- MCFilters
  Walks = {w1, w2}
  KeysetWalks = {w1}
  Allowances <- MCAllowances
  Lower <- MCLower
  Canonical <- MCCanonical
  MaxProductLimit = 2
  MaxChanges = 2
SPECIFICATION Spec
INVARIANTS OffsetExactWhenQuiet EmulationIsFaithful
PROPERTIES KeysetKeepsPromise
\* The walks are bounded.
CHECK_DEADLOCK FALSE
