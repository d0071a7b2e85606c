\* Distinct validator lists; counts on both sides of the int64 sign boundary.
CONSTANTS
  Addr = {a1, a2, a3}
  WordBits = 5
  MaxValidators = 3
  Keccak256 <- MCKeccak256
  Inputs <- MCDistinctInputs
  Counts <- MCAllCounts
  CountBits = 4
  DefaultStakedBalance = 3
  Empty = Empty
  NoAccount = NoAccount
INIT Init
NEXT Next
\* The builder returns after its last step.
CHECK_DEADLOCK FALSE
INVARIANT
  StoredCountsMatch
