SPECIFICATION Spec
CONSTANTS
  Chunk = 2
  Most = 4
  Space = 7
  Radix = 4
  Lengths = {0, 4, 5}
  Addresses <- MCAddresses
  Values <- MCValues
  Counts <- MCCounts
  Files <- MCFiles
INVARIANTS TypeOK PrefixWritten CompletedWhole FailsOnlyDoomed
