SPECIFICATION Spec
CONSTANTS
  HalfLine = 4
  Radix = 32
  FlashSize = 22
  Erased = 0
  ByteBits = 2
  CrcBits = 10
  Polynomial = {0, 4, 5, 8, 9}
  Lengths = {0, 5, 43}
  Files <- MCFiles
  Words <- MCWords
  Images <- MCImages
INVARIANTS TypeOK FailsOnlyHalfway DeviceHoldsFile ChecksumOfFlash
PROPERTIES WholeOrNothing ProgrammedInOrder UpdateEnds
