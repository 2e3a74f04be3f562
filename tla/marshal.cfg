SPECIFICATION Spec
CONSTANTS
  W8 = 2
  W16 = 3
  W32 = 9
  BlockBytes = 40
  MaxBlocks = 11
  MaxFlatParams = 4
  MaxFlatAsyncParams = 2
  MaxCalls = 2
  Functions <- MCFunctions
  Signature <- MCSignature
  Arguments <- MCArguments
  Results <- MCResults
  Elements <- MCElements
  Values <- MCValues
INVARIANTS
  ValuesSurvive
  NoFaults
  OnlyKnownLeaks
  OptionsCover
