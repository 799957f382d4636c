SPECIFICATION Spec
CONSTANTS
  Trials <- MCTrials
  Size <- MCSize
  Spaces <- MCSpaces
  Formats <- MCFormats
  WellFormed <- MCWellFormed
  FillKey <- MCFillKey
  Unset <- MCUnset
INVARIANTS
  ShowWins
  NothingDropped
  CountedOnce
  RowsFitQuestion
  RequiredIsComplete
  HiddenAnswersAreInert
CHECK_DEADLOCK FALSE
