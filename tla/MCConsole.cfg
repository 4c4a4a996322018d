SPECIFICATION ConsSpec
CONSTANTS
  Letters = {"a", " "}
  Commands <- Names
  INPUT_BUF = 5
  HISTORY_BUF = 2
  ReadSizes = {2}
  Starts = {0, 3}
  MaxKeys = 7
INVARIANTS IndicesOrdered ReaderNotMissed
PROPERTIES EditsAsSpecified
CHECK_DEADLOCK FALSE
