CONSTANTS
  Names = {"a", "b", "c", "d", "e"}
  ASKED <- SmallAsked
SPECIFICATION LSpec
CHECK_DEADLOCK FALSE
INVARIANT DiversityPicked
