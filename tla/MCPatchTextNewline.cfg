SPECIFICATION TextSpec
CONSTANTS
  Texts <- MCTexts
  Requests <- MCRequests
  Wanted <- MCWanted
  Context = 1
  MaxChanges = 1
  Absent = Absent
INVARIANT
  FinalNewlineFollowsPatch
CHECK_DEADLOCK FALSE
