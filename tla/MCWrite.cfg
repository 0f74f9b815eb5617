\* Two requests at once, each any of the requests of MCRequests.
CONSTANTS
  Null = Null
  Increment = 2
  Columns <- MCColumns
  Primary <- MCPrimary
  Foreign <- MCForeign
  Stored <- MCStored
  FirstId = 11
  Requests <- MCRequests
  Sessions = {s1, s2}
SPECIFICATION FairSpec
INVARIANTS
  IdsSound
  ChildrenLinked
  KnownUpdated
PROPERTIES
  AnswerStored
  RowsKept
  PatchDone
  Answered
