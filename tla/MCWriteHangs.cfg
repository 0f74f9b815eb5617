\* Two requests, any of those of MCRequests: one has a payload whose first record has no records of the path that is allocated.
CONSTANTS
  Null = Null
  Increment = 1
  Columns <- MCColumns
  Primary <- MCPrimary
  Foreign <- MCForeign
  Stored <- MCStored
  FirstId = 11
  Requests <- MCRequests
  Sessions = {s1, s2}
SPECIFICATION FairSpec
PROPERTY AlwaysAnswered
