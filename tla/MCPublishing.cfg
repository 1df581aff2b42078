CONSTANTS
  WordsPerMin = 275
  MaxText = 5
  Requests = {q1, q2}
  Files <- ThreeFiles
SPECIFICATION FairSpec
INVARIANTS
  ReadTimeOfFile
PROPERTIES
  PublishedInTheEnd
