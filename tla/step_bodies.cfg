SPECIFICATION Spec
CONSTANTS
  Lower <- MCLower
  ToNumber <- MCToNumber
  ParseInt <- MCParseInt
  KeyRank <- MCKeyRank
  Value <- MCValue
  RegExpTest <- MCRegExpTest
  NaN = NaN
  Programs <- MCPrograms
  PositionKey <- MCPositionKey
  Inputs <- MCInputs
  DefaultProvider = "groq"
  MaxAttempts = 2
  here = here
  there = there
  inside = inside
  garbage = garbage
  Url = {here, there, inside, garbage}
  Malformed = {garbage}
  Blocked = {inside}
  Status = {200, 404, 408, 409, 500}
  Completions <- MCCompletions
  Bodies <- MCBodies
  Key = {"result"}
  None = None
CHECK_DEADLOCK FALSE
INVARIANTS
  TypeOK
  
  DownstreamSeesAnswer
  SameAfterResume
