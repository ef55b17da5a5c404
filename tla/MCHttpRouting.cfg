CONSTANTS
  ULL = 1000000
  Networks <- TwoNetworks
  Length <- TheirLengths
  Settings <- SomeSettings
  Requests <- SomeRequests
SPECIFICATION Spec
INVARIANTS
  AnswersThisRequest
  CredentialsInPlace
PROPERTIES
  GetIsSafe
  RepostKeeps
  ShownAsPosted
