SPECIFICATION Spec
CONSTANTS
  r1 = r1
  r2 = r2
  Requests <- TwoRequests
  Inputs <- SomeInputs
  Segments <- SomePaths
  Params <- Colons
  Rooted <- WithSlash
  Lines <- SomeLines
  Files <- SomeFiles
  OldMap <- Before
  validMethods <- Methods
  allowedMethods <- Methods
  Tokens <- SomeTokens
  Roles <- TokenRoles
  Expiry <- TokenExpiry
  PerIP = 1
  PerToken = 1
  Window = 1
  MaxTime = 2
  MaxEdits = 1
  MaxLines = 4
  MaxRoutes = 1
SYMMETRY Symmetric
INVARIANTS
  RolesAreItsOwn
  LookupAsPromised
  HeldToOneMap
  ApiCallersAreAuthorised
  QuotaIsKept
CHECK_DEADLOCK FALSE
