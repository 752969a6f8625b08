SPECIFICATION Spec
CONSTANTS
  io = io task = task other = other Here = Here There = There
  NoImpl = NoImpl Any = Any
  ImplId <- MCImplId
  Capability <- MCCapability
  Platform <- MCPlatform
  Io = {io}
  DefaultOf <- MCDefault
  Emittable = {1, 2, 3, 4, 6}
  NeedsSimd = {3}
  Subject = 1
  Purpose = task
  Rivals <- MCRivals
  Documents <- MCDocuments
  Policies <- MCPolicies
  Profiles <- MCProfiles
  Benches <- MCBenches
INVARIANTS AuditTrustsOnlySuites RulesAgreeOnAdapters ReleaseShipsJustified CandidatesShipOnlyBlind
PROPERTIES JustificationIsMonotone ResolutionIsMonotone
