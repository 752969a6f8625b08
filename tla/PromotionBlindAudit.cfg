SPECIFICATION Spec
CONSTANTS
  i1 = i1 i2 = i2 p1 = p1 p2 = p2 old = old new = new
  None = None Torn = Torn
  Impls <- MCOneImpl
  Promoters <- MCTwo
  InitManifests <- MCDraft
  SignedReports <- MCNoReports
  Faults <- MCNoFaults
  Contents <- MCVersions
  Editable = {"adapter"}
  Workspace = TRUE
PROPERTY AuditSeesEveryImplementation
CHECK_DEADLOCK FALSE
