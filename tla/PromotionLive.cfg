SPECIFICATION FairSpec
CONSTANTS
  i1 = i1 i2 = i2 p1 = p1 p2 = p2 old = old new = new
  None = None Torn = Torn
  Impls <- MCOneImpl
  Promoters <- MCTwo
  InitManifests <- MCDraft
  SignedReports <- MCNoReports
  Faults <- MCIo
  Contents <- MCAsIs
  Editable = {}
  Workspace = TRUE
PROPERTIES CallsEnd LockIsReleased
CHECK_DEADLOCK FALSE
