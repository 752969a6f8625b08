SPECIFICATION Spec
CONSTANTS
  i1 = i1 i2 = i2 p1 = p1 p2 = p2 old = old new = new
  None = None Torn = Torn
  Impls <- MCOneImpl
  Promoters <- MCTwo
  InitManifests <- MCAll
  SignedReports <- MCFull
  Faults <- MCCrash
  Contents <- MCVersions
  Editable = {"contract"}
  Workspace = TRUE
INVARIANTS TypeOK MutualExclusion TruthfulWhenSettled ManifestRecoverable AdmittedIsReviewed LoggedIsPromoted
PROPERTY OkIsAboutHashedFiles
SYMMETRY MCEditSymmetry
CHECK_DEADLOCK FALSE
