SPECIFICATION HSpec
CONSTANTS
  i1 = i1 i2 = i2 p1 = p1 p2 = p2 old = old new = new
  None = None Torn = Torn
  Impls <- MCTwoImpls
  Promoters <- MCTwo
  InitManifests <- MCDrafts
  SignedReports <- MCNoReports
  Faults <- MCCrash
  Contents <- MCAsIs
  Editable = {}
  Workspace = TRUE
PROPERTY PromotionsAreAtomic
SYMMETRY MCSymmetry
CHECK_DEADLOCK FALSE
