SPECIFICATION MCSpec
CONSTANTS
  i1 = i1 i2 = i2 c1 = c1 c2 = c2 c3 = c3
  Nothing = Nothing Torn = Torn Genesis = Genesis None = None
  Callers <- MCThreeCallers
  Kinds <- MCKinds
  Subjects <- MCImpls
  Payloads <- MCPayloads
  Impls <- MCImpls
  Commands <- MCCommands
  Seconds = {1}
  MayCrash = TRUE
  Ontology <- MCOntology
  Malformed = Malformed Absent = Absent Nil = Nil
  ext <- MCExternal
  Pilot <- MCPilot
  Nominal <- MCNominal
  Worlds <- MCWorlds
  Profiles <- MCProfiles
  Declaring <- MCDeclaring
  Lists <- MCLists
  Encoders <- MCEncoders
  Samples <- MCSamples
  Exported <- MCExported
  Cases <- MCCases
  MaxCases = 3
  MinCases <- MCMinCases
INVARIANTS TypeOK ChainBreaksOutsideTheLock OkIsLogged BundleNamesItsLine  AdmissionsAreReviewed BlindIsHarder AcceptedStandForEachOther
PROPERTY DamageIsPermanent
SYMMETRY MCSymmetry
CHECK_DEADLOCK FALSE
