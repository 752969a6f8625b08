SPECIFICATION CortexSpec
CONSTANTS
  source = source filter = filter q1 = q1 q2 = q2
  NoInstance = NoInstance None = None
  Id <- MCId
  Capability <- MCCapability
  Port <- MCPort
  Signature <- MCSignature
  Setting <- MCSetting
  Accepted <- MCAccepted
  Proposer <- MCProposer
  Initial <- MCInitial
  Patches <- MCPatches
  MaxRevision = 2
  EditBound = 2
  Implementation <- MCImplementation
  Recipe <- MCRecipe
  Edges <- MCEdges
  Pilot <- MCPilot
  Node <- MCNode
  Intents <- MCIntents
  Givens <- MCGivens
  Key = TRUE
  AskBound = 1
INVARIANTS TypeOK NoDangling CommitIsOfReviewed ProposalIsComplete
CHECK_DEADLOCK FALSE
SYMMETRY MCSymmetry
