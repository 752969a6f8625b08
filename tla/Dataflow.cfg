SPECIFICATION MCSpec
CONSTANTS
  source = source join = join input = input hash = hash output = output
  e1 = e1 e2 = e2
  Exports = {e1, e2} Absent = Absent
  NoInstance = NoInstance
  Id <- MCId
  Capability <- MCCapability
  Port <- MCPort
  Signature <- MCSignature
  Setting <- MCSetting
  Accepted <- MCAccepted
  Documents <- MCDocuments
  IoInput = input IoOutput = output
  Bytes = "b" JsonPort = "o"
  Templated <- MCTemplated
  Streamable <- MCStreamable
  Renderings <- MCRenderings
INVARIANTS TypeOK CyclesAreExact EachOnce ReadsAreFinal MissingInputIsExplained
  ExportComputesTheGraph StreamedIsBuffered EmitFailureIsExplained
  MixedOnlyByOverlap RefusedOnlyAfterStop
PROPERTY ClosedForGood
SYMMETRY MCExportSymmetry
