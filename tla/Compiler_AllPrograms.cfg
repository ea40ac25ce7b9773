SPECIFICATION Spec
CONSTANTS
  Family = "sound"
  Jobs <- MCJobs
  GraphOf <- MCGraphOf
INVARIANTS
  MeaningIsKept
  CompilesSupportedPrograms
  SharedBuffersFit
