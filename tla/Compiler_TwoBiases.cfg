SPECIFICATION Spec
CONSTANTS
  Family = "two_biases"
  Jobs <- MCJobs
  GraphOf <- MCGraphOf
INVARIANTS
  MeaningIsKept
