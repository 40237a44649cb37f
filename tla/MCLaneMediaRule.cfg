SPECIFICATION Spec
CONSTANTS
  Scenarios <- MCJobs
  Excluded <- ExcludedOperations
  MaxFaults = 1
  MaxTimeouts = 0
INVARIANT MediaSchemaMeansAllDecode
