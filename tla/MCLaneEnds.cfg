SPECIFICATION FairSpec
CONSTANTS
  Scenarios <- MCJobs
  Excluded <- ExcludedOperations
  MaxFaults = 0
  MaxTimeouts = 6
PROPERTY Terminates
