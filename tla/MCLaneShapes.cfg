SPECIFICATION Spec
CONSTANTS
  Scenarios <- MCShapes
  Excluded <- ExcludedOperations
  MaxFaults = 1
  MaxTimeouts = 1
INVARIANTS
  TypeOK
  ZeroExitIsEarned
  VerdictInv
  MediaSchemaCoversDecoded
  PassedJobsAreDone
  CallsCarryFreshIds
  SubmittedJobSurvives
PROPERTY NoFalseAlarm
PROPERTY RejectedEditLeftNoTrace
PROPERTY ImplementsPromise
