SPECIFICATION FairSpec
CONSTANTS
  Versions <- MCVersions
  Form <- MCForm
  None = None
  Unreadable = Unreadable
  Tags <- MCTags
  Sources <- MCSources
  Builds <- MCBuilds
  Lost <- MCLost
  Attempts = 2
  Assets <- MCAssets
  MaxFaults = 2
INVARIANTS
  TypeOK
  ReceiptIsTrue
  DefaultsAreEarned
  GreenIsComplete
PROPERTIES
  PromiseKept
  
