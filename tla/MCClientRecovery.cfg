SPECIFICATION FairSpec
CONSTANTS
  Clients <- MCPython
  Forms <- MCOneForm
  Contents <- MCContents
  None = None
  MaxFaults = 1
PROPERTIES
  FailedPublicationRecovers
