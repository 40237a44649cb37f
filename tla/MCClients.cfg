SPECIFICATION FairSpec
CONSTANTS
  Clients <- MCClients
  Forms <- MCForms
  Contents <- MCContents
  None = None
  MaxFaults = 2
INVARIANTS
  TypeOK
  OneBuildPerCoordinate
  GreenMeansIdentical
PROPERTIES
  PublishedRunEndsGreen
  SingleFileRecovers
