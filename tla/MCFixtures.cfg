\* Two jobs, of the same version or not, at one destination they share.
CONSTANTS
  v1 = v1
  v2 = v2
  Versions = {v1, v2}
  Jobs = {a, b}
  Dests = {d}
  Files = {"fixtures", "golden"}
  Offered <- MCOffered
  None = None
  Torn = Torn
  MaxFaults = 1
SPECIFICATION FairSpec
INVARIANT TypeOK
INVARIANT OnlyVerifiedLands
PROPERTY ReadyIsWhole
PROPERTY RefetchSucceeds
