\* One job, and a destination of its own.
CONSTANTS
  v1 = v1
  v2 = v2
  Versions = {v1, v2}
  Jobs = {a}
  Dests = {d}
  Files = {"fixtures", "golden"}
  Offered <- MCOffered
  None = None
  Torn = Torn
  MaxFaults = 0
SPECIFICATION FairSpec
PROPERTY ReadyNamesPin
