SPECIFICATION Spec
CONSTANTS
  Lanes <- MCLanes
  Governed <- MCGoverned
  Excluded <- MCExcluded
  Published <- MCLanes
  Packaged <- MCLanes
  MaxAge = 100
  Skew = 1
  LaneOrder <- MCLaneOrder
  Installs <- MCInstalls
  Requests <- MCAllRequests
INVARIANT OtherVersionStaysAsSkip
