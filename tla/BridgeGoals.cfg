\* Two trajectories after each other, nobody else.
CONSTANTS
  g1 = g1
  g2 = g2
  cli = cli
  Goals <- const_Goals
  Others <- no_Others
  Clients <- const_Goals
  Nobody = Nobody
  None = None
SPECIFICATION FairSpec
INVARIANTS RepliesMatch OrphanNeedsLoss
PROPERTIES KeepsSession CancelEnds AbandonedStreamStops
CHECK_DEADLOCK FALSE
