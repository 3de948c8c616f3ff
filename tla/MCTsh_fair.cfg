\* Fair scheduling, and the job list against JobControl: more slots than children.
SPECIFICATION FairSpec
CONSTANTS
  p1 = p1
  p2 = p2
  p3 = p3
  Pid <- TwoPids
  NoPid = NoPid
  MAXJOBS = 3

PROPERTIES
  EveryChildReaped
  WaitEnds
  KeyEndsWait
  ImplementsJobControl
