\* Three children at a time, reused pids, a table of two slots.
SPECIFICATION Spec
CONSTANTS
  p1 = p1
  p2 = p2
  p3 = p3
  Pid <- ThreePids
  NoPid = NoPid
  MAXJOBS = 2
SYMMETRY PidSymmetry
INVARIANTS
  AtMostOneFG
  ListedIsChild
  NextjidFresh
  NoZombieForgotten
  StoppedIsListed
  NoLostWakeup
PROPERTIES
  ListedUntilReaped
