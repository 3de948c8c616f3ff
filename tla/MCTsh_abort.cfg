\* The disagreement over errors that end the shell.
SPECIFICATION Spec
CONSTANTS
  p1 = p1
  p2 = p2
  p3 = p3
  Pid <- TwoPids
  NoPid = NoPid
  MAXJOBS = 1

INVARIANT ShellNeverAborts
