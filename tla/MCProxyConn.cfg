CONSTANTS
  t1 = t1  t2 = t2
  f1 = f1  f2 = f2  f3 = f3  f4 = f4
  Thread = {t1, t2}
  Fd = {f1, f2, f3, f4}
  NoFd = NoFd
  Addresses = 2
SPECIFICATION FairSpec
INVARIANT DescriptorsAccounted
PROPERTY EveryConnectionClosed
