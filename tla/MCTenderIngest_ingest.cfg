CONSTANTS
  Comparable <- MCComparable
  HostOf <- MCHostOf
  Profile <- MCProfile
  Sources <- MCSources
  Webs <- MCWebs
  Passes = {p1, p2}
  Days = {0, 10, 12}
  MaxTenders = 3
SPECIFICATION Spec
CHECK_DEADLOCK FALSE
CONSTRAINT FewTenders
SYMMETRY PassSymmetry
INVARIANTS
  DeadlinesAreFollowed
  WillBeScored
  NoTwins
