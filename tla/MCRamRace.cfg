\* Two processes, two operations each, in two directories.
SPECIFICATION RaceSpec
CONSTANTS
  Proc = {p1, p2}
  Dir <- Dirs
  Name = {"a", "b"}
  OldFile <- OldFiles
  Addr <- Addrs
  MaxOps = 2
SYMMETRY Symmetry
INVARIANTS UniqueInTwoDirectories NotFoundInTwoDirectories IntactUnlessRaced
CHECK_DEADLOCK FALSE
