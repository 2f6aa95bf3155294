SPECIFICATION Spec
CONSTANTS
  Addr = {2, 3}
  Pkgs = {p, q}
  TmpName <- tmp_name
  StaleAge = 1
  MaxTime = 1
  MaxInstalls = 2
SYMMETRY Symmetry
INVARIANTS
  TaskIsPackage
  NoStrayFiles
