CONSTANTS
  ana = ana  bia = bia  caio = caio
  User = {ana, caio}
  Account = {ana}
  Profiled = {ana, caio}
  MaxBlock = 1
  NoUser = NoUser
  Blank = Blank
  Channel <- MCOneOfAna
  Load = {l1, l2}
SYMMETRY LoadSymmetry
SPECIFICATION ScreenSpec
INVARIANTS ScreenTypeOK RowsInStep
