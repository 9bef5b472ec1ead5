CONSTANTS
  ana = ana  bia = bia  caio = caio
  User = {ana, bia, caio}
  Account = {ana, bia}
  Profiled = {ana, bia}
  MaxBlock = 2
  NoUser = NoUser
  Channel <- MCChannel
  Load = {l1, l2}
SYMMETRY LoadSymmetry
SPECIFICATION Spec
INVARIANTS TypeOK SessionIsolation GroupBalanced LoneLoadIsExact
PROPERTY DeletionJustified
