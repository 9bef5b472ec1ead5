CONSTANTS
  ana = ana  bia = bia  caio = caio
  User = {ana, bia, caio}
  Account = {ana}
  Profiled = {bia, ana, caio}
  MaxBlock = 0
  NoUser = NoUser
  Blank = Blank
  Channel <- MCTwoOfAna
  Load = {l1}
SPECIFICATION FairScreenSpec
PROPERTIES DeletesWhatWasShown SpinnerStops ManagerSpec
