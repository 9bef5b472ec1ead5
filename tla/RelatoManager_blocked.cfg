CONSTANTS
  ana = ana  bia = bia  caio = caio
  User = {ana, bia, caio}
  Account = {ana}
  NoUser = NoUser
  Story = {1, 2}
  Author <- MCAuthor
  Load = {l1, l2}
  Offline = FALSE
  MaxEdit = 0
SPECIFICATION Spec
INVARIANT NoPostOfBlocked
