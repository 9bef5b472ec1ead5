CONSTANTS
  ana = ana  bia = bia  caio = caio
  User = {ana, bia}
  Account = {ana}
  NoUser = NoUser
  Story = {1, 2}
  Author <- MCOneAuthor
  Load = {l1, l2}
  Offline = TRUE
  MaxEdit = 1
SPECIFICATION FairSpec
INVARIANTS TypeOK LoneFeedIsFresh
PROPERTY SpinnerStops
