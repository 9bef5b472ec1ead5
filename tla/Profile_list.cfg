CONSTANTS
  ana = ana  bia = bia  cid = cid
  User = {ana, bia, cid}
  Account = {ana, bia}
  NoUser = NoUser
  Story = {1, 2, 3}
  Author <- Writer
  Load = {l1, l2}
  MaxEdit = 2
SPECIFICATION FairSpec
INVARIANTS TypeOK RowsInStep ListIsProper
PROPERTIES SpinnerStops
