CONSTANTS
  ana = ana  bia = bia  cid = cid
  User = {ana, bia, cid}
  Account = {ana, cid}
  NoUser = NoUser
  Channel <- TwoChannels
  Message = {1, 2}
  Author <- Sender
  Place <- Where
  Screen = {s1, s2}
  NoScreen = NoScreen  NoChannel = NoChannel
  MaxComplaint = 1
SPECIFICATION FairSpec
INVARIANTS TypeOK ShowsItsThread DateHasMessage ReportIsFounded
PROPERTIES ReceivedIsShown
