CONSTANTS
  ana = ana  bia = bia
  anaMail = anaMail  biaMail = biaMail
  User = {ana, bia}
  Mail <- TwoMails
  Known = {}
  NoUser = NoUser
  Tea = {camomila, hibisco}
  NoTea = NoTea
  Chain = {k1, k2}
SYMMETRY Symmetry
SPECIFICATION Spec
INVARIANTS TypeOK UsersAgree
PROPERTIES ProfiledNotDeleted SavesVerified
