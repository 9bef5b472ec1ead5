CONSTANTS
  ana = ana  bia = bia
  Account = {ana}
  NoUser = NoUser
  First = {ana}
  MaxPipeline = 4
  MaxWrite = 4
  MaxTrouble = 0
SPECIFICATION OvertakenSpec
INVARIANTS FailedWasRefused
CHECK_DEADLOCK FALSE
