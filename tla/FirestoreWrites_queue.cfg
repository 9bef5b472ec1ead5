CONSTANTS
  ana = ana  bia = bia
  Account = {ana, bia}
  NoUser = NoUser
  First = {ana}
  MaxPipeline = 2
  MaxWrite = 3
  MaxTrouble = 2
SPECIFICATION FairSpec
INVARIANTS TypeOK StreamServesItsUser AnswerIsForFirst NoWriteForgotten AssertionsHold LaterStands ToldTrue
PROPERTIES PromiseKept Settles
CHECK_DEADLOCK FALSE
