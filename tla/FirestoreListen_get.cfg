CONSTANTS
  get = get  live = live  query = query
  Query = {query}
  Listener = {get, live}
  Get = {get}
  Of <- OneQuery
  MaxVersion = 2
  MaxTrouble = 1
SPECIFICATION FairSpec
INVARIANTS TypeOK FreshIfServer AssertionsHold EndsAgree
PROPERTY GetAnswered
CHECK_DEADLOCK FALSE
