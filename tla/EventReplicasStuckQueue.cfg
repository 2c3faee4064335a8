CONSTANTS
  ann = ann
  ben = ben
  cat = cat
  d1 = d1
  d2 = d2
  e1 = e1
  Nothing = Nothing
  Participant = {ann, ben}
  Rank <- OrderOfTwo
  Expense = {}
  Writer = {d1, d2}
  PersonOf <- Phones
  Maker <- NoExpenses
  Creator = ann
  FirstAdmin = {ann,ben}
  Skew <- TrueClocks
  Tolerance = 1
  MaxTime = 2
  MaxChanges = 2
SPECIFICATION FairSpec
PROPERTIES QueuedChangesAreDelivered
CHECK_DEADLOCK FALSE
