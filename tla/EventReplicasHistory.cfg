CONSTANTS
  ann = ann
  ben = ben
  cat = cat
  d1 = d1
  d2 = d2
  e1 = e1
  Nothing = Nothing
  Participant = {ann, ben, cat}
  Rank <- Order
  Expense = {e1}
  Writer = {d1, d2}
  PersonOf <- Phones
  Maker <- MadeByBen
  Creator = ann
  FirstAdmin = {ann, ben}
  Skew <- FastSecond
  Tolerance = 1
  MaxTime = 2
  MaxChanges = 3
SPECIFICATION Spec
INVARIANTS TypeOK SameClosingSameLedger QuietCopiesConverge MergesKeepAnAdmin
PROPERTIES DeletionStands RemovalStands
CHECK_DEADLOCK FALSE
