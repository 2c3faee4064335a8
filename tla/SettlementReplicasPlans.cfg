CONSTANTS
  ann = ann
  ben = ben
  cat = cat
  dan = dan
  eve = eve
  d1 = d1
  d2 = d2
  e1 = e1
  e2 = e2
  Participant = {ann, ben, cat, dan, eve}
  Expense = {e1, e2}
  Content <- Ledger
  Unit = 2
  Device = {d1, d2}
  PersonOf <- Phones
  Admin = {ann, ben}
  Maker <- Makers
  FirstExpenses <- OneExpense
  FirstRounded = TRUE
  ListOrder <- FirstOrder
  OtherOrder <- SecondReordered
  Window = 1
  Nothing = Nothing
  MaxTime = 2
  MaxChanges = 2
SPECIFICATION Spec
INVARIANTS TypeOK PlansSettleTheLedger QuietCopiesShowTheRow
PROPERTIES PaymentsStand FirstPlanStands UnrelatedWritesKeepThePlan
CHECK_DEADLOCK FALSE
