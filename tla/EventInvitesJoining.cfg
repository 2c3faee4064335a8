CONSTANTS
  ann = ann
  ben = ben
  cat = cat
  Person = {ann, ben, cat}
  Founder = ann
  FirstMembers = {ann, ben}
  Kept = 0
  MaxAttempts = 2
  Nothing = Nothing
  MaxChanges = 2
  MaxRequests = 3
  MaxFailures = 1
SPECIFICATION Spec
INVARIANTS TypeOK OneOpenLink
PROPERTIES RemovedStayOut CancelledLinksAdmitNobody ReceiptsAreHonoured ReceiptsSettle
CHECK_DEADLOCK FALSE
