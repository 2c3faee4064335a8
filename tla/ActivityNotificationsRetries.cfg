CONSTANTS
  ben = ben
  cat = cat
  dana = dana
  phone1 = phone1
  phone2 = phone2
  tablet = tablet
  expense1 = expense1
  expense2 = expense2
  request1 = request1
  request2 = request2
  Nobody = Nobody
  Sender = dana
  Activity = {expense1}
  Handler = {request1, request2}
  People <- BenThenCat
  DevicesOf <- OnePhoneEach
  Astray = {ben}
  MaxFailures = 2
  MaxRemovals = 1
SPECIFICATION Spec
INVARIANTS TypeOK NoSecondPush ForgottenMeansTold InboxComesFirst
PROPERTIES ListedIsSettled
CHECK_DEADLOCK FALSE
