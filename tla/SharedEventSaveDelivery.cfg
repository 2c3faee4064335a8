CONSTANTS
  d1 = d1
  d2 = d2
  creator = creator
  member = member
  e1 = e1
  e2 = e2
  e3 = e3
  Device = {d1, d2}
  Account = {creator, member}
  Creator = creator
  AccountOf <- TwoAccounts
  Admin = {creator}
  InitialMember = {creator}
  Edit = {e1, e2, e3}
  Author <- MemberHasTwo
  RetryLimit = 1
  MaxFaults = 1
  MaxChurn = 2
SPECIFICATION FairSpec
PROPERTY EditsAreDelivered
CHECK_DEADLOCK FALSE
