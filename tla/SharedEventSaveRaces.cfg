CONSTANTS
  d1 = d1
  d2 = d2
  creator = creator
  member = member
  e1 = e1
  e2 = e2
  e3 = e3
  Device = {d1, d2}
  Account = {creator, member}
  Creator = creator
  AccountOf <- TwoAccounts
  Admin = {creator, member}
  InitialMember = {creator}
  Edit = {e1, e2, e3}
  Author <- CreatorHasTwo
  RetryLimit = 1
  MaxFaults = 1
  MaxChurn = 2
SPECIFICATION Spec
INVARIANTS TypeOK BaselineMatchesVersion AcknowledgedEditsStay DroppedOnlyWhenDeleted
PROPERTIES RecordOnlyGrows IntentRetained RecordSpec
CHECK_DEADLOCK FALSE
