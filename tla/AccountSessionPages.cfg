SPECIFICATION Spec
CONSTANTS
  Account = {a, b}
  Page = {p, q}
  Edit = {}
  First = a
  Nobody = nobody
  Guest = guest
  MaxLogins = 2
  MaxFailures = 1
CHECK_DEADLOCK FALSE
PROPERTIES PagesSettle
