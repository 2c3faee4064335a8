SPECIFICATION Spec
CONSTANTS
  Account = {a, b}
  Page = {p, q}
  Edit = {e}
  First = a
  Nobody = nobody
  Guest = guest
  MaxLogins = 2
  MaxFailures = 1
SYMMETRY Pages
CHECK_DEADLOCK FALSE
INVARIANTS TypeOK OwnDataOnly EditsAreKept
