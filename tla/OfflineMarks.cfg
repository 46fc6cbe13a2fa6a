SPECIFICATION Spec
CONSTANTS
  Credentials = {c1, c2}
  Jobs = {j1}
  MaxSecrets = 3
  MaxEvents = 6
  Persons = {a, b}
  Logins = {l1, l2}
  Owner = a
  Nobody = Nobody
  Tabs = {t1}
  MaxIntents = 2
  MaxLoads = 3
  MaxFaults = 1
SYMMETRY Alike
CHECK_DEADLOCK FALSE
INVARIANTS
    AccountsHold
    EditsKept
PROPERTIES
    CallsAreProven
