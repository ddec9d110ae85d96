SPECIFICATION Spec
\* The instance stops when the user stops.
CHECK_DEADLOCK FALSE
CONSTANTS
  Url = {u1, u2}
  MaxSubmissions = 2
  MaxInteractions = 3
INVARIANTS
  FailedIdIsOfTheError
