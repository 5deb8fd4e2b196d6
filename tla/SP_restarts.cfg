SPECIFICATION FairSpec
CONSTANTS
  Clients = {c1, c2}
  MaxStarts = 3
  Absent = Absent
  Torn = Torn
CHECK_DEADLOCK FALSE
INVARIANTS TypeOK FilesSurvive DrainedBeforeExit
PROPERTIES EndsWhenAsked
