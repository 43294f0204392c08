SPECIFICATION FairSpec
CONSTANTS
  MaxRequests = 2
  MaxBody = 2
  MaxWrites = 2
  Modes = {"sequential", "pipelined"}
  Awkward = {"abort"}
CHECK_DEADLOCK FALSE
INVARIANTS WellFramed NothingLeftBottled NothingIsSkipped WorkerSurvives
PROPERTY RequestsAreAnswered
