CONSTANTS
  Request = {r1, r2}
  Limit <- MCLimit
  Code <- MCCode
  Plain <- MCPlain
  Length <- MCLength
  UpperOf <- MCUpperOf
SPECIFICATION Spec
INVARIANTS TypeOK ConnectionsReturned CleanStop FailuresHaveCause BadRequestIsOddCode
PROPERTIES RequestsProgress RequestsAnswered StopCompletes ServesWithRedis
