\* Assignments, instances and statements change and fail, until they settle.
SPECIFICATION FairSpec
CONSTANTS
  None = None
  Gateway <- MCGateway
  Order <- MCOrder
  g1 = g1
  g2 = g2
  Resolver = {r1, r2}
INVARIANTS TypeOK AnswerWasHolder
PROPERTIES FailoverCompletes
