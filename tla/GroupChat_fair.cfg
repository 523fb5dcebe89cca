\* One round of two agents and an orchestrator; two workers may overlap.
SPECIFICATION FairSpec
CONSTANTS
  None = None
  Job = {j1}
  Worker = {w1, w2}
  Ref = {r1}
  Cursor = {}
  NAgents = 2
  Rounds = 1
  SafetyTurns = 40
  Orchestrated = TRUE
INVARIANTS TypeOK TurnsBounded TurnsInOrder OrchestratorLast
PROPERTIES JobsStayEnded JobsEnd
