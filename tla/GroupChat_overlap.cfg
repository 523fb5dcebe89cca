\* A model call outlasts its lease and a second worker claims the job.
SPECIFICATION Spec
CONSTANTS
  None = None
  Job = {j1}
  Worker = {w1, w2}
  Ref = {r1}
  Cursor = {}
  NAgents = 2
  Rounds = 1
  SafetyTurns = 40
  Orchestrated = TRUE
INVARIANTS RoundRobin
