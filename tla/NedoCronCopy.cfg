SPECIFICATION Spec
CONSTANTS
  Jobs = {"j1"}
  Users = {"alice"}
  MaxRuns = 2
  MaxPendingTasks = 1
  Outcomes = {"ok"}
  Events = {"copy"}
INVARIANT OneRunAtATime
