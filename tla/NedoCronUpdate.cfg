SPECIFICATION Spec
CONSTANTS
  Jobs = {"j1"}
  Users = {"alice", "bob"}
  MaxRuns = 2
  MaxPendingTasks = 1
  Outcomes = {"ok"}
  Events = {"update"}
PROPERTY CommandOfItsUser
