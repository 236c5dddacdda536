SPECIFICATION FairSpec
CONSTANTS
  Jobs = {"j1"}
  Users = {"alice"}
  MaxRuns = 2
  MaxPendingTasks = 1
  Outcomes = {"ok", "cancelled"}
  Events = {"bigquery"}
PROPERTY RunsEnd
