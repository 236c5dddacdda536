SPECIFICATION Spec
CONSTANTS
  Jobs = {"j1", "j2"}
  Users = {"alice"}
  MaxRuns = 2
  MaxPendingTasks = 1
  Outcomes = {"ok"}
  Events = {"unschedule"}
PROPERTY RemovalIsRegular
