SPECIFICATION FairSpec
CONSTANTS
  Jobs = {"j1"}
  Users = {"alice"}
  MaxRuns = 2
  MaxPendingTasks = 0
  Outcomes = {"ok", "error"}
  Events = {"unschedule", "link", "stream", "crash", "reuse", "sigterm", "stale"}
INVARIANTS ActiveIffLoaded OpenRunOwned NoSelfOverlap
PROPERTIES FinalStatusStable ImplementsRunHistory RunsEnd RemovedJobForgotten
