SPECIFICATION Spec
CONSTANTS
  Jobs = {"j1"}
  Users = {"alice"}
  MaxRuns = 3
  MaxPendingTasks = 1
  Outcomes = {"ok", "error", "cancelled"}
  Events = {"unschedule", "link", "cancel", "stream", "copy", "nopid"}
INVARIANTS TypeOK SocketTaskWired NoConnectionLeak ErrorHasMessage HistoryTruthful NoSelfOverlap
