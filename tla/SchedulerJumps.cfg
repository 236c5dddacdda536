SPECIFICATION Spec
CONSTANTS
  fixed = fixed
  floating = floating
  seconds = seconds
  Minute = 2
  Jobs <- JumpJobs
  ScheduleChoices <- JumpSchedules
  MaxTime = 12
  ClockDeltas <- Deltas
  JumpForward = 1
  ClockChange = 3
  MaxPendingTasks = 1
  MaxSleep = 3
  MaxHeld = 0
  RestartDelay = 3
INVARIANTS TypeOK AtMostOncePerMinute NoFixedMinuteMissed IdleQueueBounded
