SPECIFICATION SteadySpec
CONSTANTS
  fixed = fixed
  floating = floating
  seconds = seconds
  Minute = 3
  Jobs <- SteadyJobs
  ScheduleChoices <- SteadySchedules
  MaxTime = 12
  ClockDeltas = {}
  JumpForward = 2
  ClockChange = 5
  MaxPendingTasks = 1
  MaxSleep = 3
  MaxHeld = 3
  RestartDelay = 4
INVARIANTS AtMostOncePerMinute NoMinuteMissed SecondsJobOnTime SecondsQueueAtMostOne
