SPECIFICATION Spec
CONSTANTS
  Sessions = {"s1", "s2"}
  MaxChanges = 3
  MaxOid = 1
  Events = {"sighup"}
INVARIANT AnnouncedIsLoaded
