SPECIFICATION FairSpec
CONSTANTS
  Sessions = {"s1", "s2"}
  MaxChanges = 2
  MaxOid = 3
  Events = {"ddl", "toast", "sighup"}
PROPERTY EventuallyFresh
