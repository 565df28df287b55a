SPECIFICATION Spec
CONSTANTS
  Proc = {1,2}
  NINODES = 3
  NINODE = 3
  Others = 1
  Name = {"a","b"}
  Calls <- TwoLevels
INVARIANTS RefsExact NamesSafe LinksExact NoDeadlock
CHECK_DEADLOCK FALSE
