SPECIFICATION GroupsSpec
CONSTANTS
  Keys = {"command", "_sys_join"}
  SystemKeys = {"_sys_join"}
  MaxGroups = 5
  MaxAdded = 2
INVARIANT PrivateMiddlewares
CHECK_DEADLOCK FALSE
