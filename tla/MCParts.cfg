SPECIFICATION PartsFairSpec
CONSTANTS
  Clients = {"c"}
  Browsers = {"h"}
  MaxFd = 8
  MaxSelect = 2
  Period <- MCPeriod
  ClosingTimeout = 0
  RegularTimeout = 0
  MaxEvents = 1
  MaxNodes = 2
  Devs = {"a", "b"}
  Primary = "a"
  Phy <- MCPhy
  Radio = {}
  Kernels <- MCKernels
  MaxMtu = 3
  Ttls = {5, 50}
  MaxChanges = 2
  MaxBroken = 1
  Originals = {2}
  Entries = {"a", "b", "c", "d"}
  Anchor = "head"
CHECK_DEADLOCK FALSE
INVARIANTS WatchedIsOpen TasksInOrder SettingsInForce ActiveAsKernel Balanced
PROPERTIES ClosedForAReason AnswersClients ImplementsSortedSet ImplementsSequence
