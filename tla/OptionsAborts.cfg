SPECIFICATION Spec
CONSTANTS
  Scenes = {"devices"}
  Entries <- MCEntries
  MaxLine = 1
  Startups <- MCStartups
  Speeds <- MCSpeeds
  RefDevs = {"b", "c"}
  MaxEdits = 1
INVARIANTS
  NeverAborts
CHECK_DEADLOCK FALSE
