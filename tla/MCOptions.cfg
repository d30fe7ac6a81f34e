SPECIFICATION Spec
CONSTANTS
  Scenes <- MCScenes
  Entries <- MCEntries
  MaxLine = 2
  Startups <- MCStartups
  Speeds <- MCSpeeds
  RefDevs = {"b", "c"}
  MaxEdits = 1
INVARIANTS
  SavedAsTracked
  EffectAsTracked
PROPERTIES
  ReloadChangesNothing
CHECK_DEADLOCK FALSE
