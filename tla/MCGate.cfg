\* Two launchers over two days, one of them perhaps the IC/IM-only gate; one edit of the launcher or of the snapshot.
SPECIFICATION FairGateSpec
CONSTANTS
  Launchers = {l1, l2}
  Modes <- ModesOfEach
  Groups <- FewGroups
  Instants <- TwoDays
  Editable = {"deps", "tree"}
  MaxEdits = 1
  NoOne = NoOne
INVARIANT OneSuiteAtATime
PROPERTIES
  
  EveryLauncherConcludes
CHECK_DEADLOCK FALSE
