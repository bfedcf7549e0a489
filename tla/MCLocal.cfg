\* Gates of two days and two orchestrations, one Microcap version; test records.
SPECIFICATION DaySpec
CONSTANTS
  Launchers = {l1}
  Modes <- UsableModes
  Groups <- OneGroup
  Instants <- TwoWindows
  Editable = {"deps", "source", "bundle"}
  MaxEdits = 1
  NoOne = NoOne
  Runs = {r1, r2}
  Kinds = {"both", "independent"}
  Versions = 1
  MaxTouches = 1
  Commits <- ThreeCommits
  Bootstrap = 1
  SourceVersion <- Same12
  Equivalent <- OneTwo
  BoundVersion <- Same12
  LastEdit = 2
SYMMETRY RunSymmetry
INVARIANTS
  OneDayOneWriter
  TestsCount
  

  
CHECK_DEADLOCK FALSE
