\* A forum thread without date that stays in the listings beyond the dedupe window.
SPECIFICATION EtfSpec
CONSTANTS
  Worlds <- ThreadWorlds
  Window = 1
  Backfill = 2
  Dedupe = 3
  History = 4
  MinResearch = 2
  FixedLimit = 1
  ForumLimit = 2
  MinForum = 2
  LastDay = 6
  MaxBuilds = 3
INVARIANT NothingMailedTwice
CHECK_DEADLOCK FALSE
