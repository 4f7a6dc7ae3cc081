CONSTANTS
  home = home
  pa = pa
  None = None
  Paths = {home, pa}
  Home = home
  MaxEntries = 1
  MaxJobs = 3
  MaxDestroys = 1
SPECIFICATION FairSpec
INVARIANTS GivenIsOwn NothingLeftOver
PROPERTIES LatestCommits NavigationEnds
CHECK_DEADLOCK FALSE
