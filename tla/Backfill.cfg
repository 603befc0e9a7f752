\* Up to four old rows, saved at any time; crashes, repairs and downgrades.
CONSTANTS
  home = home
  homeSpelled = homeSpelled
  away = away
  MaxId = 4
  MaxTime = 2
  Keys = {home, homeSpelled, away}
  Norm <- MCNorm
SPECIFICATION Spec
INVARIANT BackfillGivesALifecycle
PROPERTIES HistoryIsKept OnlyUnseenRowsStopIt
