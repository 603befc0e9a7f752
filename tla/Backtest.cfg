\* Three matches that end while passes look at them, replayed at any time.
CONSTANTS
  m1 = m1
  m2 = m2
  m3 = m3
  bookA = bookA
  bookB = bookB
  Unit = 16
  DrawShare = 4
  Expected <- MCExpected
  MaxGap = 8
  MinEdge = 1
  MinValue = 0
  MinOdds = 2
  MaxOdds = 5
  KellyDivisor = 4
  StakeDivisor = 20
  NoResult = NoResult
  Events = {m1, m2, m3}
  MarketTypes = {"1x2"}
  Sports = {"tennis", "chess"}
  Labels = {"x", "y", "z", "home", "draw", "away"}
  Bookmakers = {bookA, bookB}
  Programmes <- MCProgrammes
  Books <- MCBooks
  MaxTime = 3
  InitialBankroll = 10000
  Windows <- MCWindows
SPECIFICATION Spec
CHECK_DEADLOCK FALSE
INVARIANTS FeedsTheLifeCycle QuotedSlotsAreReported ReportsUsePastOnly ReplayReproducesThePipeline StakesStayWithinTheLimit MetricsAgree
