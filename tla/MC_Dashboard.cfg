CONSTANTS
  Points = 2
  RenderMax = 2
  ReadTotals <- MCReadTotals
  WriteTotals <- MCWriteTotals
  MaxQueue = 2
  MaxPending = 2
SPECIFICATION Spec
INVARIANT TypeOK
INVARIANT PagesFollowLoading
INVARIANT CurveShowsRecentTotals
INVARIANT CurveFitsFrame
INVARIANT MonitorsNeverMisused
PROPERTY LoadingEventuallyEnds
