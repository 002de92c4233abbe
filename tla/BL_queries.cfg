CONSTANTS
  NBlocks = 2
  PagesPerBlock = 2
  PageSize = 2
  Handles = {h1, h2}
  Vals = {0, 1}
  Zero = 0
  NULL = NULL
  INVALID = INVALID
  NoData = NoData
  Garbage = Garbage
  NoAccess = NoAccess
  Requests <- PageRanges
  CommitRequests <- AllRanges
  CopyOntoShared = FALSE
  DecommitUncommitted = FALSE
  ShareReadOnly = FALSE
  PartialMoves = FALSE
  RejectedCalls = TRUE
SPECIFICATION Spec
VIEW QueryView
SYMMETRY Symmetry
INVARIANT QueriesAnswer
