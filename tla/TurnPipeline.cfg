SPECIFICATION PipelineSpec
CONSTANTS
  Calls = {t1, t2}
  MaxFragments = 2
  Callers = {requester, other}
  Requester = requester
  MaxVersion = 2
  Catalogs <- MCCatalogs
  DefaultModel <- MCDefaultModel
\* A request ends.
CHECK_DEADLOCK FALSE
INVARIANTS StreamTellsOutcome StopMeansFinished ListedIsServed FastContract
PROPERTY CatalogNeverGoesBack
