SPECIFICATION ServicesSpec
CONSTANTS
  p1 = p1
  p2 = p2
  p3 = p3
  a1 = a1
  a2 = a2
  Publications = {p1, p2, p3}
  Admitters = {a1, a2}
  None = None
  LastDay = 2
  Planned <- MCPlanned
  Lineage <- MCLineage
  Limits <- MCLimits
  k1 = k1
  k2 = k2
  Items = {k1, k2}
  MaxDeaths = 2
  Coordinators = {k3}
  Preparers = {k4}
  MaxAttempts = 2
  MaxCrashes = 1
  Pubs = {k3}
  Requests = {k1, k2}
  MaxAuths = 2
  MaxActs = 1
  MaxLostRequests = 1
  Observers = {k1, k2}
  HistoryLimit = 1
  MaxReceipts = 2
  MaxReadFaults = 1
  Posts = {k1, k2}
  PageSize = 1
  Operators = {k1, k2}
  Copies = {k5}
  Backgrounds = {k6}
  Jobs = {k1, k2, k3, k4}
  Budget = 2
  MaxBusiness = 1
  PlanProducts = {1, 2, 3}
  Boards = {1, 2}
  Vendor <- MCVendor
  Target = 2
  ReserveTarget = 1
  ProductCap = 2
  VendorLimit = 1
  BoardLimit = 1
  Share = 7
  Callers = {k3}
  MaxChanges = 1
  Listings = {1, 2}
  Profiles <- MCProfiles
  Workers = {k1, k2}
  ProductLimit = 1
  PerProduct = 2
  Drafts = {k1, k2}
  Renderers = {k1, k2}
  MaxMediaFaults = 2
  Sessions = {k1, k2}
  MaxRows = 1
  MaxPushes = 1
  SyncJobs = {k3, k4}
  Processes = {k1, k2}
  Products = {k1, k2}
  Batch = 2
  Contents = {k6}
  MaxHydrations = 1
  NoJob = NoJob
  NoBytes = NoBytes
  MaxRuns = 2
INVARIANTS ServicesTypeOK BoardCreatedOnce   RetryReconciled AtMostOnePost FailedMeansNoPin ActivationSpent OneVerdict ScanSeesPost ReviewUndecided  ProbedOnce PassLeavesNothing ActivePlanKeepsCaps  RenderedHasObject SyncAccounted DigestOfItsImage 
PROPERTIES ClaimWithinLimits ClaimReserved AdoptionIsSafe
SYMMETRY Symmetric
CHECK_DEADLOCK FALSE
