CONSTANTS
  None = None
  Torn = Torn
  l1 = l1
  l2 = l2
  l3 = l3
  t1 = t1
  t2 = t2
  b1 = b1
  Trts <- MCTrts
  Registered <- MCRegistered
  Enabled <- MCEnabled
  TemplateBound <- MCEnabled
  TemplateConfig <- MCTemplateConfig
  ToolCatalog <- MCTools
  Instruments = {}
  ToolSets <- MCToolSets
  Threads = {t1, t2}
  Reports <- MCReports
  Given <- MCGiven
  Requests <- MCRequests
  Results <- MCResults
  Logs <- MCLogs
  Deploys <- MCDeploys
  ManualTimes = {"T2", None}
  BuiltInTime = "T0"
  MaxPlans = 1
  MaxSpecs = 1
  MaxRuns = 1
  MaxDeployments = 2
  MaxWrites = 1
  MaxCrashes = 1
SPECIFICATION Spec
SYMMETRY Symmetric
INVARIANT NoChangeMeansSame
CHECK_DEADLOCK FALSE
