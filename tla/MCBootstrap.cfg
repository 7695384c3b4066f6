SPECIFICATION FairSpec
CONSTANTS
  px = px
  py = py
  c1 = c1
  c2 = c2
  c3 = c3
  r2 = r2
  mirror = mirror
  cache = cache
  Procs <- MCProcs
  Callers <- MCCallers
  ProcOf <- MCProcOf
  ConfigsOf <- MCConfigsOf
  EnvConfig <- MCEnvConfig
  Published = Published
  Corrupt = Corrupt
  Partial = Partial
  None = None
  RetryAttempt = 2
  MaxCrashes = 1
INVARIANTS
  OneDownload
  VerifiedOnly
  SuccessMeansInstalled
  LadderExhausted
  NoOrphans
PROPERTIES
  CallReturns
