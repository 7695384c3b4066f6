SPECIFICATION FairSpec
CONSTANTS
  g1 = g1
  g2 = g2
  g3 = g3
  haswell = haswell
  fallback = fallback
  auto = auto
  unknown = unknown
  None = None
  Goroutines <- MCGoroutines
  Fallback <- fallback
  Automatic <- auto
  Cpus = {haswell}
  Requests = {fallback}
PROPERTIES
  SetKernelReturnsEventually
