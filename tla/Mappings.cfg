SPECIFICATION MappingsSpec
CONSTANTS
  r1 = r1
  r2 = r2
  f = f
  g = g
  upperF = upperF
  home = home
  app = app
  Roots = {r1, r2}
  Folders = {f, upperF, g}
  Fold <- MCFold
  Elsewhere = {home}
  Configured <- MCConfigured
  Limit = 2
  MaxFound = 1
  MaxFaults = 1
INVARIANTS OneProjectPerDirectory PlansKeepTheirDirectory PreparedAreRecovered
PROPERTIES ServerLearns
