SPECIFICATION SweepSpec
CONSTANTS
  build = build
  lint = lint
  r1 = r1
  p1 = p1
  p2 = p2
  Nobody = Nobody
  Jobs <- MCJobs
  JobOrder <- MCJobOrder
  Deps <- MCDeps
  Runners <- MCRunners
  Workers <- MCWorkers
  SeqBound = 4
  CrashBound = 1
INVARIANTS
  IInv
PROPERTIES
  RunRowNeverGoesBack
  EndSurfaces
