SPECIFICATION SweepSpec
CONSTANTS
  build = build
  lint = lint
  r1 = r1
  p1 = p1
  p2 = p2
  Nobody = Nobody
  Jobs <- MCJobs
  JobOrder <- MCJobOrder
  Deps <- MCDeps
  Runners <- MCRunners
  Workers <- MCOneWorker
  SeqBound = 5
  CrashBound = 0
PROPERTIES
  JobEndSurfaces
