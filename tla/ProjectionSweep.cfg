SPECIFICATION Spec
CONSTANTS
  r1 = r1
  r2 = r2
  r3 = r3
  Runs <- MCRuns
  Forsaken <- MCFewForsaken
  Batch = 2
  SeqBound = 3
PROPERTIES
  EndsSurface
