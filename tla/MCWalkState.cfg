SPECIFICATION Spec
CONSTANTS
  c1 = c1
  c2 = c2
  c3 = c3
  main = main
  side = side
  omain = omain
  None = None
  Branch <- MCBranch
  OtherRefs = {}
  Procs = {p1}
  Commits = {c1, c2, c3}
  Anc <- MergeAnc
  Merges = {c3}
  LocalRefs = {main, side}
  OriginRefs = {}
  Configs <- CoveringConfigs
  MayDetach = FALSE
  RewriteDuringRun = FALSE
SYMMETRY MergeSymmetry
INVARIANTS
  SkipIsSound
  HiddenIsRecorded
  InFlightKeepsGoodBase
PROPERTY
  KeepsPromise
