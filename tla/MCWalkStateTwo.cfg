SPECIFICATION Spec
CONSTANTS
  c1 = c1
  c2 = c2
  c3 = c3
  main = main
  side = side
  omain = omain
  None = None
  Branch <- MCBranch
  OtherRefs = {}
  Procs = {p1, p2}
  Commits = {c1, c2, c3}
  Anc <- ForkAnc
  Merges = {}
  LocalRefs = {main}
  OriginRefs = {omain}
  Configs <- OneConfig
  MayDetach = FALSE
  RewriteDuringRun = FALSE
SYMMETRY ForkSymmetry
INVARIANTS
  SkipIsSound
  HiddenIsRecorded
