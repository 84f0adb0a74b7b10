SPECIFICATION Spec
CONSTANTS
  Reqs = {r1, r2}
  Devices = {1, 2}
  Last = 2
  SiteAddrs = {}
  Acls = {a}
  Inodes = {i1, i2, i3}
  Nothing = Nothing
INVARIANTS TypeOK FileFollowsTable TornOnlyByClash
PROPERTIES SharedOnlyByOverlap
SYMMETRY Symmetry
