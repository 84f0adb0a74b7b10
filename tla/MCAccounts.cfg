SPECIFICATION Spec
CONSTANTS
  Reqs = {r1, r2}
  Sids = {s1, s2}
  MaxFails = 2
  Nothing = Nothing
INVARIANTS TypeOK OldPasswordOnlyByOverlap EnabledIsProved GuessesBounded
SYMMETRY Symmetry
