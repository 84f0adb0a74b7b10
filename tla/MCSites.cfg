SPECIFICATION Spec
CONSTANTS
  Reqs = {r1, r2}
  Codes = {1, 2, 3}
  Keys = {1, 2, 3, 4}
  Preset = Preset
  Nothing = Nothing
INVARIANTS TypeOK CurrentWhenPublishedAlone KeyOrCode
PROPERTIES KeptUntilReplaced
SYMMETRY Symmetry
