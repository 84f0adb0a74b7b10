\* Two peerState objects: the registered one and one a goroutine still holds.
CONSTANTS
  Objs = {o1, o2}
  None = None
  Secrets = {s1}
  NoMFA = NoMFA
  Absent = Absent
  MaxAttempts = 2
SPECIFICATION Spec
SYMMETRY Symmetry
INVARIANTS
  TypeOK
  NoSessionOutlivesCur
  OpenGateIsEarned
  StrikesEndSession
