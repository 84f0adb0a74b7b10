CONSTANTS
  Objs = {o1, o2}
  None = None
  Secrets = {s1}
  NoMFA = NoMFA
  Absent = Absent
  MaxAttempts = 3
SPECIFICATION Spec
PROPERTY
  ReconnectMustProve
