\* One object, two secrets to rotate between, three attempts as in the code.
CONSTANTS
  Objs = {o1}
  None = None
  Secrets = {s1, s2}
  NoMFA = NoMFA
  Absent = Absent
  MaxAttempts = 3
SPECIFICATION FairSpec
PROPERTIES
  KeyAloneSuffices
  WaitingEnds
  SilentPeersDropped
