CONSTANTS
  AddrBits = 4
  None = None
  SiteIds = {1, 2}
  Forms <- MCForms
  Presets <- MCPresets
  Tunnel <- MCTunnel
  Pool <- MCPool
  Narrowest = 4
  Widest = 1
  Own <- MCOwn
  Client <- MCClient
SPECIFICATION Spec
INVARIANTS
  TypeOK
  OneSitePerAddress
  ThereAndBack
