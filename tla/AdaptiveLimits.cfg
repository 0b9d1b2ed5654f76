\* Two workers and an interface that edits the settings twice.
SPECIFICATION FairSpec
CONSTANTS
  Interfaces = {i1}
  Workers = {w1, w2}
  Policies <- TwoPolicies
  Factory <- Wide
  Threshold = 2
  Cooldown = 1
  MaxDelay = 1
  MaxRevision = 2
  MaxFaults = 1
  None = None
PROPERTIES
  SettingsTakeEffect
  LimitRecovers
