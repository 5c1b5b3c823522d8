SPECIFICATION Spec
CONSTANTS
  Applications = {"app", "web"}
  Databases = {}
  Standalone = {}
  OwnVolume <- MCOwnVolume
  Detachable = {"app-data", "web-data"}
  Sessions = {x1}
  x1 = x1
  ActionKinds = {"start", "stop"}
  Routed = {}
  NoVolume = "no volume"
  NoRelease = "no release"
  NoService = "nobody"
INVARIANTS VolumeExclusive
