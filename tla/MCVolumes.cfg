SPECIFICATION Spec
CONSTANTS
  Applications = {"app", "web"}
  Databases = {"db"}
  Standalone = {"disk"}
  OwnVolume <- MCOwnVolume
  Detachable = {"disk", "db-data"}
  Sessions = {x1, x2}
  x1 = x1
  x2 = x2
  ActionKinds = {"start", "stop", "backup"}
  Routed = {"app"}
  NoVolume = "no volume"
  NoRelease = "no release"
  NoService = "nobody"
SYMMETRY MCSymmetry
INVARIANTS VolumesTypeOK VolumeExclusive AttachmentsAgree UsesConfigured
PROPERTIES NetworkingKept
