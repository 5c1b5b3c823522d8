SPECIFICATION Spec
CONSTANTS
  Services = {"app", "job"}
  AutoDeploy = {"app", "job"}
  CronServices = {"job"}
  SourceBuilds = {1, 2}
  Requests = {"k", "push"}
  Deliveries = {"push"}
  Releases = {r1, r2}
  NoService = "nobody"
  NoRequest = "-"
  None = None
  r1 = r1
  r2 = r2
  BuildLimit = 1
  QueueLimit = 1
  FlushLimit = 1
  MaxAttempts = 2
SYMMETRY MCSymmetry
INVARIANTS BuildsTypeOK DeploysSuccess DeploysOnce
PROPERTIES KeepsDelivery
