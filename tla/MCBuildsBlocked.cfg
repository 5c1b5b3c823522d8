SPECIFICATION FairSpec
CONSTANTS
  Services = {"app", "job"}
  AutoDeploy = {}
  CronServices = {"job"}
  SourceBuilds = {1, 2}
  Requests = {}
  Deliveries = {}
  Releases = {10, 11}
  NoService = "nobody"
  NoRequest = "-"
  None = 0
  BuildLimit = 2
  QueueLimit = 1
  FlushLimit = 1
  MaxAttempts = 1
PROPERTIES SuccessIsDeployed
