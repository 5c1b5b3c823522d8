SPECIFICATION SpecRollout
CONSTANTS
  Services = {"app"}
  CronServices = {}
  BackupState <- MCNoBackups
  Deployments = {1, 2}
  Actions = {}
  CronRuns = {}
  Stages = {"pulling", "starting", "checking", "routing"}
  Keys = {}
  NoKey = "-"
  NoService = "nobody"
  QueueLimit = 1
  MaxAttempts = 2
  Web = TRUE
  Volumes = {TRUE}
  Broken = {}
  MaxFaults = 0
INVARIANTS OneWriter
