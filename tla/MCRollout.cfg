SPECIFICATION FairRollout
CONSTANTS
  Services = {"app"}
  CronServices = {}
  BackupState <- MCNoBackups
  Deployments = {1, 2}
  Actions = {3}
  CronRuns = {}
  Stages = {"pulling", "starting", "checking", "routing"}
  Keys = {}
  NoKey = "-"
  NoService = "nobody"
  QueueLimit = 2
  MaxAttempts = 2
  Web = TRUE
  Volumes = {TRUE, FALSE}
  Broken = {}
  MaxFaults = 1
INVARIANTS RolloutTypeOK WritersSwap CancelledNeverServes
PROPERTIES PreviousRetained ReleaseHeld Converges
