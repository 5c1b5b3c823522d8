SPECIFICATION FairCron
CONSTANTS
  Services = {"cron"}
  CronServices = {"cron"}
  BackupState <- MCNoBackups
  Deployments = {1}
  Actions = {}
  CronRuns = {2, 3}
  Stages = {}
  Keys = {}
  NoKey = "-"
  NoService = "nobody"
  QueueLimit = 1
  MaxAttempts = 2
  MaxFaults = 1
INVARIANTS CronTypeOK ExecutedOnce SuccessIsReal
PROPERTIES RunsLeaveNothing
