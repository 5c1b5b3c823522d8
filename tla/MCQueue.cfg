SPECIFICATION FairSpec
CONSTANTS
  Services = {"cron"}
  CronServices = {"cron"}
  BackupState <- MCBackupState
  Deployments = {1, 2}
  Actions = {3}
  CronRuns = {4}
  Stages = {"checking"}
  Keys = {}
  NoKey = "-"
  NoService = "nobody"
  QueueLimit = 1
  MaxAttempts = 2
INVARIANTS TypeOK OneLive WorkExcludes RunsReleased
PROPERTIES OutcomeIsFinal LateOnlyFails KeepsPromise EveryJobFinishes
