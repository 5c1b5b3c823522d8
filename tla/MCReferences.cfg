SPECIFICATION Spec
CONSTANTS
  Applications = {api, job, web}
  api = api
  job = job
  web = web
  Databases = {"db"}
  Names = {"A", "B"}
  Connection = "A"
  Prefixes = {"B"}
  Buckets = {"s3"}
  Limit = 1
  Rotations = 2
  Requests = 2
  Serial <- MCSerial
SYMMETRY MCSymmetry
INVARIANTS ReferencesTypeOK ReferencesAcyclic EnvironmentsResolve BindingsCurrent 
PROPERTIES RenameKeepsValues
