SPECIFICATION FairProcSpec
CONSTANTS
  None = None
  api = api
  worker = worker
  Procs = {api, worker}
  Config <- Both
  Requests = {r1, r2}
  Migrations = 2
  MaxOpenConns = 2
  MaxDeaths = 1
INVARIANTS
  ProcTypeOK
  ServesWholeSchema
  FilesRunOnce
  DirtyOnlyByDeath
PROPERTIES
  RequestsEnd
  SignalledStops
