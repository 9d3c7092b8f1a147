SPECIFICATION Spec
CONSTANTS
  c1 = c1
  c2 = c2
  Clients = {c1, c2}
  Populations <- MCPopulations
  WorkerThreads = 1
  MaxRequests = 2
CHECK_DEADLOCK FALSE
INVARIANTS QuietClientsKeepItUp ResetMeansUnread OneAnswer
PROPERTIES TakenIsAnswered 
