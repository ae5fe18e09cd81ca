SPECIFICATION Spec
CONSTANTS
  localhost = localhost
  listed = listed
  foreign = foreign
  NoOrigin = NoOrigin
  Wildcard = Wildcard
  NoRequest = NoRequest
  NoFile = NoFile
  Zero = "zero"
  Failed = Failed
  Backend = "backend"
  Malformed = "eighty"
  MaxSent = 5
  Window = 1
  Local <- LocalOrigins
  Request <- Requests
  Deployment <- Deployments
  File <- Files
  Environment <- Environments
CHECK_DEADLOCK FALSE
INVARIANTS TypeOK NothingLost
PROPERTIES Admitted MessagesAnswered RequestEnds BackendFreed
