\* One endpoint, one number of channels.
SPECIFICATION Spec
CONSTANTS
  Endpoints <- MCEndpoints
  Sources = {66}
  Requests = {2}
INVARIANT WrapperRefersToLive
CHECK_DEADLOCK FALSE
