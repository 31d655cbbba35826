SPECIFICATION FairSpec
CONSTANTS
  Names = {1}
  Rates = {0}
  Defaults <- OneDefault
  MaxOperations = 1
  MaxListed = 1
  MaxUpdates = 2
  Environments = {{}}
PROPERTIES
  RetrySucceeds
CHECK_DEADLOCK FALSE
