SPECIFICATION TimedSpec
CONSTANTS
  Servers <- MCServers
PROPERTIES
  CappedByTimeout
