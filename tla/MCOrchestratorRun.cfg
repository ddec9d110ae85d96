SPECIFICATION LoopSpec
CONSTANTS
  Servers <- MCServers
INVARIANTS
  ServersSpanTheRun
  OutcomeIsEarned
  TimelineTellsManager
PROPERTIES
  WorkflowTimeoutEndsRun
  AgentTimeoutEndsRun
