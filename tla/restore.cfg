SPECIFICATION FairSpec
CONSTANTS
  Output       <- MCOutput
  PathPrefixes <- MCPrefixes
  Storage     =  {"onsite", "offsite"}
  Revision    =  {1}
  Templates   <- MCTemplates
  MaxCommands =  2
INVARIANTS ReportMatchesWorkspace
PROPERTIES InterruptMessageTrue InterruptEnds RefinesSelection
CHECK_DEADLOCK FALSE
