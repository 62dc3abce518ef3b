CONSTANTS
  Incarnations <- MCIncarnations
  MaxClose <- MCMaxClose
SPECIFICATION Spec
INVARIANT RunningWorkspaceKeepsDirectory
CHECK_DEADLOCK FALSE
