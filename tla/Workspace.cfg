CONSTANTS
  Incarnations <- MCIncarnations
  MaxClose <- MCMaxClose
SPECIFICATION Spec
INVARIANT WorkspaceConsistent
PROPERTY ServeEndsAfterClose
CHECK_DEADLOCK FALSE
