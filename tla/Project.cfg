SPECIFICATION ProjectSpec
CONSTANTS
  ManifestInputs <- MCManifestInputs
  HandlerProcessors <- OneProcessor
INVARIANTS
  ProjectTypeOK
  ChainIdResolved
  ProjectRunnable
  TemplatesInstantiable
  AcceptsTyped
CHECK_DEADLOCK FALSE
