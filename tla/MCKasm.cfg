SPECIFICATION Spec
CHECK_DEADLOCK FALSE
CONSTANTS
  Gap = Gap
  Projects <- MCProjects
INVARIANTS
  StatementsAreLines
  SymbolsAreLabels
  ErrorNamesLine
  EncodingsAgree
