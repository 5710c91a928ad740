SPECIFICATION Spec
CONSTANTS
  Texts <- Statements
  Lengths = {0, 2}
INVARIANTS TokensTile ParametersFound RendersStatement EngineSeesPlaceholders
