SPECIFICATION WideOrDeep
CONSTANTS
  Dates = {1, 2, 3}
  Periods = {1, 2}
  Responses <- FewResponses
  FutuAnswers <- FewFutu
  Retention = 1
  MaxRows = 3
INVARIANTS
  PredictionRunCompletes
