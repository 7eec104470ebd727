SPECIFICATION WideOrDeep
CONSTANTS
  Dates = {1, 2}
  Periods = {1, 2}
  Responses <- ViewResponses
  FutuAnswers <- FewFutu
  Retention = 0
  MaxRows = 3
INVARIANTS
  PredictionNeverMasks
