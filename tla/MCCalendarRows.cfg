SPECIFICATION WideOrDeep
CONSTANTS
  Dates = {1, 2}
  Periods = {1, 2}
  Responses <- MixedResponses
  FutuAnswers <- MixedFutu
  Retention = 0
  MaxRows = 3
INVARIANTS
  TypeOK ReleasesAreShown ViewIsDetermined PanelAgreesOnFacts
PROPERTIES
  PeriodIsPersistent
  ProviderRowStaysConfirmed
  NoPeriodVanishes
  ConfirmedDatesFollowProviders
