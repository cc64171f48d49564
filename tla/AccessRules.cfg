CONSTANTS
  Years = {2023, 2024}
  Months = {1, 12}
  Days = {1, 31}
  Locations <- AllLocations
  ZoneCodes <- AllZoneCodes
  AuthLists <- AllLists
  NoDate = NoDate
SPECIFICATION Spec
INVARIANTS GrantMatchesRules OneStay
